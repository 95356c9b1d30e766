SPECIFICATION MCSpec
CONSTANTS
  a = a  b = b  c = c  m1 = m1  m2 = m2  NoOne = NoOne
  RegexFlows = {1}
  Regexes = {a, b, c}
  Managers = {m1, m2}
  IPSets <- MCIPSets
  Setups <- MCSetups
  MaxPayloads = 4
  Domains = {1, 2}
  Labels = {"x", "y"}
  Empty = ""
  NoDomain = 0
  MaxLabels = 3
  TotalSize = 10
  FileHeader = 1
  PacketHeader = 1
  PacketLengths = {1, 3, 8}
  MaxSeconds = 3
  MaxWritten = 4
  MaxFiles = 4
  ContentLengths = {1, 2, 3, 4}
  Header = 2
  FreqFlows = {1, 2}
  KeyOf <- MCKeyOf
  Bytes = {0, 1}
  LastByte = 1
  MaxData = 2
  MaxAgregated = 3
  Values = {0, 1}
  AnyByte = AnyByte
  MaxCopy = 3
  MaxExpression = 3
  MaxPayload = 4
  MaxItems = 3
  Modulus = 4
  MaxBytes = 1
  ByteWidth = 2
  QuotedBytes = {0, 1, 3}
  MaxQuoted = 3
  MaxRejected = 4
  FlowSize = 2
  FreqSize = 3
  Limit = 3
  FileNames = {"a", "b"}
  KeyNames = {"a"}
  MaxListed = 3
INVARIANTS ChainFollowed EvidenceOnDisk InStep GroupsRight     CopiesNotShared
PROPERTIES LongestSuffix
CHECK_DEADLOCK FALSE
