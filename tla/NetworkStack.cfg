SPECIFICATION WalkSpec
CONSTANTS
  Packets <- MCPackets
  BitXor <- ExclusiveOr
  TcpFlows = 8
  UdpFlows = 32
INVARIANTS NothingStale HeadersRead FlowAddressed EvidenceKept
