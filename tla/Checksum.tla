------------------------------ MODULE Checksum ------------------------------
(***************************************************************************)
(* The checksums that RejectManager puts into the packets that it sends.   *)
(* The code adds up words in the order of the machine (little endian), in  *)
(* the order of the network, or with a carry taken back at once, and folds *)
(* the sum in three ways: the receiver checks all alike.                   *)
(***************************************************************************)
EXTENDS Integers, Sequences, SequencesExt

CONSTANTS
  ByteWidth,    \* bound: a byte has ByteWidth bits, not 8
  QuotedBytes,  \* bound: values of a byte in the packet that is rejected
  MaxQuoted,    \* bytes of that packet that an answer quotes, 84
  MaxRejected   \* bound: bytes of that packet

ASSUME ChecksumAssumption ==
  /\ ByteWidth \in Nat \ {0} /\ {MaxQuoted, MaxRejected} \subseteq Nat
  /\ QuotedBytes \subseteq 0 .. 2 ^ ByteWidth - 1

Base == 2 ^ ByteWidth
Word == Base * Base   \* what a word is counted modulo, 2^16 in the code
UINT16_MAX == Word - 1

VARIABLES
  fields,    \* what varies in the headers: two addresses and two fields, a word each
  rejected   \* the packet that is rejected

checksumVars == <<fields, rejected>>

ChecksumInit ==
  /\ fields \in [1 .. 8 -> {0, Base - 1}]
  /\ rejected = <<>>

\* Another byte of it.
ChecksumNext ==
  /\ Len(rejected) < MaxRejected
  /\ \E b \in QuotedBytes : rejected' = Append(rejected, b)
  /\ UNCHANGED fields

Addresses == SubSeq(fields, 1, 4)
Fields == SubSeq(fields, 5, 8)
Quoted == SubSeq(rejected, 1, IF Len(rejected) > MaxQuoted THEN MaxQuoted ELSE Len(rejected))
Zeros(n) == [i \in 1 .. n |-> 0]

-----------------------------------------------------------------------------
(***************************************************************************)
(* Sums                                                                    *)
(***************************************************************************)

At(bytes, i) == IF i <= Len(bytes) THEN bytes[i] ELSE 0
HostWords(bytes) ==
  [i \in 1 .. (Len(bytes) + 1) \div 2 |-> At(bytes, 2 * i - 1) + Base * At(bytes, 2 * i)]
NetworkWords(bytes) ==
  [i \in 1 .. (Len(bytes) + 1) \div 2 |-> Base * At(bytes, 2 * i - 1) + At(bytes, 2 * i)]
SumOfWords(words) == FoldLeft(LAMBDA s, w : s + w, 0, words)

Folded(sum) == (sum % Word) + (sum \div Word)
Complement(sum) == UINT16_MAX - (sum % Word)

\* Mutant: the carry of the first fold is lost.
InternetChecksumOnce(bytes) == Complement(Folded(SumOfWords(HostWords(bytes))))

\* TCPHeader::checksum, and the same of IPv4Header and ICMPHeader.
InternetChecksum(bytes) == Complement(Folded(Folded(SumOfWords(HostWords(bytes)))))

\* ICMPv6Header::checksum folds as long as there is a carry.
ICMPv6Checksum(bytes) ==
  LET fold[sum \in Nat] == IF sum < Word THEN sum ELSE fold[Folded(sum)]
  IN Complement(fold[SumOfWords(HostWords(bytes))])

\* compute_checksum of ICMPHeader.h.
ICMPChecksum(bytes) ==
  LET sum == Folded(SumOfWords(NetworkWords(bytes))) IN Complement(sum + (sum \div Word))

\* TCPHeader::get_16b_sum.
Get16bSum(bytes) ==
  LET Add(sum, w) == IF sum + w > UINT16_MAX THEN sum + w - UINT16_MAX ELSE sum + w
  IN Folded(FoldLeft(Add, 0, HostWords(bytes))) % Word

-----------------------------------------------------------------------------
(***************************************************************************)
(* The packets, with the pseudo header of the receiver                     *)
(***************************************************************************)

InHostOrder(word) == <<word % Base, word \div Base>>
InNetworkOrder(word) == <<word \div Base, word % Base>>
TCP == 6 % Base
ICMPV6 == 58 % Base

\* TCPHeader::computeChecksum of IPv4; the reset has no payload.
PseudoTCP4 == Addresses \o <<0, TCP>> \o InNetworkOrder(Len(Fields) + 2)
ResetTCP4 ==
  PseudoTCP4 \o Fields \o InHostOrder(InternetChecksum(PseudoTCP4 \o Fields \o Zeros(2)))

\* The same of IPv6: it has a sum in the end, and puts 0.
ComputedTCP6 ==
  LET length == InNetworkOrder(Len(Fields) + 2)
      sum == Get16bSum(Fields \o Zeros(2))
               + Get16bSum(Addresses \o length \o Zeros(2) \o <<TCP, 0, 0, 0>>)
      check == Complement(Folded(sum))
  IN IF check = 0 THEN UINT16_MAX ELSE check
PseudoTCP6 == Addresses \o Zeros(2) \o InNetworkOrder(Len(Fields) + 2) \o <<0, 0, 0, TCP>>
ResetTCP6 == PseudoTCP6 \o Fields \o Zeros(2)

\* rejectUDPFlow: type, code, checksum, and what is quoted.
Unreachable(check) == <<3, 3>> \o check \o Zeros(4) \o Quoted
ICMP4 == Unreachable(InNetworkOrder(ICMPChecksum(Unreachable(Zeros(2)))))

\* ICMPv6Header::computeChecksum lays the packet out anew, the checksum after
\* the other fields.
ComputedICMP6 ==
  ICMPv6Checksum(Addresses \o Zeros(2) \o InNetworkOrder(8 + Len(Quoted)) \o Zeros(3)
                   \o <<ICMPV6>> \o <<1, 4 % Base>> \o Zeros(4) \o Zeros(2) \o Quoted
                   \o Zeros(Len(Quoted) % 2))
ICMP6 ==
  Addresses \o Zeros(2) \o InNetworkOrder(8 + Len(Quoted)) \o Zeros(3) \o <<ICMPV6>>
    \o <<1, 4 % Base>> \o InHostOrder(ComputedICMP6) \o Zeros(4) \o Quoted

-----------------------------------------------------------------------------
(***************************************************************************)
(* Safety                                                                  *)
(***************************************************************************)

\* What a receiver asks, RFC 1071: the words add up to 0 of one's complement.
Verifies(bytes) == SumOfWords(NetworkWords(bytes)) % UINT16_MAX = 0

\* RejectManager.cc:163, "The kernel needs to have the icmp checksum computed":
\* whatever the addresses, numbers and ports are, and however many bytes an answer
\* quotes, also an odd number, the carries of the sum are all in the checksum.
ChecksumsVerify == Verifies(ResetTCP4) /\ Verifies(ICMP4) /\ Verifies(ICMP6)

-----------------------------------------------------------------------------

\* TCPHeader.cc:51, "Pseudo Header for IPv6/UDP/TCP checksum": the one of the
\* resets over IPv6 verifies, as it is sent, or if what is computed were sent.
TCP6Verifies == Verifies(ResetTCP6)
TCP6WouldVerify == Verifies(PseudoTCP6 \o Fields \o InHostOrder(ComputedTCP6))

=============================================================================
