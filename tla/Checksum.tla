------------------------------ MODULE Checksum ------------------------------
(***************************************************************************)
(* The checksum of utils.c, which icmp_send puts into its requests.  The   *)
(* words are read in the byte order of the machine, low byte first, while  *)
(* the receiver reads them in network order.  A packet is a sequence of    *)
(* bytes of ByteBits bits; an int has four bytes, as in the code.          *)
(***************************************************************************)
EXTENDS Integers, SequencesExt

CONSTANTS
  ByteBits,
  MaxPacket  \* bytes of a packet behind its checksum

ASSUME ChecksumAssumption == ByteBits \in Nat \ {0} /\ MaxPacket \in Nat

VARIABLE packet

Byte == 2^ByteBits
Word == Byte * Byte
IntLim == (Word * Word) \div 2
Int32(n) == ((n + IntLim) % (2 * IntLim)) - IntLim

\* What the proofs need to know of a power of two, and that the words of a packet, which has
\* 8 bytes in the code, do not fill an int.
ASSUME BytesFit ==
  Byte \in Nat /\ Byte > 1 /\ (MaxPacket \div 2 + 2) * (Word - 1) < IntLim

WordAt(buf, i) == buf[2 * i - 1] + Byte * buf[2 * i]

\* Mutated: the carry of the first addition of the halves is lost.
Folded_Once(sum) == (sum \div Word) + (sum % Word)

\* The carries come back in at the low end.
Folded(sum) ==
  LET once == (sum \div Word) + (sum % Word)
  IN  once + once \div Word

\* The words, and the last byte when their number is odd
SumOf(buf) ==
  LET words == Len(buf) \div 2
      sum[i \in 0..words] == IF i = 0 THEN 0 ELSE Int32(sum[i - 1] + WordAt(buf, i))
      last == IF Len(buf) % 2 = 1 THEN Last(buf) ELSE 0
  IN  Int32(sum[words] + last)

checksum(buf) == Word - 1 - (Folded(SumOf(buf)) % Word)

\* icmp_send: a field of two zero bytes, then the sum over the header in it
WithChecksum(buf) ==
  LET sum == checksum(<<0, 0>> \o buf)
  IN  <<sum % Byte, sum \div Byte>> \o buf

\* The next byte of the header or the payload that icmp_send fills in
Fill == Len(packet) < MaxPacket /\ \E b \in 0..Byte - 1 : packet' = Append(packet, b)

-----------------------------------------------------------------------------
\* The sum of the words as the receiver sees them, high byte first, modulo what
\* carries around
NetworkWordAt(buf, i) == Byte * buf[2 * i - 1] + buf[2 * i]
NetworkSum(buf) ==
  LET words == Len(buf) \div 2
      sum[i \in 0..words] == IF i = 0 THEN 0 ELSE sum[i - 1] + NetworkWordAt(buf, i)
  IN  sum[words]

\* An odd byte is followed by a zero.
Padded(buf) == IF Len(buf) % 2 = 1 THEN Append(buf, 0) ELSE buf

\* What was sent is accepted: in network order too, all words with the checksum add
\* up to nothing but ones, so that the request of icmp_send is no bad packet.
ReceiverAccepts ==
  LET sum == NetworkSum(Padded(WithChecksum(packet)))
  IN  sum % (Word - 1) = 0 /\ sum # 0
=============================================================================
