------------------------------- MODULE Checksum -------------------------------
(***************************************************************************)
(* The incremental checksum helpers of                                     *)
(* src/include/nf_nat64_auxiliary_functions.h (checksum_adjust and the     *)
(* functions built on it), applied to a packet whose addresses are         *)
(* rewritten by the translator. The 16-bit words of the code are W-bit     *)
(* words here and its uint32_t intermediate is 2W bits wide, so every      *)
(* carry, borrow and wrap-around the code meets occurs at this width too.  *)
(* The reference is RFC 1071: the checksum field is such that the          *)
(* one's-complement sum of the covered words and the field is all ones.    *)
(***************************************************************************)
EXTENDS Integers, Sequences, SequencesExt

CONSTANTS
    W,             \* word width (16 in the code)
    A6, A4,        \* words of the IPv6 and IPv4 address pair (16 and 4)
    P,             \* other covered words (ports, length)
    ZeroUdp4       \* whether an IPv4 UDP packet may arrive without checksum

ASSUME W \in 2..8 /\ A6 \in Nat \ {0} /\ A4 \in Nat \ {0} /\ P \in Nat /\ ZeroUdp4 \in BOOLEAN

Mask == 2^W - 1                 \* 0xffff
Word == 0..Mask
U32(x) == x % (2^(2 * W))       \* conversion to uint32_t
U16(x) == x % (2^W)             \* conversion to uint16_t

VARIABLES
    fam,   \* 6 or 4: the header the packet currently has
    udp,   \* the udp flag passed to the helpers
    hdr,   \* the covered words: the address pair, then the other words
    sum    \* the checksum field

vars == <<fam, udp, hdr, sum>>

AddrLen(f) == IF f = 6 THEN A6 ELSE A4

\* Every variable holds a value of its type.
TypeOK ==
    /\ fam \in {4, 6} /\ udp \in BOOLEAN
    /\ hdr \in Seq(Word) /\ Len(hdr) = AddrLen(fam) + P
    /\ sum \in Word

-----------------------------------------------------------------------------
(* The reference: one's-complement arithmetic with end-around carry *)

OnesAdd(a, b) == IF a + b > Mask THEN a + b - Mask ELSE a + b

RECURSIVE OnesSum(_)
OnesSum(ws) == IF ws = <<>> THEN 0 ELSE OnesAdd(Head(ws), OnesSum(Tail(ws)))

\* The field a sender computes; UDP transmits a computed 0 as all ones.
SenderSum(ws, u) == LET c == Mask - OnesSum(ws) IN IF u /\ c = 0 THEN Mask ELSE c

\* What a receiver checks
Verifies(ws, s) == OnesAdd(OnesSum(ws), s) = Mask

-----------------------------------------------------------------------------
(* The code *)

\* Fault variant: no fold of the carry into the low word.
ChecksumAdjustNoFold(s0, old, new, u) ==
    IF u /\ s0 = 0 THEN s0
    ELSE LET r == U16(U32(s0 + old - new))
         IN  IF u /\ r = 0 THEN Mask ELSE r

\* Fault variant: the fold is stored without the uint16_t truncation.
ChecksumAdjustWide(s0, old, new, u) ==
    IF u /\ s0 = 0 THEN s0
    ELSE LET s == U32(s0 + old - new)
             r == (s % 2^W) + (s \div 2^W)
         IN  IF u /\ r = 0 THEN Mask ELSE r

\* checksum_adjust: s = *sum + old - new in uint32_t, one fold of the high
\* half into the low half, stored as uint16_t; a UDP sum of 0 means "no
\* checksum" and is left alone, and a UDP result of 0 is sent as 0xffff.
ChecksumAdjust(s0, old, new, u) ==
    IF u /\ s0 = 0 THEN s0
    ELSE LET s == U32(s0 + old - new)
             r == U16((s % 2^W) + (s \div 2^W))
         IN  IF u /\ r = 0 THEN Mask ELSE r

\* checksum_remove and checksum_add: one adjust per word, first to last
ChecksumRemove(s0, ws, u) == FoldLeft(LAMBDA acc, w : ChecksumAdjust(acc, w, 0, u), s0, ws)
ChecksumAdd(s0, ws, u) == FoldLeft(LAMBDA acc, w : ChecksumAdjust(acc, 0, w, u), s0, ws)

\* adjust_checksum_ipv6_to_ipv4 / adjust_checksum_ipv4_to_ipv6: the source
\* and destination addresses of one header removed, the other's added
AdjustChecksum(s0, from, to, u) == ChecksumAdd(ChecksumRemove(s0, from, u), to, u)

Addrs(h) == SubSeq(h, 1, AddrLen(fam))
Rest(h) == SubSeq(h, AddrLen(fam) + 1, Len(h))

-----------------------------------------------------------------------------

\* A packet as received: any covered words, a field its sender computed, or
\* for IPv4 UDP possibly 0 (no checksum).
Init ==
    /\ fam \in {4, 6}
    /\ udp \in BOOLEAN
    /\ hdr \in [1..(AddrLen(fam) + P) -> Word]
    /\ \/ sum = SenderSum(hdr, udp)
       \/ ZeroUdp4 /\ fam = 4 /\ udp /\ sum = 0

\* checksum_change on one of the other words (a port rewritten)
ChecksumChange(i, v) ==
    /\ i \in AddrLen(fam) + 1..Len(hdr)
    /\ hdr[i] # v
    /\ sum' = ChecksumAdjust(sum, hdr[i], v, udp)
    /\ hdr' = [hdr EXCEPT ![i] = v]
    /\ UNCHANGED <<fam, udp>>

\* The header translated to the other family, the checksum adjusted for the
\* address pair: adjust_checksum_ipv6_to_ipv4 or adjust_checksum_ipv4_to_ipv6
Translate(a) ==
    /\ Len(a) = AddrLen(10 - fam)
    /\ fam' = 10 - fam
    /\ sum' = AdjustChecksum(sum, Addrs(hdr), a, udp)
    /\ hdr' = a \o Rest(hdr)
    /\ UNCHANGED udp

Next ==
    \/ \E i \in 1..Len(hdr), v \in Word : ChecksumChange(i, v)
    \/ \E a \in [1..AddrLen(10 - fam) -> Word] : Translate(a)

Spec == Init /\ [][Next]_vars

-----------------------------------------------------------------------------
(* Properties *)

\* After any sequence of port rewrites and family translations the field
\* still verifies over the words it covers (RFC 1071), and a UDP field is
\* 0 only where that means "no checksum", i.e. in an IPv4 header.
ChecksumValid ==
    IF udp /\ sum = 0 THEN fam = 4 ELSE Verifies(hdr, sum)
=============================================================================
