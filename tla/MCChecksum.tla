------------------------------ MODULE MCChecksum ------------------------------
(* Model-checking instance of Checksum: 4-bit words, an address pair of two *)
(* words for IPv6 and one for IPv4, one other word.                         *)
EXTENDS Checksum
=============================================================================
