----------------------------- MODULE MCPsiFramer -----------------------------
(***************************************************************************)
(* Instances of PsiFramer for TLC, with sections of any bytes.  Bytes are  *)
(* small numbers: the third byte of a header is its section_length, the    *)
(* second is 0 when section_syntax_indicator does not suit the framer, and *)
(* the largest byte is the stuffing byte.                                  *)
(***************************************************************************)
EXTENDS PsiFramer

CONSTANTS MaxByte, MaxPayload

Bytes == 0 .. MaxByte
LastByte == MaxByte
ThirdByte(h) == h[3]
SecondByteSet(h) == h[2] # 0

ShortPayloads == UNION {[1 .. n -> Bytes] : n \in 1 .. MaxPayload}
=============================================================================
