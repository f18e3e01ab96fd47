----------------------------- MODULE MCHexHost -----------------------------
(***************************************************************************)
(* HexHost over every share name of up to three bytes drawn from bytes    *)
(* that matter to the encoding: NUL, "-", ":", "A", "[" and 0xFF.          *)
(***************************************************************************)
EXTENDS HexHost

MCBytes == {0, 45, 58, 65, 91, 255}
MCNames == UNION {[1..k -> MCBytes] : k \in 0..3}
=============================================================================
