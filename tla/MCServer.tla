------------------------------ MODULE MCServer ------------------------------
(* Instances of Server for TLC. *)
EXTENDS Server

CONSTANTS r1, r2

\* every string of up to four characters, commas among them
ShortLists == UNION {[1 .. m -> {Comma, "a", "b"}] : m \in 0 .. 4}
OneAddress == {<<"a">>}
=============================================================================
