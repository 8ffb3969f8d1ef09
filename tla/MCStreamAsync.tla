--------------------------- MODULE MCStreamAsync ---------------------------
(* Small instances of StreamAsync for TLC.                                 *)
EXTENDS StreamAsync

CONSTANTS s1, s2

TwoSessions == {s1, s2}
=============================================================================
