-------------------------- MODULE MCStreamUpstream --------------------------
(* Small instances of StreamUpstream for TLC.                              *)
EXTENDS StreamUpstream

CONSTANTS s1, s2, s3

ThreeSessions == {s1, s2, s3}
TwoSessions == {s1, s2}
=============================================================================
