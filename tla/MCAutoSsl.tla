----------------------------- MODULE MCAutoSsl -----------------------------
(* An instance of AutoSsl for TLC: two workers, one domain that deploys    *)
(* its certificate and one of every other style.                           *)
EXTENDS AutoSsl, TLC

CONSTANTS w1, w2

WorkerSymmetry == Permutations({w1, w2})

MCDomains == {"acme", "paths", "half", "denied"}
MCStyle == [d \in MCDomains |-> d]
=============================================================================
