---------------------------- MODULE SessionGate ----------------------------
(***************************************************************************)
(* What mruby_stream_code promises, with no interpreter in sight: every    *)
(* stream session is a gate of its own.  Its script votes with a           *)
(* stream_status, as often as it likes, and only its own last vote (or a   *)
(* failure, which always refuses) decides whether the session goes on to   *)
(* the upstream.  A decision is final.                                     *)
(***************************************************************************)
CONSTANTS Sessions,   \* the stream sessions of one worker
          Statuses    \* the values a script gives to stream_status

VARIABLES verdict,    \* verdict[s] : undecided, passed or closed
          vote        \* vote[s]    : what the script of s last asked for

gateVars == <<verdict, vote>>

\* What the stream phase engine of nginx does with a handler's return code
\* (external: ngx_stream_core_generic_phase).
EnginePhase(rc) ==
    IF rc \in {"OK", "DECLINED"} THEN "passed"
    ELSE IF rc \in {"AGAIN", "DONE"} THEN "access"
    ELSE "closed"

GateInit ==
    /\ verdict = [s \in Sessions |-> "undecided"]
    /\ vote = [s \in Sessions |-> "DECLINED"]

\* A piece of the script of s runs and s stays undecided.
Consider(s, v) ==
    /\ verdict[s] = "undecided"
    /\ vote' = [vote EXCEPT ![s] = v]
    /\ UNCHANGED verdict

\* The script of s ends: its own vote decides.
Decide(s, v) ==
    /\ verdict[s] = "undecided"
    /\ EnginePhase(v) # "access"
    /\ vote' = [vote EXCEPT ![s] = v]
    /\ verdict' = [verdict EXCEPT ![s] = EnginePhase(v)]

\* The script of s fails: the session is refused, whatever it voted.
Refuse(s, v) ==
    /\ verdict[s] = "undecided"
    /\ vote' = [vote EXCEPT ![s] = v]
    /\ verdict' = [verdict EXCEPT ![s] = "closed"]

GateNext ==
    \E s \in Sessions, v \in Statuses :
        Consider(s, v) \/ Decide(s, v) \/ Refuse(s, v)

GateSpec == GateInit /\ [][GateNext]_gateVars
=============================================================================
