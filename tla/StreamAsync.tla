---------------------------- MODULE StreamAsync ----------------------------
(***************************************************************************)
(* The stream half of ngx_mruby in one nginx worker: the access-phase      *)
(* handler that runs a server's mruby_stream_code in a fiber, and          *)
(* Nginx::Stream::Async.sleep, which parks the fiber behind an nginx timer.*)
(*                                                                         *)
(* All sessions share one mrb_state.  Its user data ictx holds the current *)
(* session and its stream_status, and mrb->exc the pending exception; both *)
(* are rewritten each time another session runs, so a parked fiber finds   *)
(* its own values again only because sleep saves them and the timer        *)
(* handler puts them back.                                                 *)
(*                                                                         *)
(* The event loop is single-threaded: a step is everything between two     *)
(* returns to it.  A script is arbitrary Ruby: in a step it may assign     *)
(* stream_status, and then sleeps, returns or raises.                      *)
(***************************************************************************)
EXTENDS Naturals

CONSTANTS
    Sessions,     \* stream sessions accepted by the worker
    Scripted,     \* those whose server block has mruby_stream_code
    NoSession,    \* the NULL pointer
    Statuses,     \* the values scripts assign to stream_status
    Ends,         \* how scripts finish: "return", "raise"
    MaxSleeps     \* bound: sleeps of one script

ASSUME StreamAssumption ==
    /\ Scripted \subseteq Sessions
    /\ NoSession \notin Sessions
    /\ Statuses \subseteq
         {"OK", "ERROR", "AGAIN", "BUSY", "DONE", "DECLINED", "ABORT"}
    /\ "DECLINED" \in Statuses
    /\ Ends \subseteq {"return", "raise"}
    /\ MaxSleeps \in Nat

VARIABLES
    ictx,      \* mrb->ud : the session and stream_status of the running script
    exc,       \* mrb->exc is set
    phase,     \* phase[s] : init, access (handler returned DONE), passed, closed
    fiber_proc,\* fiber_proc[s] : the fiber last run for s (in its module context)
    re,        \* re[s] : the reentrant record its sleep event points to
    timers,    \* sessions whose sleep event is armed
    roots,     \* roots[f] : entries of the fiber of session f among the GC roots
    own,       \* history: own[s] is the status the script of s last assigned
    failed,    \* history: sessions whose script raised
    sleeps     \* history: sleeps of the script of s so far

vars == <<ictx, exc, phase, fiber_proc, re, timers, roots, own, failed, sleeps>>

-----------------------------------------------------------------------------
\* A fiber is named by the session whose handler created it.
Fiber == Sessions \cup {NoSession}
Reentrant == [s : Fiber, fiber : Fiber, stream_status : Statuses]

NoReentrant ==
    [s |-> NoSession, fiber |-> NoSession, stream_status |-> "DECLINED"]

\* stream_status= in a script: it assigns a, or leaves the status alone.
Assignment == Statuses \cup {"keep"}
Assigned(old, a) == IF a = "keep" THEN old ELSE a

\* The abstract gate this module implements: a session in the init or the
\* access phase is undecided, and its vote is what its own script assigned.
Verdict ==
    [s \in Sessions |->
       IF phase[s] \in {"init", "access"} THEN "undecided" ELSE phase[s]]
Gate == INSTANCE SessionGate WITH vote <- own, verdict <- Verdict

\* The phase the engine puts a session in for a return code (external).
EnginePhase(rc) == Gate!EnginePhase(rc)

Init ==
    /\ ictx = [s |-> NoSession, stream_status |-> "DECLINED"]
    /\ exc = FALSE
    /\ phase = [s \in Sessions |-> "init"]
    /\ fiber_proc = [s \in Sessions |-> NoSession]
    /\ re = [s \in Sessions |-> NoReentrant]
    /\ timers = {}
    /\ roots = [s \in Sessions |-> 0]
    /\ own = [s \in Sessions |-> "DECLINED"]
    /\ failed = {}
    /\ sleeps = [s \in Sessions |-> 0]
-----------------------------------------------------------------------------
(* Entering and leaving the interpreter.                                   *)

\* The handler claims ictx for its session.
Claimed(s) == [s |-> s, stream_status |-> "DECLINED"]

\* A timer handler restores ictx from the record that sleep left behind.
RestoredWithoutStatus(saved) == [s |-> saved.s, stream_status |-> ictx.stream_status]
Restored(saved) == [s |-> saved.s, stream_status |-> saved.stream_status]

\* run_fiber: the script of f runs under ictx i and assigns a.
Script(f, i, a) ==
    /\ ictx' = [i EXCEPT !.stream_status = Assigned(i.stream_status, a)]
    /\ fiber_proc' = [fiber_proc EXCEPT ![i.s] = f]
    /\ own' = [own EXCEPT ![f] = Assigned(own[f], a)]

\* What Async.sleep saves: the current session, its status and its fiber.
SavedWithOldFiber(i, st) ==
    [s |-> i.s, fiber |-> fiber_proc[i.s], stream_status |-> st]
Saved(i, st) ==
    [s |-> i.s, fiber |-> fiber_proc'[i.s], stream_status |-> st]

\* mrb_gc_register pushes an entry, mrb_gc_unregister removes one.
NeverRegistered(f) == roots
Registered(f) == [roots EXCEPT ![f] = @ + 1]
UnregisteredTwice(f) == [roots EXCEPT ![f] = @ - 2]
Unregistered(f) == [roots EXCEPT ![f] = @ - 1]

\* The script sleeps.  armed: the timers still set when it does so.
Sleeps(f, i, a, armed) ==
    /\ sleeps[f] < MaxSleeps
    /\ Script(f, i, a)
    /\ re' = [re EXCEPT ![i.s] = Saved(i, ictx'.stream_status)]
    /\ timers' = armed \cup {i.s}
    /\ roots' = Registered(fiber_proc'[i.s])
    /\ sleeps' = [sleeps EXCEPT ![f] = @ + 1]
    /\ UNCHANGED failed

-----------------------------------------------------------------------------
(* ngx_stream_mruby_handler, called by the phase engine.                   *)

\* No script on this server: decline before touching the interpreter.
HandlerSkips(s) ==
    /\ phase[s] = "init" /\ s \notin Scripted
    /\ phase' = [phase EXCEPT ![s] = EnginePhase("DECLINED")]
    /\ UNCHANGED <<ictx, exc, fiber_proc, re, timers, roots, own, failed, sleeps>>

\* An exception is still pending: the first C method the fiber preparation
\* calls raises it again, the script never runs, the session is aborted.
HandlerMeetsStaleExc(s) ==
    /\ phase[s] = "init" /\ s \in Scripted /\ exc
    /\ ictx' = Claimed(s)
    /\ exc' = FALSE
    /\ phase' = [phase EXCEPT ![s] = EnginePhase("ABORT")]
    /\ UNCHANGED <<fiber_proc, re, timers, roots, own, failed, sleeps>>

HandlerSleeps(s, a) ==
    /\ phase[s] = "init" /\ s \in Scripted /\ ~exc
    /\ Sleeps(s, Claimed(s), a, timers)
    /\ phase' = [phase EXCEPT ![s] = EnginePhase("DONE")]
    /\ UNCHANGED exc

HandlerReturns(s, a) ==
    /\ "return" \in Ends
    /\ phase[s] = "init" /\ s \in Scripted /\ ~exc
    /\ Script(s, Claimed(s), a)
    /\ phase' = [phase EXCEPT ![s] = EnginePhase(ictx'.stream_status)]
    /\ UNCHANGED <<exc, re, timers, roots, failed, sleeps>>

\* A raise is logged and cleared, the session is aborted.
HandlerRaises(s, a) ==
    /\ "raise" \in Ends
    /\ phase[s] = "init" /\ s \in Scripted /\ ~exc
    /\ Script(s, Claimed(s), a)
    /\ phase' = [phase EXCEPT ![s] = EnginePhase("ABORT")]
    /\ failed' = failed \cup {s}
    /\ UNCHANGED <<exc, re, timers, roots, sleeps>>

-----------------------------------------------------------------------------
(* ngx_stream_mrb_timer_handler: post_fiber resumes the saved fiber.  Its  *)
(* return code is dropped, so only DECLINED, which post_fiber itself       *)
(* passes on to the phase engine, moves the session.                       *)

TimerSleeps(s, a) ==
    /\ s \in timers /\ ~exc
    /\ Sleeps(re[s].fiber, Restored(re[s]), a, timers \ {s})
    /\ UNCHANGED <<exc, phase>>

\* The fiber ended: one root entry goes and the record forgets the fiber.
Ended(s) ==
    /\ re' = [re EXCEPT ![s].fiber = NoSession]
    /\ timers' = timers \ {s}
    /\ roots' = Unregistered(re[s].fiber)
    /\ UNCHANGED sleeps

PhaseAfterResumeAnyStatus(s, status) ==
    [phase EXCEPT ![re[s].s] = EnginePhase("DECLINED")]
PhaseAfterResumeOk(s, status) ==
    IF status = "OK"
    THEN [phase EXCEPT ![re[s].s] = EnginePhase("OK")]
    ELSE phase
PhaseAfterResume(s, status) ==
    IF status = "DECLINED"
    THEN [phase EXCEPT ![re[s].s] = EnginePhase("DECLINED")]
    ELSE phase

TimerReturns(s, a) ==
    /\ "return" \in Ends
    /\ s \in timers /\ ~exc
    /\ Script(re[s].fiber, Restored(re[s]), a)
    /\ Ended(s)
    /\ phase' = PhaseAfterResume(s, ictx'.stream_status)
    /\ UNCHANGED <<exc, failed>>

\* A raise is logged, but mrb->exc stays set.
TimerRaises(s, a) ==
    /\ "raise" \in Ends
    /\ s \in timers /\ ~exc
    /\ Script(re[s].fiber, Restored(re[s]), a)
    /\ Ended(s)
    /\ exc' = TRUE
    /\ failed' = failed \cup {re[s].fiber}
    /\ UNCHANGED phase

\* With an exception pending, the resumed fiber dies where it slept.
TimerMeetsStaleExc(s) ==
    /\ s \in timers /\ exc
    /\ ictx' = Restored(re[s])
    /\ fiber_proc' = [fiber_proc EXCEPT ![re[s].s] = re[s].fiber]
    /\ Ended(s)
    /\ UNCHANGED <<exc, phase, own, failed>>

Handler(s) ==
    \/ HandlerSkips(s)
    \/ HandlerMeetsStaleExc(s)
    \/ \E a \in Assignment :
          HandlerSleeps(s, a) \/ HandlerReturns(s, a) \/ HandlerRaises(s, a)

TimerHandler(s) ==
    \/ TimerMeetsStaleExc(s)
    \/ \E a \in Assignment :
          TimerSleeps(s, a) \/ TimerReturns(s, a) \/ TimerRaises(s, a)

Next == \E s \in Sessions : Handler(s) \/ TimerHandler(s)

\* The event loop serves every accepted session and every expired timer.
Fairness ==
    \A s \in Sessions : WF_vars(Handler(s)) /\ WF_vars(TimerHandler(s))

Spec == Init /\ [][Next]_vars
FairSpec == Spec /\ Fairness

-----------------------------------------------------------------------------
(* Properties.                                                             *)

TypeOK ==
    /\ ictx \in [s : Fiber, stream_status : Statuses]
    /\ exc \in BOOLEAN
    /\ phase \in [Sessions -> {"init", "access", "passed", "closed"}]
    /\ fiber_proc \in [Sessions -> Fiber]
    /\ re \in [Sessions -> Reentrant]
    /\ timers \subseteq Sessions
    /\ roots \in [Sessions -> Nat]
    /\ own \in [Sessions -> Statuses]
    /\ failed \subseteq Sessions
    /\ sleeps \in [Sessions -> Nat]

\* Access control: a session with a script reaches the upstream only when
\* that very script did not raise and last asked to let it through, however
\* its sleeps interleave with other sessions using the same ictx.
OnlyAllowedPass ==
    \A s \in Scripted :
        phase[s] = "passed" => s \notin failed /\ EnginePhase(own[s]) = "passed"

\* A pending timer resumes the fiber of its own session, with the status
\* that session's script left, and only while the engine waits for it: the
\* handler can neither run phases twice nor meet a missing fiber.
TimerResumesOwner ==
    \A s \in timers :
        /\ phase[s] = "access"
        /\ re[s] = [s |-> s, fiber |-> s, stream_status |-> own[s]]

\* A fiber that a timer will resume is a GC root all along, although every
\* sleep registers it and only the end of the script unregisters it.
SleepingFiberRooted ==
    \A s \in timers : roots[re[s].fiber] >= 1

\* A session the handler has not seen has no history; a script that raised
\* has no timer left that could still let its session through.
HistoryConsistent ==
    /\ \A s \in Sessions :
         phase[s] = "init" => own[s] = "DECLINED" /\ s \notin failed
    /\ timers \cap failed = {}

\* The inductive invariant behind the properties above.
SafetyInv ==
    /\ TypeOK
    /\ TimerResumesOwner
    /\ SleepingFiberRooted
    /\ HistoryConsistent
    /\ OnlyAllowedPass

\* Shared interpreter or not, each session behaves as a gate of its own.
ImplementsGate == Gate!GateSpec

\* Unless an exception is left pending, a session whose script settles for
\* NGX_DECLINED and does not raise is passed on, no matter how often it and
\* the others sleep.
EverySessionProceeds ==
    []~exc => \A s \in Sessions :
        <>[](own[s] = "DECLINED" /\ s \notin failed) => <>(phase[s] = "passed")

\* "default NGX_DECLINED": a session is refused only by its own script,
\* which raised or asked for it.
RefusedByOwnScript ==
    \A s \in Sessions : phase[s] = "closed" =>
        s \in failed \/ EnginePhase(own[s]) = "closed"
=============================================================================
