---------------------------- MODULE StreamProofs ----------------------------
(***************************************************************************)
(* Proofs about StreamAsync for any number of sessions and of sleeps, and  *)
(* about StreamUpstream for any number of servers as well: what is proved  *)
(* of StreamAsync holds when scripts move the upstream, and a session is   *)
(* proxied to the server assigned last.                                    *)
(***************************************************************************)
EXTENDS StreamUpstream, TLAPS

USE StreamAssumption DEF StreamAssumption

\* A script leaves a status of its own choice or the one it found.
LEMMA AssignedType ==
    ASSUME NEW old \in Statuses, NEW a \in Assignment
    PROVE  Assigned(old, a) \in Statuses
BY DEF Assigned, Assignment

\* The engine leaves a session in one of its three phases.
LEMMA EnginePhaseType ==
    ASSUME NEW rc
    PROVE  EnginePhase(rc) \in {"access", "passed", "closed"}
BY DEF EnginePhase, Gate!EnginePhase

\* The invariant holds before the first session: no timer, no script run.
LEMMA InitSafety == Init => SafetyInv
<1> SUFFICES ASSUME Init PROVE SafetyInv
  OBVIOUS
<1> USE DEF Init
<1>1. TypeOK
  BY DEF TypeOK, Fiber, Reentrant, NoReentrant
<1>2. TimerResumesOwner /\ SleepingFiberRooted
  BY DEF TimerResumesOwner, SleepingFiberRooted
<1>3. HistoryConsistent /\ OnlyAllowedPass
  BY DEF HistoryConsistent, OnlyAllowedPass
<1> QED
  BY <1>1, <1>2, <1>3 DEF SafetyInv

\* What the expiry of a timer hands to post_fiber: the session's own record.
LEMMA ExpiredRecord ==
    ASSUME SafetyInv, NEW s \in timers
    PROVE  /\ s \in Sessions
           /\ phase[s] = "access"
           /\ re[s].s = s /\ re[s].fiber = s
           /\ Restored(re[s]) = [s |-> s, stream_status |-> own[s]]
           /\ own[s] \in Statuses
           /\ roots[s] \in Nat /\ roots[s] >= 1
           /\ s \notin failed
<1>1. s \in Sessions
  BY DEF SafetyInv, TypeOK
<1>2. phase[s] = "access" /\ re[s] = [s |-> s, fiber |-> s, stream_status |-> own[s]]
  BY DEF SafetyInv, TimerResumesOwner
<1>3. roots[s] \in Nat /\ roots[s] >= 1
  BY <1>1, <1>2 DEF SafetyInv, SleepingFiberRooted, TypeOK
<1>4. own[s] \in Statuses /\ s \notin failed
  BY <1>1 DEF SafetyInv, TypeOK, HistoryConsistent
<1>5. Restored(re[s]) = [s |-> s, stream_status |-> own[s]]
  BY <1>2 DEF Restored
<1> QED
  BY <1>1, <1>2, <1>3, <1>4, <1>5

\* The script of a fresh session, run by the handler that claimed ictx for
\* it: its vote and the shared status agree, other sessions are untouched.
LEMMA ClaimedScript ==
    ASSUME SafetyInv, NEW s \in Sessions, phase[s] = "init",
           NEW a \in Assignment, Script(s, Claimed(s), a)
    PROVE  /\ ictx' \in [s : Fiber, stream_status : Statuses]
           /\ fiber_proc' \in [Sessions -> Fiber]
           /\ fiber_proc'[s] = s
           /\ own' \in [Sessions -> Statuses]
           /\ own'[s] = ictx'.stream_status
           /\ \A t \in Sessions \ {s} : own'[t] = own[t]
           /\ s \notin timers /\ s \notin failed
<1>1. own[s] = "DECLINED" /\ s \notin timers /\ s \notin failed
  BY DEF SafetyInv, HistoryConsistent, TimerResumesOwner
<1>2. /\ ictx' = [s |-> s, stream_status |-> Assigned("DECLINED", a)]
      /\ fiber_proc' = [fiber_proc EXCEPT ![s] = s]
      /\ own' = [own EXCEPT ![s] = Assigned(own[s], a)]
  BY DEF Script, Claimed
<1>3. fiber_proc \in [Sessions -> Fiber] /\ own \in [Sessions -> Statuses]
  BY DEF SafetyInv, TypeOK
<1>4. Assigned("DECLINED", a) \in Statuses
  BY AssignedType
<1> QED
  BY <1>1, <1>2, <1>3, <1>4 DEF Fiber

\* A handler that leaves the sleeping sessions alone keeps the invariant, if
\* it passes its session on only when the script asked for it.
LEMMA HandlerEnds ==
    ASSUME SafetyInv, NEW s \in Sessions, phase[s] = "init",
           ictx' \in [s : Fiber, stream_status : Statuses],
           exc' \in BOOLEAN,
           fiber_proc' \in [Sessions -> Fiber],
           own' \in [Sessions -> Statuses],
           \A t \in Sessions \ {s} : own'[t] = own[t],
           failed' \subseteq failed \cup {s},
           NEW ph \in {"access", "passed", "closed"},
           phase' = [phase EXCEPT ![s] = ph],
           s \in Scripted /\ ph = "passed" =>
              EnginePhase(own'[s]) = "passed" /\ s \notin failed',
           UNCHANGED <<re, timers, roots, sleeps>>
    PROVE  SafetyInv'
<1>1. s \notin timers
  BY DEF SafetyInv, TimerResumesOwner
<1>2. TypeOK'
  BY DEF SafetyInv, TypeOK
<1>3. TimerResumesOwner'
  BY <1>1 DEF SafetyInv, TypeOK, TimerResumesOwner
<1>4. SleepingFiberRooted'
  BY DEF SafetyInv, SleepingFiberRooted
<1>5. HistoryConsistent'
  BY <1>1 DEF SafetyInv, TypeOK, HistoryConsistent
<1>6. OnlyAllowedPass'
  BY DEF SafetyInv, TypeOK, OnlyAllowedPass
<1> QED
  BY <1>2, <1>3, <1>4, <1>5, <1>6 DEF SafetyInv

\* A script that sleeps in session s, which waits for it, leaves a record
\* that a timer can resume, and keeps the invariant.
LEMMA SleepSafety ==
    ASSUME SafetyInv, NEW s \in Sessions,
           ictx' \in [s : Fiber, stream_status : Statuses],
           exc' \in BOOLEAN,
           fiber_proc' \in [Sessions -> Fiber],
           own' \in [Sessions -> Statuses],
           \A t \in Sessions \ {s} : own'[t] = own[t],
           s \notin failed, failed' = failed,
           phase' = [phase EXCEPT ![s] = "access"],
           re' = [re EXCEPT ![s] = [s |-> s, fiber |-> s, stream_status |-> own'[s]]],
           timers' = timers \cup {s},
           roots' = [roots EXCEPT ![s] = @ + 1],
           sleeps' = [sleeps EXCEPT ![s] = @ + 1]
    PROVE  SafetyInv'
<1>1. /\ re \in [Sessions -> Reentrant] /\ timers \subseteq Sessions
      /\ roots \in [Sessions -> Nat] /\ sleeps \in [Sessions -> Nat]
      /\ phase \in [Sessions -> {"init", "access", "passed", "closed"}]
  BY DEF SafetyInv, TypeOK
<1>2. re' \in [Sessions -> Reentrant]
  BY <1>1 DEF Reentrant, Fiber
<1>3. TypeOK'
  BY <1>1, <1>2 DEF SafetyInv, TypeOK
<1>4. TimerResumesOwner'
  BY <1>1 DEF SafetyInv, TimerResumesOwner
<1>5. SleepingFiberRooted'
  <2> SUFFICES ASSUME NEW t \in timers' PROVE roots'[re'[t].fiber] >= 1
    BY DEF SleepingFiberRooted
  <2>0. re'[t] = [s |-> t, fiber |-> t, stream_status |-> own'[t]]
    BY <1>4 DEF TimerResumesOwner
  <2>1. t \in Sessions /\ re'[t].fiber = t
    BY <1>1, <2>0
  <2>2. CASE t = s
    <3>1. roots[s] \in Nat /\ roots'[s] = roots[s] + 1
      BY <1>1
    <3> QED
      BY <2>1, <2>2, <3>1
  <2>3. CASE t # s
    <3>1. t \in timers
      BY <2>3
    <3>2. roots[t] >= 1
      BY <3>1, ExpiredRecord
    <3> QED
      BY <1>1, <2>1, <2>3, <3>2
  <2> QED
    BY <2>2, <2>3
<1>6. HistoryConsistent'
  BY <1>1 DEF SafetyInv, HistoryConsistent
<1>7. OnlyAllowedPass'
  BY <1>1 DEF SafetyInv, OnlyAllowedPass
<1> QED
  BY <1>3, <1>4, <1>5, <1>6, <1>7 DEF SafetyInv

\* ngx_stream_mruby_handler keeps the invariant.
LEMMA HandlerSafety ==
    ASSUME SafetyInv, NEW s \in Sessions, Handler(s)
    PROVE  SafetyInv'
<1>i. phase[s] = "init"
  BY DEF Handler, HandlerSkips, HandlerMeetsStaleExc, HandlerSleeps,
         HandlerReturns, HandlerRaises
<1>t. TypeOK
  BY DEF SafetyInv
<1>1. CASE HandlerSkips(s)
  <2>1. EnginePhase("DECLINED") \in {"access", "passed", "closed"}
    BY EnginePhaseType
  <2>2. /\ phase' = [phase EXCEPT ![s] = EnginePhase("DECLINED")]
        /\ s \notin Scripted
        /\ UNCHANGED <<ictx, exc, fiber_proc, re, timers, roots, own, failed, sleeps>>
    BY <1>1 DEF HandlerSkips
  <2> QED
    BY <1>i, <1>t, <2>1, <2>2, HandlerEnds DEF TypeOK
<1>2. CASE HandlerMeetsStaleExc(s)
  <2>1. EnginePhase("ABORT") = "closed"
    BY DEF EnginePhase, Gate!EnginePhase
  <2>2. /\ phase' = [phase EXCEPT ![s] = "closed"]
        /\ exc' = FALSE /\ ictx' = Claimed(s)
        /\ UNCHANGED <<fiber_proc, re, timers, roots, own, failed, sleeps>>
    BY <1>2, <2>1 DEF HandlerMeetsStaleExc
  <2>3. ictx' \in [s : Fiber, stream_status : Statuses]
    BY <2>2 DEF Claimed, Fiber
  <2> QED
    BY <1>i, <1>t, <2>2, <2>3, HandlerEnds DEF TypeOK
<1>3. ASSUME NEW a \in Assignment, HandlerSleeps(s, a)
      PROVE  SafetyInv'
  <2>1. Script(s, Claimed(s), a) /\ Claimed(s).s = s
    BY <1>3 DEF HandlerSleeps, Sleeps, Claimed
  <2>2. /\ ictx' \in [s : Fiber, stream_status : Statuses]
        /\ fiber_proc' \in [Sessions -> Fiber]
        /\ fiber_proc'[s] = s
        /\ own' \in [Sessions -> Statuses]
        /\ own'[s] = ictx'.stream_status
        /\ \A t \in Sessions \ {s} : own'[t] = own[t]
        /\ s \notin failed
    BY <1>i, <2>1, ClaimedScript
  <2>3. EnginePhase("DONE") = "access"
    BY DEF EnginePhase, Gate!EnginePhase
  <2>4. /\ phase' = [phase EXCEPT ![s] = "access"]
        /\ exc' = exc /\ failed' = failed
        /\ re' = [re EXCEPT ![s] = [s |-> s, fiber |-> s, stream_status |-> own'[s]]]
        /\ timers' = timers \cup {s}
        /\ roots' = [roots EXCEPT ![s] = @ + 1]
        /\ sleeps' = [sleeps EXCEPT ![s] = @ + 1]
    BY <1>3, <2>1, <2>2, <2>3 DEF HandlerSleeps, Sleeps, Saved, Registered
  <2> QED
    BY <1>t, <2>2, <2>4, SleepSafety DEF TypeOK
<1>4. ASSUME NEW a \in Assignment, HandlerReturns(s, a)
      PROVE  SafetyInv'
  <2> DEFINE ph == EnginePhase(ictx'.stream_status)
  <2>1. /\ Script(s, Claimed(s), a)
        /\ phase' = [phase EXCEPT ![s] = ph]
        /\ UNCHANGED <<exc, re, timers, roots, failed, sleeps>>
    BY <1>4 DEF HandlerReturns
  <2>2. /\ ictx' \in [s : Fiber, stream_status : Statuses]
        /\ fiber_proc' \in [Sessions -> Fiber]
        /\ own' \in [Sessions -> Statuses]
        /\ own'[s] = ictx'.stream_status
        /\ \A t \in Sessions \ {s} : own'[t] = own[t]
        /\ s \notin failed
    BY <1>i, <2>1, ClaimedScript
  <2>3. ph \in {"access", "passed", "closed"}
    BY EnginePhaseType
  <2>4. ph = "passed" => EnginePhase(own'[s]) = "passed" /\ s \notin failed'
    BY <2>1, <2>2
  <2> HIDE DEF ph
  <2> QED
    BY <1>i, <1>t, <2>1, <2>2, <2>3, <2>4, HandlerEnds DEF TypeOK
<1>5. ASSUME NEW a \in Assignment, HandlerRaises(s, a)
      PROVE  SafetyInv'
  <2>1. EnginePhase("ABORT") = "closed"
    BY DEF EnginePhase, Gate!EnginePhase
  <2>2. /\ Script(s, Claimed(s), a)
        /\ phase' = [phase EXCEPT ![s] = "closed"]
        /\ failed' = failed \cup {s}
        /\ UNCHANGED <<exc, re, timers, roots, sleeps>>
    BY <1>5, <2>1 DEF HandlerRaises
  <2>3. /\ ictx' \in [s : Fiber, stream_status : Statuses]
        /\ fiber_proc' \in [Sessions -> Fiber]
        /\ own' \in [Sessions -> Statuses]
        /\ \A t \in Sessions \ {s} : own'[t] = own[t]
    BY <1>i, <2>2, ClaimedScript
  <2> QED
    BY <1>i, <1>t, <2>2, <2>3, HandlerEnds DEF TypeOK
<1> QED
  BY <1>1, <1>2, <1>3, <1>4, <1>5 DEF Handler

\* The end of a fiber in post_fiber: the record stays well typed, one root
\* entry, which was there, is removed, and other timers keep their fibers.
LEMMA EndedRecord ==
    ASSUME SafetyInv, NEW s \in timers, Ended(s)
    PROVE  /\ re' \in [Sessions -> Reentrant]
           /\ roots' \in [Sessions -> Nat]
           /\ timers' \subseteq timers
           /\ sleeps' = sleeps
           /\ s \notin timers'
           /\ \A t \in timers' : re'[t] = re[t]
           /\ SleepingFiberRooted'
<1>1. /\ s \in Sessions /\ re[s].fiber = s
      /\ roots[s] \in Nat /\ roots[s] >= 1
  BY ExpiredRecord
<1>2. /\ re \in [Sessions -> Reentrant]
      /\ roots \in [Sessions -> Nat]
      /\ timers \subseteq Sessions
  BY DEF SafetyInv, TypeOK
<1>3. re' \in [Sessions -> Reentrant]
  <2>1. re[s] \in Reentrant
    BY <1>1, <1>2
  <2>2. [re[s] EXCEPT !.fiber = NoSession] \in Reentrant
    BY <2>1 DEF Reentrant, Fiber
  <2>3. re' = [re EXCEPT ![s] = [re[s] EXCEPT !.fiber = NoSession]]
    BY <1>1, <1>2 DEF Ended
  <2> QED
    BY <1>1, <1>2, <2>2, <2>3
<1>4. roots' = [roots EXCEPT ![s] = roots[s] - 1]
  BY <1>1, <1>2 DEF Ended, Unregistered
<1>5. timers' = timers \ {s} /\ sleeps' = sleeps
  BY DEF Ended
<1>6. ASSUME NEW t \in timers'
      PROVE  re'[t] = re[t] /\ roots'[re'[t].fiber] >= 1
  <2>1. t \in timers /\ t # s /\ t \in Sessions
    BY <1>2, <1>5
  <2>2. re'[t] = re[t]
    BY <1>2, <2>1 DEF Ended
  <2>3. re[t].fiber = t /\ roots[t] >= 1
    BY <2>1, ExpiredRecord
  <2> QED
    BY <1>2, <1>4, <2>1, <2>2, <2>3
<1>7. SleepingFiberRooted'
  BY <1>6 DEF SleepingFiberRooted
<1>8. \A t \in timers' : re'[t] = re[t]
  BY <1>6
<1>9. roots' \in [Sessions -> Nat]
  BY <1>1, <1>2, <1>4
<1> QED
  BY <1>3, <1>5, <1>7, <1>8, <1>9

\* ngx_stream_mrb_timer_handler keeps the invariant.
LEMMA TimerSafety ==
    ASSUME SafetyInv, NEW s \in Sessions, TimerHandler(s)
    PROVE  SafetyInv'
<1> s \in timers
  BY DEF TimerHandler, TimerMeetsStaleExc, TimerSleeps, TimerReturns, TimerRaises
<1>r. /\ phase[s] = "access"
      /\ re[s].s = s /\ re[s].fiber = s
      /\ Restored(re[s]) = [s |-> s, stream_status |-> own[s]]
      /\ own[s] \in Statuses
      /\ roots[s] \in Nat /\ roots[s] >= 1
      /\ s \notin failed
  BY ExpiredRecord
<1>1. ASSUME NEW a \in Assignment, TimerSleeps(s, a)
      PROVE  SafetyInv'
  <2> DEFINE i == [s |-> s, stream_status |-> own[s]]
  <2>1. Sleeps(s, i, a, timers \ {s}) /\ UNCHANGED <<exc, phase>>
    BY <1>1, <1>r DEF TimerSleeps
  <2>2. Script(s, i, a)
    BY <2>1 DEF Sleeps
  <2>3. /\ ictx' \in [s : Fiber, stream_status : Statuses]
        /\ fiber_proc' \in [Sessions -> Fiber]
        /\ fiber_proc'[s] = s
        /\ own' \in [Sessions -> Statuses]
        /\ own'[s] = ictx'.stream_status
        /\ \A t \in Sessions \ {s} : own'[t] = own[t]
    BY <2>2, <1>r, AssignedType DEF Script, SafetyInv, TypeOK, Fiber
  <2>4. phase' = [phase EXCEPT ![s] = "access"]
    BY <2>1, <1>r DEF SafetyInv, TypeOK
  <2>5. /\ failed' = failed
        /\ re' = [re EXCEPT ![s] = [s |-> s, fiber |-> s, stream_status |-> own'[s]]]
        /\ timers' = timers \cup {s}
        /\ roots' = [roots EXCEPT ![s] = @ + 1]
        /\ sleeps' = [sleeps EXCEPT ![s] = @ + 1]
    BY <2>1, <2>3 DEF Sleeps, Saved, Registered
  <2>6. exc' \in BOOLEAN
    BY <2>1 DEF SafetyInv, TypeOK
  <2> HIDE DEF i
  <2> QED
    BY <1>r, <2>3, <2>4, <2>5, <2>6, SleepSafety
<1>2. ASSUME Ended(s),
             ictx' \in [s : Fiber, stream_status : Statuses],
             exc' \in BOOLEAN,
             fiber_proc' \in [Sessions -> Fiber],
             own' \in [Sessions -> Statuses],
             \A t \in Sessions \ {s} : own'[t] = own[t],
             failed' \subseteq failed \cup {s},
             \/ phase' = phase
             \/ /\ phase' = [phase EXCEPT ![s] = "passed"]
                /\ EnginePhase(own'[s]) = "passed"
                /\ failed' = failed
      PROVE  SafetyInv'
  <2>1. /\ re' \in [Sessions -> Reentrant]
        /\ roots' \in [Sessions -> Nat]
        /\ timers' \subseteq timers
        /\ sleeps' = sleeps
        /\ s \notin timers'
        /\ \A t \in timers' : re'[t] = re[t]
        /\ SleepingFiberRooted'
    BY <1>2, EndedRecord
  <2>2. TypeOK'
    BY <1>2, <2>1 DEF SafetyInv, TypeOK
  <2>3. TimerResumesOwner'
    BY <1>2, <2>1 DEF SafetyInv, TypeOK, TimerResumesOwner
  <2>4. HistoryConsistent'
    BY <1>2, <1>r, <2>1 DEF SafetyInv, TypeOK, HistoryConsistent
  <2>5. OnlyAllowedPass'
    BY <1>2, <1>r DEF SafetyInv, TypeOK, OnlyAllowedPass
  <2> QED
    BY <2>1, <2>2, <2>3, <2>4, <2>5 DEF SafetyInv
<1>3. CASE TimerMeetsStaleExc(s)
  <2>1. /\ ictx' \in [s : Fiber, stream_status : Statuses]
        /\ fiber_proc' \in [Sessions -> Fiber]
        /\ own' = own /\ failed' = failed /\ phase' = phase
    BY <1>3, <1>r DEF TimerMeetsStaleExc, SafetyInv, TypeOK, Fiber
  <2>2. Ended(s) /\ exc' \in BOOLEAN
    BY <1>3 DEF TimerMeetsStaleExc, SafetyInv, TypeOK
  <2> QED
    BY <1>2, <2>1, <2>2 DEF SafetyInv, TypeOK
<1>4. ASSUME NEW a \in Assignment, Script(s, Restored(re[s]), a)
      PROVE  /\ ictx' \in [s : Fiber, stream_status : Statuses]
             /\ ictx'.stream_status = own'[s]
             /\ fiber_proc' \in [Sessions -> Fiber]
             /\ own' \in [Sessions -> Statuses]
             /\ \A t \in Sessions \ {s} : own'[t] = own[t]
  BY <1>4, <1>r, AssignedType DEF Script, SafetyInv, TypeOK, Fiber
<1>5. ASSUME NEW a \in Assignment, TimerReturns(s, a)
      PROVE  SafetyInv'
  <2>1. /\ Script(s, Restored(re[s]), a) /\ Ended(s)
        /\ exc' \in BOOLEAN /\ failed' = failed
    BY <1>5, <1>r DEF TimerReturns, SafetyInv, TypeOK
  <2>2. \/ phase' = phase
        \/ /\ phase' = [phase EXCEPT ![s] = "passed"]
           /\ EnginePhase(own'[s]) = "passed"
    BY <1>4, <1>5, <1>r, <2>1
       DEF TimerReturns, PhaseAfterResume, EnginePhase, Gate!EnginePhase
  <2> QED
    BY <1>2, <1>4, <2>1, <2>2
<1>6. ASSUME NEW a \in Assignment, TimerRaises(s, a)
      PROVE  SafetyInv'
  <2>1. /\ Script(s, Restored(re[s]), a) /\ Ended(s)
        /\ exc' \in BOOLEAN /\ failed' = failed \cup {s} /\ phase' = phase
    BY <1>6, <1>r DEF TimerRaises
  <2> QED
    BY <1>2, <1>4, <2>1
<1> QED
  BY <1>1, <1>3, <1>5, <1>6 DEF TimerHandler

\* The shared interpreter is safe: on every behaviour, timers resume the
\* fiber, the session and the status they belong to, resumable fibers are
\* GC roots, and only a session's own script lets it pass.
THEOREM StreamSafety == Spec => []SafetyInv
<1>1. SafetyInv /\ [Next]_vars => SafetyInv'
  <2> SUFFICES ASSUME SafetyInv, [Next]_vars PROVE SafetyInv'
    OBVIOUS
  <2>1. CASE UNCHANGED vars
    BY <2>1 DEF vars, SafetyInv, TypeOK, TimerResumesOwner,
                SleepingFiberRooted, HistoryConsistent, OnlyAllowedPass
  <2>2. ASSUME NEW s \in Sessions, Handler(s) \/ TimerHandler(s)
        PROVE  SafetyInv'
    BY <2>2, HandlerSafety, TimerSafety
  <2> QED
    BY <2>1, <2>2 DEF Next
<1> QED
  BY <1>1, InitSafety, PTL DEF Spec

\* Access control across sleeps: whatever the interleaving, a session
\* reaches the upstream only if its own script allowed it.
THEOREM StreamAccessControl == Spec => []OnlyAllowedPass
<1>1. SafetyInv => OnlyAllowedPass
  BY DEF SafetyInv
<1> QED
  BY <1>1, StreamSafety, PTL

\* The interpreter's state, the sessions and the timers keep their types.
THEOREM StreamTypes == Spec => []TypeOK
<1>1. SafetyInv => TypeOK
  BY DEF SafetyInv
<1> QED
  BY <1>1, StreamSafety, PTL

\* A fiber that a timer will resume is never garbage: mrb_gc_register has
\* been called for it more often than mrb_gc_unregister.
THEOREM StreamFibersRooted == Spec => []SleepingFiberRooted
<1>1. SafetyInv => SleepingFiberRooted
  BY DEF SafetyInv
<1> QED
  BY <1>1, StreamSafety, PTL

\* A timer always resumes the fiber, session and status it was armed for.
THEOREM StreamTimerOwnership == Spec => []TimerResumesOwner
<1>1. SafetyInv => TimerResumesOwner
  BY DEF SafetyInv
<1> QED
  BY <1>1, StreamSafety, PTL

-----------------------------------------------------------------------------
(* Refinement: every step of StreamAsync is a step of one session's gate.  *)

\* The initial states map to the gate's initial state.
LEMMA GateStart == Init => Gate!GateInit
BY DEF Init, Verdict, Gate!GateInit

\* A step that changes the vote of one undecided session s to v, and its
\* phase to that of an undecided, a refused or a v-decided session, is a
\* step of the gate.
LEMMA GateMove ==
    ASSUME SafetyInv, NEW s \in Sessions, NEW v \in Statuses,
           phase[s] \in {"init", "access"},
           own' = [own EXCEPT ![s] = v],
           NEW p \in {phase[s], "access", "closed", EnginePhase(v)},
           phase' = [phase EXCEPT ![s] = p]
    PROVE  Gate!GateNext
<1>1. phase \in [Sessions -> {"init", "access", "passed", "closed"}]
  BY DEF SafetyInv, TypeOK
<1>2. Verdict[s] = "undecided"
  BY DEF Verdict
<1>3. CASE p \in {"init", "access"}
  <2>1. Verdict' = Verdict
    BY <1>1, <1>3 DEF Verdict
  <2> QED
    BY <1>2, <2>1 DEF Gate!GateNext, Gate!Consider
<1>4. CASE p \notin {"init", "access"}
  <2>1. Verdict' = [Verdict EXCEPT ![s] = p]
    BY <1>1, <1>4 DEF Verdict
  <2>2. p = "closed" \/ (p = Gate!EnginePhase(v) /\ Gate!EnginePhase(v) # "access")
    BY <1>4 DEF EnginePhase
  <2>3. Gate!Refuse(s, v) \/ Gate!Decide(s, v)
    BY <1>2, <2>1, <2>2 DEF Gate!Refuse, Gate!Decide
  <2> QED
    BY <2>3 DEF Gate!GateNext
<1> QED
  BY <1>3, <1>4

\* A call of the access-phase handler is a step of its session's gate.
LEMMA HandlerIsGateStep ==
    ASSUME SafetyInv, NEW s \in Sessions, Handler(s)
    PROVE  Gate!GateNext
<1>t. /\ own \in [Sessions -> Statuses]
      /\ phase \in [Sessions -> {"init", "access", "passed", "closed"}]
  BY DEF SafetyInv, TypeOK
<1>i. phase[s] = "init"
  BY DEF Handler, HandlerSkips, HandlerMeetsStaleExc, HandlerSleeps,
         HandlerReturns, HandlerRaises
<1>o. own[s] = "DECLINED"
  BY <1>i DEF SafetyInv, HistoryConsistent
<1>1. CASE HandlerSkips(s)
  BY <1>1, <1>t, <1>i, <1>o, GateMove DEF HandlerSkips
<1>2. CASE HandlerMeetsStaleExc(s)
  <2>1. own[s] \in Statuses /\ own' = [own EXCEPT ![s] = own[s]]
    BY <1>2, <1>t DEF HandlerMeetsStaleExc
  <2>2. phase' = [phase EXCEPT ![s] = "closed"]
    BY <1>2 DEF HandlerMeetsStaleExc, EnginePhase, Gate!EnginePhase
  <2> QED
    BY <1>i, <2>1, <2>2, GateMove
<1>3. ASSUME NEW a \in Assignment,
             HandlerSleeps(s, a) \/ HandlerReturns(s, a) \/ HandlerRaises(s, a)
      PROVE  Gate!GateNext
  <2> DEFINE v == Assigned(own[s], a)
  <2>1. v \in Statuses
    BY <1>t, AssignedType
  <2>2. own' = [own EXCEPT ![s] = v] /\ ictx'.stream_status = v
    BY <1>3, <1>o DEF HandlerSleeps, HandlerReturns, HandlerRaises, Sleeps,
                      Script, Claimed
  <2>3. \E p \in {"access", "closed", EnginePhase(v)} :
           phase' = [phase EXCEPT ![s] = p]
    BY <1>3, <2>2 DEF HandlerSleeps, HandlerReturns, HandlerRaises,
                      EnginePhase, Gate!EnginePhase
  <2>4. PICK p \in {"access", "closed", EnginePhase(v)} :
           phase' = [phase EXCEPT ![s] = p]
    BY <2>3
  <2> HIDE DEF v
  <2> QED
    BY <1>i, <2>1, <2>2, <2>4, GateMove
<1> QED
  BY <1>1, <1>2, <1>3 DEF Handler

\* So is the expiry of a sleep timer.
LEMMA TimerIsGateStep ==
    ASSUME SafetyInv, NEW s \in Sessions, TimerHandler(s)
    PROVE  Gate!GateNext
<1>t. /\ own \in [Sessions -> Statuses]
      /\ phase \in [Sessions -> {"init", "access", "passed", "closed"}]
  BY DEF SafetyInv, TypeOK
<1>a. s \in timers
  BY DEF TimerHandler, TimerMeetsStaleExc, TimerSleeps, TimerReturns, TimerRaises
<1>r. /\ phase[s] = "access"
      /\ re[s].s = s /\ re[s].fiber = s
      /\ Restored(re[s]) = [s |-> s, stream_status |-> own[s]]
  BY <1>a, ExpiredRecord
<1>1. CASE TimerMeetsStaleExc(s)
  <2>1. own' = [own EXCEPT ![s] = own[s]] /\ phase' = [phase EXCEPT ![s] = phase[s]]
    BY <1>1, <1>t DEF TimerMeetsStaleExc
  <2> QED
    BY <1>t, <1>r, <2>1, GateMove
<1>2. ASSUME NEW a \in Assignment,
             TimerSleeps(s, a) \/ TimerReturns(s, a) \/ TimerRaises(s, a)
      PROVE  Gate!GateNext
  <2> DEFINE v == Assigned(own[s], a)
  <2>1. v \in Statuses
    BY <1>t, AssignedType
  <2>2. own' = [own EXCEPT ![s] = v] /\ ictx'.stream_status = v
    BY <1>2, <1>r DEF TimerSleeps, TimerReturns, TimerRaises, Sleeps, Script
  <2>3. \E p \in {phase[s], EnginePhase(v)} : phase' = [phase EXCEPT ![s] = p]
    BY <1>2, <1>t, <1>r, <2>2
       DEF TimerSleeps, TimerReturns, TimerRaises, PhaseAfterResume
  <2>4. PICK p \in {phase[s], EnginePhase(v)} : phase' = [phase EXCEPT ![s] = p]
    BY <2>3
  <2> HIDE DEF v
  <2> QED
    BY <1>r, <2>1, <2>2, <2>4, GateMove
<1> QED
  BY <1>1, <1>2 DEF TimerHandler

\* The stream module implements the abstract gate: although all sessions
\* share one interpreter, each is decided once, alone, by its own script.
THEOREM StreamImplementsGate == Spec => ImplementsGate
<1>1. SafetyInv /\ [Next]_vars => [Gate!GateNext]_(Gate!gateVars)
  <2> SUFFICES ASSUME SafetyInv, [Next]_vars
               PROVE  [Gate!GateNext]_(Gate!gateVars)
    OBVIOUS
  <2>1. CASE UNCHANGED vars
    BY <2>1 DEF vars, Verdict, Gate!gateVars
  <2>2. ASSUME NEW s \in Sessions, Handler(s) \/ TimerHandler(s)
        PROVE  Gate!GateNext
    BY <2>2, HandlerIsGateStep, TimerIsGateStep
  <2> QED
    BY <2>1, <2>2 DEF Next
<1> QED
  BY <1>1, GateStart, StreamSafety, PTL DEF Spec, ImplementsGate, Gate!GateSpec

-----------------------------------------------------------------------------
(* The composition with the upstream server.                               *)

\* The peer is as the last script left it, its address in the pool of the
\* session that script ran for; only sessions that are decided have ended.
UpstreamInv ==
    /\ peer = [address |-> choice.server, pool |-> choice.by]
    /\ \A s \in ended : phase[s] \in {"passed", "closed"}

\* The handlers of the composition are those of StreamAsync.
LEMMA HandlersCompose ==
    ASSUME NEW s
    PROVE  (UHandler(s) => Handler(s)) /\ (UTimerHandler(s) => TimerHandler(s))
BY DEF UHandler, Handler, UTimerHandler, TimerHandler

\* A step that assigns servers is a step of StreamAsync, or leaves it alone.
LEMMA StepsCompose == [UNext]_uvars => [Next]_vars
BY HandlersCompose DEF UNext, Next, End, uvars

\* Scripts that assign servers are scripts: all of StreamAsync still holds.
THEOREM UpstreamIsStream == USpec => Spec
<1>1. UInit => Init
  BY DEF UInit
<1> QED
  BY <1>1, StepsCompose, PTL DEF USpec, Spec

\* A handler decides no session but its own, and that one was undecided.
LEMMA OneSessionMoves ==
    ASSUME SafetyInv, NEW s \in Sessions, Handler(s) \/ TimerHandler(s)
    PROVE  /\ phase[s] \in {"init", "access"}
           /\ \E p : phase' = [phase EXCEPT ![s] = p]
<1>t. phase \in [Sessions -> {"init", "access", "passed", "closed"}]
  BY DEF SafetyInv, TypeOK
<1>1. CASE Handler(s)
  BY <1>1 DEF Handler, HandlerSkips, HandlerMeetsStaleExc, HandlerSleeps,
              HandlerReturns, HandlerRaises
<1>2. CASE TimerHandler(s)
  <2>1. s \in timers
    BY <1>2 DEF TimerHandler, TimerMeetsStaleExc, TimerSleeps, TimerReturns,
                TimerRaises
  <2>2. phase[s] = "access" /\ re[s].s = s
    BY <2>1, ExpiredRecord
  <2>3. phase' = phase \/ \E p : phase' = [phase EXCEPT ![s] = p]
    BY <1>2, <2>2 DEF TimerHandler, TimerMeetsStaleExc, TimerSleeps,
                      TimerReturns, TimerRaises, PhaseAfterResume
  <2>4. phase = [phase EXCEPT ![s] = phase[s]]
    BY <1>t
  <2> QED
    BY <2>2, <2>3, <2>4
<1> QED
  BY <1>1, <1>2

\* A script runs with ictx naming the session it was started for, also when
\* a timer resumed it: an address it assigns lives in that session's pool.
LEMMA AssignedInOwnPool ==
    ASSUME SafetyInv, UpstreamInv, NEW s \in Sessions,
           UHandler(s) \/ UTimerHandler(s)
    PROVE  peer' = [address |-> choice'.server, pool |-> choice'.by]
<1>k. KeepsServer => peer' = [address |-> choice'.server, pool |-> choice'.by]
  BY DEF KeepsServer, UpstreamInv
<1>1. CASE UHandler(s)
  <2>1. ASSUME NEW a \in Assignment, NEW u \in Servers, AssignsServer(s, u),
               HandlerSleeps(s, a) \/ HandlerReturns(s, a) \/ HandlerRaises(s, a)
        PROVE  peer' = [address |-> choice'.server, pool |-> choice'.by]
    <3>1. ictx'.s = s
      BY <2>1 DEF HandlerSleeps, HandlerReturns, HandlerRaises, Sleeps, Script, Claimed
    <3> QED
      BY <2>1, <3>1 DEF AssignsServer, AddressPool
  <2> QED
    BY <1>1, <1>k, <2>1 DEF UHandler, Ran
<1>2. CASE UTimerHandler(s)
  <2>1. ASSUME NEW a \in Assignment, NEW u \in Servers,
               AssignsServer(re[s].fiber, u),
               TimerSleeps(s, a) \/ TimerReturns(s, a) \/ TimerRaises(s, a)
        PROVE  peer' = [address |-> choice'.server, pool |-> choice'.by]
    <3>1. s \in timers
      BY <2>1 DEF TimerSleeps, TimerReturns, TimerRaises
    <3>2. re[s].fiber = s /\ Restored(re[s]) = [s |-> s, stream_status |-> own[s]]
      BY <3>1, ExpiredRecord
    <3>3. ictx'.s = s
      BY <2>1, <3>2 DEF TimerSleeps, TimerReturns, TimerRaises, Sleeps, Script
    <3> QED
      BY <2>1, <3>2, <3>3 DEF AssignsServer, AddressPool
  <2> QED
    BY <1>2, <1>k, <2>1 DEF UTimerHandler, Ran
<1> QED
  BY <1>1, <1>2

\* Every step keeps the peer and the last choice together.
LEMMA UpstreamStep ==
    ASSUME SafetyInv, UpstreamInv, [UNext]_uvars
    PROVE  UpstreamInv'
<1>t. phase \in [Sessions -> {"init", "access", "passed", "closed"}]
  BY DEF SafetyInv, TypeOK
<1>1. CASE UNCHANGED uvars
  BY <1>1 DEF uvars, vars, UpstreamInv
<1>2. ASSUME NEW s \in Sessions, UHandler(s) \/ UTimerHandler(s)
      PROVE  UpstreamInv'
  <2>1. peer' = [address |-> choice'.server, pool |-> choice'.by]
    BY <1>2, AssignedInOwnPool
  <2>2. ended' = ended
    BY <1>2 DEF UHandler, UTimerHandler
  <2>3. /\ phase[s] \in {"init", "access"}
        /\ \E p : phase' = [phase EXCEPT ![s] = p]
    BY <1>2, HandlersCompose, OneSessionMoves
  <2> QED
    BY <1>t, <2>1, <2>2, <2>3 DEF UpstreamInv
<1>3. ASSUME NEW s \in Sessions, End(s)
      PROVE  UpstreamInv'
  BY <1>3 DEF End, UpstreamInv, vars
<1> QED
  BY <1>1, <1>2, <1>3 DEF UNext

\* A session that connects reaches the last choice, unless the session that
\* made it, another one, is over.
LEMMA ConnectStep ==
    ASSUME SafetyInv, UpstreamInv, [UNext]_uvars,
           NEW t \in Sessions, connected'[t] # connected[t]
    PROVE  \/ connected'[t] = choice'.server
           \/ choice'.by \in ended /\ choice'.by # t
<1>1. PICK s \in Sessions : UHandler(s) \/ UTimerHandler(s)
  BY DEF UNext, End, uvars
<1>2. Connect
  BY <1>1 DEF UHandler, UTimerHandler
<1>3. phase[t] # "passed" /\ phase'[t] = "passed" /\ connected'[t] = PeerAddress
  BY <1>2 DEF Connect
<1>4. t = s /\ phase[t] \in {"init", "access"}
  <2>1. phase[s] \in {"init", "access"} /\ \E p : phase' = [phase EXCEPT ![s] = p]
    BY <1>1, HandlersCompose, OneSessionMoves
  <2>2. phase \in [Sessions -> {"init", "access", "passed", "closed"}]
    BY DEF SafetyInv, TypeOK
  <2> QED
    BY <1>3, <2>1, <2>2
<1>5. t \notin ended
  BY <1>4 DEF UpstreamInv
<1>6. peer' = [address |-> choice'.server, pool |-> choice'.by]
  BY <1>1, AssignedInOwnPool
<1> QED
  BY <1>3, <1>5, <1>6 DEF PeerAddress

\* upstream_server= reaches the proxy: a session connects to the server some
\* script of the worker assigned last, although peer, interpreter and ictx
\* are shared, unless the session whose pool held the address has ended.
THEOREM UpstreamChoice == USpec => LastChoiceReached
<1> DEFINE Step == \A s \in Sessions : connected'[s] # connected[s] =>
                      \/ connected'[s] = choice'.server
                      \/ choice'.by \in ended /\ choice'.by # s
<1>1. UInit => UpstreamInv
  BY DEF UInit, UpstreamInv
<1>2. SafetyInv /\ UpstreamInv /\ [UNext]_uvars => UpstreamInv'
  BY UpstreamStep
<1>3. SafetyInv /\ UpstreamInv /\ [UNext]_uvars => [Step]_uvars
  BY ConnectStep
<1>4. USpec => []SafetyInv
  BY UpstreamIsStream, StreamSafety, PTL
<1> QED
  BY <1>1, <1>2, <1>3, <1>4, PTL DEF USpec, LastChoiceReached
=============================================================================
