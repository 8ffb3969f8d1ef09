-------------------------- MODULE HttpAsyncProofs --------------------------
(***************************************************************************)
(* Proofs about HttpAsync for any number of requests, any handlers and any *)
(* number of sleeps.                                                       *)
(***************************************************************************)
EXTENDS HttpAsync, TLAPS

\* What holds of one request.  While its timer is armed it is parked at the
\* handler whose fiber, status and root the timer will need; a handler whose
\* last word is a refusal is the one the request ends at, or sleeps with the
\* refusing status and no open body.
Local(r) ==
    /\ engine = r => life[r] = "running"
    /\ r \in timers =>
         /\ life[r] = "asleep" /\ engine # r
         /\ at[r] <= N
         /\ re[r] = [fiber |-> <<r, at[r]>>, status |-> status[r]]
         /\ roots[<<r, at[r]>>] >= 1
    /\ \A k \in 1 .. N : <<r, k>> \in refused =>
         /\ k = at[r]
         /\ \/ life[r] \in {"finalized", "terminated"}
            \/ r \in timers /\ status[r] \in 300 .. 599 /\ chain[r] # "open"

\* The shape of the state that the argument needs.
Shape ==
    /\ DOMAIN life = Requests /\ DOMAIN status = Requests /\ DOMAIN chain = Requests
    /\ DOMAIN sent = Requests /\ DOMAIN fiber_proc = Requests /\ DOMAIN re = Requests
    /\ at \in [Requests -> 1 .. N + 1] /\ sleeps \in [Requests -> Nat]
    /\ roots \in [Fibers -> Nat]
    /\ timers \subseteq Requests
    /\ engine \in Requests \cup {NoRequest}

HttpInv == Shape /\ \A r \in Requests : Local(r)

\* A step on behalf of r leaves the other requests alone.
OthersStay(r) ==
    \A x \in Requests \ {r} :
        /\ life'[x] = life[x] /\ at'[x] = at[x] /\ status'[x] = status[x]
        /\ chain'[x] = chain[x] /\ sent'[x] = sent[x] /\ re'[x] = re[x]
        /\ sleeps'[x] = sleeps[x]
        /\ x \in timers' <=> x \in timers
        /\ \A k \in 1 .. N : /\ roots'[<<x, k>>] = roots[<<x, k>>]
                             /\ <<x, k>> \in refused' <=> <<x, k>> \in refused

\* Such a step keeps the invariant if it keeps it for r and does not turn
\* the engine to another request.
LEMMA OthersKept ==
    ASSUME HttpInv, NEW r \in Requests, Shape', OthersStay(r), Local(r)',
           engine' \in {engine, r, NoRequest}
    PROVE  HttpInv'
<1>1. ASSUME NEW x \in Requests \ {r} PROVE Local(x)'
  <2>1. Local(x) /\ at[x] \in 1 .. N + 1 /\ x # NoRequest
    BY HttpAssumption DEF HttpInv, Shape
  <2>2. at'[x] <= N => at[x] \in 1 .. N
    BY <2>1 DEF OthersStay
  <2>3. engine' = x => engine = x
    BY <2>1
  <2> QED
    BY <2>1, <2>2, <2>3 DEF Local, OthersStay
<1> QED
  BY <1>1 DEF HttpInv

\* Nginx.return with an error status and nothing written after it: that is
\* the status, and the body is not open; a script that does nothing leaves
\* both as they were.
LEMMA LastWord ==
    ASSUME NEW w \in Writes, NEW st, NEW ch
    PROVE  /\ w.code >= 300 /\ ~w.after =>
                StatusAfter(st, ch, w) \in 300 .. 599 /\ ChainAfter(ch, w) # "open"
           /\ w = NoWrites => StatusAfter(st, ch, w) = st /\ ChainAfter(ch, w) = ch
<1>1. w.code \in Codes \cup {NoReturn}
  BY DEF Writes
<1>2. ASSUME w.code >= 300, ~w.after
      PROVE  StatusAfter(st, ch, w) \in 300 .. 599 /\ ChainAfter(ch, w) # "open"
  <2>0. w.code \in {0, -2, -4, -5, 1} \cup (100 .. 599)
    BY <1>1, HttpAssumption DEF NoReturn, NGX_OK, NGX_AGAIN, NGX_DONE, NGX_DECLINED
  <2>1. w.code \in 300 .. 599 /\ w.code # NoReturn
    BY <1>2, <2>0 DEF NoReturn
  <2>2. w.code % Word = w.code
    BY <2>1 DEF Word
  <2> QED
    BY <1>2, <2>1, <2>2 DEF StatusAfter, ChainAfter, ReturnStatus, ReturnChain, Puts, Stored, HTTP_OK
<1>3. ASSUME w = NoWrites PROVE StatusAfter(st, ch, w) = st /\ ChainAfter(ch, w) = ch
  BY <1>3 DEF NoWrites, StatusAfter, ChainAfter, ReturnStatus, ReturnChain, Puts
<1> QED
  BY <1>2, <1>3

\* ngx_mrb_finalize_rputs hands a refusing status on, unless a body is open.
LEMMA RefusalStands ==
    ASSUME NEW st \in 300 .. 599, NEW ch, ch # "open"
    PROVE  FinalizeRputs(st, ch).rc = st
BY DEF FinalizeRputs, AsInt, Word, HTTP_OK

\* The three ways in which nginx takes up a return code.
LEMMA EngineFacts ==
    ASSUME Shape, NEW r \in Requests, NEW rc, NEW out,
           Proceed(r, rc, out) \/ Wait(r) \/ FinalizeRequest(r, rc, out)
    PROVE  /\ DOMAIN life' = Requests /\ DOMAIN sent' = Requests
           /\ at' \in [Requests -> 1 .. N + 1]
           /\ engine' \in {r, NoRequest}
           /\ engine' = r => life'[r] = "running"
           /\ \A x \in Requests \ {r} :
                life'[x] = life[x] /\ at'[x] = at[x] /\ sent'[x] = sent[x]
BY HttpAssumption DEF Shape, Proceed, Wait, FinalizeRequest, Header

\* A refusing code ends the request where it is.
LEMMA RefusalEnds ==
    ASSUME NEW r \in Requests, NEW rc \in 300 .. 599, NEW out
    PROVE  /\ EngineTakes(r, rc, out) => FinalizeRequest(r, rc, out)
           /\ PostFiberTakes(r, rc, out) => FinalizeRequest(r, rc, out)
BY DEF EngineTakes, PostFiberTakes, LetsThrough, Waits, NGX_OK, NGX_AGAIN, NGX_DONE, NGX_DECLINED

\* The fiber of r that a script ran in, and whether its last word refuses.
LEMMA ScriptFacts ==
    ASSUME NEW r \in Requests, NEW k \in 1 .. N, NEW w \in Writes, Script(<<r, k>>, w)
    PROVE  /\ \A x \in Requests, j \in 1 .. N :
                x # r \/ j # k => (<<x, j>> \in refused' <=> <<x, j>> \in refused)
           /\ <<r, k>> \in refused' =>
                \/ w.code >= 300 /\ ~w.after
                \/ w = NoWrites /\ <<r, k>> \in refused
BY DEF Script

\* If the last word refuses, the status and the chain that the script leaves
\* say so, given that they said so before.
LEMMA RefusalRemains ==
    ASSUME NEW r \in Requests, NEW k \in 1 .. N, NEW w \in Writes, Script(<<r, k>>, w),
           <<r, k>> \in refused', NEW st, NEW ch,
           <<r, k>> \in refused => st \in 300 .. 599 /\ ch # "open"
    PROVE  StatusAfter(st, ch, w) \in 300 .. 599 /\ ChainAfter(ch, w) # "open"
BY ScriptFacts, LastWord

\* Async.sleep in the fiber of handler at[r]: the timer finds what it needs.
LEMMA SleepsLocal ==
    ASSUME HttpInv, NEW r \in Requests, request' = r, at[r] \in 1 .. N,
           NEW w \in Writes, NEW st, NEW armed,
           DOMAIN st = Requests, \A x \in Requests \ {r} : st[x] = status[x],
           armed \in {timers, timers \ {r}},
           <<r, at[r]>> \in refused => st[r] \in 300 .. 599 /\ chain[r] # "open",
           Sleeps(<<r, at[r]>>, st, w, armed),
           DOMAIN life' = Requests, life'[r] = "asleep", UNCHANGED <<at, sent>>,
           \A x \in Requests \ {r} : life'[x] = life[x],
           engine' \in {engine, NoRequest}, engine' # r
    PROVE  HttpInv' /\ OthersStay(r) /\ sleeps'[r] # sleeps[r]
<1>0. Shape /\ Local(r)
  BY DEF HttpInv
<1>1. /\ status' = [st EXCEPT ![r] = StatusAfter(st[r], chain[r], w)]
      /\ chain' = [chain EXCEPT ![r] = ChainAfter(chain[r], w)]
      /\ fiber_proc' = [fiber_proc EXCEPT ![r] = <<r, at[r]>>]
      /\ re' = [re EXCEPT ![r] = [fiber |-> fiber_proc'[r], status |-> status'[r]]]
      /\ timers' = armed \cup {r}
      /\ roots' = [roots EXCEPT ![fiber_proc'[r]] = @ + 1]
      /\ sleeps' = [sleeps EXCEPT ![r] = @ + 1]
      /\ Script(<<r, at[r]>>, w)
  BY DEF Sleeps, Script, Written, WrittenChain, Registered
<1>2. /\ fiber_proc'[r] = <<r, at[r]>> /\ status'[r] = StatusAfter(st[r], chain[r], w)
      /\ chain'[r] = ChainAfter(chain[r], w)
      /\ re'[r] = [fiber |-> <<r, at[r]>>, status |-> status'[r]]
  BY <1>0, <1>1 DEF Shape
<1>3. <<r, at[r]>> \in Fibers
  BY DEF Fibers
<1>4. Shape'
  BY <1>0, <1>1, <1>2, <1>3 DEF Shape
<1>5. OthersStay(r)
  <2>1. \A x \in Requests \ {r}, k \in 1 .. N :
           <<x, k>> \in Fibers /\ <<x, k>> # <<r, at[r]>>
    BY DEF Fibers
  <2>2. \A x \in Requests \ {r}, k \in 1 .. N : roots'[<<x, k>>] = roots[<<x, k>>]
    BY <1>0, <1>1, <1>2, <1>3, <2>1 DEF Shape
  <2>3. \A x \in Requests \ {r}, k \in 1 .. N : <<x, k>> \in refused' <=> <<x, k>> \in refused
    BY <1>1, ScriptFacts
  <2> QED
    BY <1>0, <1>1, <2>2, <2>3 DEF OthersStay, Shape
<1>6. Local(r)'
  <2>1. roots'[<<r, at[r]>>] >= 1
    BY <1>0, <1>1, <1>2, <1>3 DEF Shape
  <2>2. ASSUME NEW k \in 1 .. N, <<r, k>> \in refused'
        PROVE  k = at[r] /\ status'[r] \in 300 .. 599 /\ chain'[r] # "open"
    <3>1. k = at[r]
      BY <1>0, <1>1, <2>2, ScriptFacts DEF Local
    <3> QED
      BY <1>1, <1>2, <2>2, <3>1, RefusalRemains
  <2> QED
    BY <1>1, <1>2, <2>1, <2>2 DEF Local
<1> QED
  BY <1>0, <1>1, <1>4, <1>5, <1>6, OthersKept DEF Shape

\* The script of handler at[r] is over and nginx takes up its code; if the
\* last word refuses, the code ends the request.
LEMMA EndsLocal ==
    ASSUME HttpInv, NEW r \in Requests, at[r] \in 1 .. N,
           DOMAIN status' = Requests, DOMAIN chain' = Requests,
           DOMAIN fiber_proc' = Requests, DOMAIN re' = Requests,
           \A x \in Requests \ {r} :
               status'[x] = status[x] /\ chain'[x] = chain[x] /\ re'[x] = re[x],
           timers' = timers \ {r}, UNCHANGED sleeps,
           roots' \in [Fibers -> Nat],
           \A x \in Requests \ {r}, k \in 1 .. N : roots'[<<x, k>>] = roots[<<x, k>>],
           \A x \in Requests, k \in 1 .. N :
               x # r \/ k # at[r] => (<<x, k>> \in refused' <=> <<x, k>> \in refused),
           NEW rc, NEW out, Proceed(r, rc, out) \/ Wait(r) \/ FinalizeRequest(r, rc, out),
           <<r, at[r]>> \in refused' => FinalizeRequest(r, rc, out)
    PROVE  HttpInv' /\ OthersStay(r)
<1>0. Shape /\ Local(r)
  BY DEF HttpInv
<1>1. /\ DOMAIN life' = Requests /\ DOMAIN sent' = Requests
      /\ at' \in [Requests -> 1 .. N + 1]
      /\ engine' \in {r, NoRequest}
      /\ engine' = r => life'[r] = "running"
      /\ \A x \in Requests \ {r} :
           life'[x] = life[x] /\ at'[x] = at[x] /\ sent'[x] = sent[x]
  BY <1>0, EngineFacts
<1>2. Shape'
  BY <1>0, <1>1 DEF Shape
<1>3. OthersStay(r)
  BY <1>1 DEF OthersStay
<1>4. Local(r)'
  <2>1. \A k \in 1 .. N : <<r, k>> \in refused' => k = at[r]
    BY <1>0 DEF Local
  <2>2. <<r, at[r]>> \in refused' => life'[r] = "finalized" /\ at'[r] = at[r]
    BY <1>0 DEF FinalizeRequest, Shape
  <2> QED
    BY <1>1, <2>1, <2>2 DEF Local
<1> QED
  BY <1>1, <1>2, <1>3, <1>4, OthersKept

\* ngx_mrb_run when the script is over: statuses st, its own at least as
\* refusing as its last word.
LEMMA RunEndsSafe ==
    ASSUME HttpInv, NEW r \in Requests, Runs(r), NEW w, NEW st,
           DOMAIN st = Requests, \A x \in Requests \ {r} : st[x] = status[x],
           DOMAIN fiber_proc' = Requests,
           \A x \in Requests, k \in 1 .. N :
               x # r \/ k # at[r] => (<<x, k>> \in refused' <=> <<x, k>> \in refused),
           <<r, at[r]>> \in refused' =>
               st[r] \in 300 .. 599 /\ ChainAfter(chain[r], w) # "open",
           RunEnds(r, st, w)
    PROVE  HttpInv' /\ OthersStay(r)
<1>0. Shape /\ Local(r) /\ at[r] \in 1 .. N /\ r \notin timers /\ request' = r
  BY DEF HttpInv, Shape, Local, Runs
<1> DEFINE ch == [chain EXCEPT ![r] = ChainAfter(chain[r], w)]
           fin == FinalizeRputs(st[r], ch[r])
<1>1. /\ status' = [st EXCEPT ![r] = fin.status]
      /\ chain' = [ch EXCEPT ![r] = fin.chain]
      /\ EngineTakes(r, fin.rc, fin.out)
      /\ UNCHANGED <<re, timers, roots, sleeps>>
  BY <1>0 DEF RunEnds, WrittenChain
<1>2. <<r, at[r]>> \in refused' => fin.rc \in 300 .. 599
  <2>1. ch[r] = ChainAfter(chain[r], w)
    BY <1>0 DEF Shape
  <2> HIDE DEF ch
  <2> QED
    BY <2>1, RefusalStands
<1> HIDE DEF fin
<1>3. \/ Proceed(r, fin.rc, fin.out) \/ Wait(r) \/ FinalizeRequest(r, fin.rc, fin.out)
  BY <1>1 DEF EngineTakes
<1>4. <<r, at[r]>> \in refused' => FinalizeRequest(r, fin.rc, fin.out)
  BY <1>1, <1>2, RefusalEnds
<1>5. /\ DOMAIN status' = Requests /\ DOMAIN chain' = Requests
      /\ \A x \in Requests \ {r} : status'[x] = status[x] /\ chain'[x] = chain[x]
  BY <1>0, <1>1 DEF Shape
<1>6. timers' = timers \ {r}
  BY <1>0, <1>1
<1> QED
  BY <1>0, <1>1, <1>3, <1>4, <1>5, <1>6, EndsLocal DEF Shape

\* A call of ngx_mrb_run for r.
LEMMA RunSafe ==
    ASSUME HttpInv, NEW r \in Requests, Run(r)
    PROVE  HttpInv' /\ OthersStay(r) /\ engine = r
<1>0. Runs(r)
  BY DEF Run, RunMeetsStaleExc, RunSleeps, RunReturns, RunRaises
<1>1. Shape /\ Local(r) /\ at[r] \in 1 .. N /\ request' = r /\ engine = r
  BY <1>0 DEF HttpInv, Shape, Runs
<1>2. r \notin timers /\ <<r, at[r]>> \notin refused
  BY <1>1 DEF Local
<1>3. CASE RunMeetsStaleExc(r)
  <2>1. /\ DOMAIN Failed(r, status) = Requests
        /\ \A x \in Requests \ {r} : Failed(r, status)[x] = status[x]
    BY <1>1 DEF Failed, Shape
  <2>2. /\ RunEnds(r, Failed(r, status), NoWrites)
        /\ UNCHANGED <<fiber_proc, refused>>
    BY <1>3 DEF RunMeetsStaleExc
  <2> QED
    BY <1>0, <1>1, <1>2, <2>1, <2>2, RunEndsSafe DEF Shape
<1>4. ASSUME NEW w \in Writes, RunSleeps(r, w) PROVE HttpInv' /\ OthersStay(r)
  <2>1. Sleeps(<<r, at[r]>>, status, w, timers) /\ Wait(r)
    BY <1>4 DEF RunSleeps
  <2>2. /\ DOMAIN life' = Requests /\ life'[r] = "asleep" /\ UNCHANGED <<at, sent>>
        /\ \A x \in Requests \ {r} : life'[x] = life[x]
        /\ engine' = NoRequest /\ engine' # r
    BY <1>1, <2>1, HttpAssumption DEF Wait, Shape
  <2> QED
    BY <1>1, <1>2, <2>1, <2>2, SleepsLocal DEF Shape
<1>5. ASSUME NEW w \in Writes, RunReturns(r, w) \/ RunRaises(r, w)
      PROVE  HttpInv' /\ OthersStay(r)
  <2> DEFINE ws == Written(status, w)
  <2>1. ws = [status EXCEPT ![r] = StatusAfter(status[r], chain[r], w)]
    BY <1>1 DEF Written
  <2>2. PICK st \in {ws, Failed(r, ws)} : RunEnds(r, st, w)
    BY <1>5 DEF RunReturns, RunRaises
  <2>3. Script(<<r, at[r]>>, w)
    BY <1>5 DEF RunReturns, RunRaises
  <2>4. DOMAIN st = Requests /\ \A x \in Requests \ {r} : st[x] = status[x]
    BY <1>1, <2>1 DEF Failed, Shape
  <2>5. st[r] \in {StatusAfter(status[r], chain[r], w), 500}
    BY <1>1, <2>1 DEF Failed, Shape, HTTP_INTERNAL_SERVER_ERROR
  <2> HIDE DEF ws
  <2>6. <<r, at[r]>> \in refused' => st[r] \in 300 .. 599 /\ ChainAfter(chain[r], w) # "open"
    BY <1>1, <1>2, <2>3, <2>5, RefusalRemains
  <2>7. DOMAIN fiber_proc' = Requests
    BY <1>1, <2>3 DEF Script, Shape
  <2>8. \A x \in Requests, k \in 1 .. N :
           x # r \/ k # at[r] => (<<x, k>> \in refused' <=> <<x, k>> \in refused)
    BY <1>1, <2>3, ScriptFacts
  <2> QED
    BY <1>0, <2>2, <2>4, <2>6, <2>7, <2>8, RunEndsSafe
<1> QED
  BY <1>1, <1>3, <1>4, <1>5 DEF Run

\* The expiry of the timer of r: post_fiber.
LEMMA TimerSafe ==
    ASSUME HttpInv, NEW r \in Requests, TimerHandler(r)
    PROVE  /\ HttpInv' /\ OthersStay(r) /\ r \in timers
           /\ r \notin timers' \/ sleeps'[r] # sleeps[r]
<1>0. engine = NoRequest /\ r \in timers /\ request' = r
  BY DEF TimerHandler, TimerMeetsStaleExc, TimerSleeps, TimerReturns, TimerRaises, Expires, Pushed
<1>1. /\ Shape /\ Local(r) /\ at[r] \in 1 .. N /\ life[r] = "asleep"
      /\ re[r] = [fiber |-> <<r, at[r]>>, status |-> status[r]]
      /\ roots[<<r, at[r]>>] >= 1
  <2>1. Shape /\ Local(r)
    BY DEF HttpInv
  <2> QED
    BY <1>0, <2>1 DEF Shape, Local
<1>2. re[r].fiber = <<r, at[r]>> /\ re[r].status = status[r]
  BY <1>1
<1>3. Restored(r) = [status EXCEPT ![r] = status[r]]
  BY <1>2 DEF Restored
<1>4. /\ DOMAIN Restored(r) = Requests /\ Restored(r)[r] = status[r]
      /\ \A x \in Requests \ {r} : Restored(r)[x] = status[x]
  BY <1>1, <1>3 DEF Shape
<1>5. <<r, at[r]>> \in refused => status[r] \in 300 .. 599 /\ chain[r] # "open"
  BY <1>1 DEF Local
<1>6. ASSUME NEW w \in Writes, TimerSleeps(r, w)
      PROVE  HttpInv' /\ OthersStay(r) /\ sleeps'[r] # sleeps[r]
  <2>1. /\ Sleeps(<<r, at[r]>>, Restored(r), w, timers \ {r})
        /\ UNCHANGED <<engine, life, at, sent>>
    BY <1>2, <1>6 DEF TimerSleeps
  <2>2. engine' # r
    BY <1>0, <2>1, HttpAssumption
  <2>3. DOMAIN life' = Requests /\ life'[r] = "asleep" /\ UNCHANGED <<at, sent>> /\ engine' = engine
    BY <1>1, <2>1 DEF Shape
  <2> QED
    BY <1>0, <1>1, <1>4, <1>5, <2>1, <2>2, <2>3, SleepsLocal
<1>7. ASSUME NEW w, TimerEnds(r, w), DOMAIN fiber_proc' = Requests,
             \A x \in Requests, k \in 1 .. N :
               x # r \/ k # at[r] => (<<x, k>> \in refused' <=> <<x, k>> \in refused),
             <<r, at[r]>> \in refused' =>
               /\ StatusAfter(status[r], chain[r], w) \in 300 .. 599
               /\ ChainAfter(chain[r], w) # "open"
      PROVE  HttpInv' /\ OthersStay(r) /\ r \notin timers'
  <2> DEFINE ws == [Restored(r) EXCEPT ![r] = StatusAfter(Restored(r)[r], chain[r], w)]
             ch == [chain EXCEPT ![r] = ChainAfter(chain[r], w)]
             fin == FinalizeRputs(ws[r], ch[r])
  <2>1. ws[r] = StatusAfter(status[r], chain[r], w) /\ ch[r] = ChainAfter(chain[r], w)
    BY <1>1, <1>4 DEF Shape
  <2>2. /\ \E v : status' = [ws EXCEPT ![r] = v]
        /\ chain' = [ch EXCEPT ![r] = fin.chain]
        /\ re' = [re EXCEPT ![r].fiber = NoFiber]
        /\ timers' = timers \ {r}
        /\ roots' = [roots EXCEPT ![<<r, at[r]>>] = @ - 1]
        /\ PostFiberTakes(r, fin.rc, fin.out)
        /\ UNCHANGED sleeps
    BY <1>0, <1>2, <1>7 DEF TimerEnds, Written, WrittenChain, Unregistered
  <2>3. /\ DOMAIN status' = Requests /\ DOMAIN chain' = Requests /\ DOMAIN re' = Requests
        /\ \A x \in Requests \ {r} :
             status'[x] = status[x] /\ chain'[x] = chain[x] /\ re'[x] = re[x]
    BY <1>1, <1>4, <2>2 DEF Shape
  <2>4. /\ roots' \in [Fibers -> Nat]
        /\ \A x \in Requests \ {r}, k \in 1 .. N : roots'[<<x, k>>] = roots[<<x, k>>]
    <3>1. <<r, at[r]>> \in Fibers /\ \A x \in Requests \ {r}, k \in 1 .. N :
            <<x, k>> \in Fibers /\ <<x, k>> # <<r, at[r]>>
      BY <1>1 DEF Fibers
    <3> QED
      BY <1>1, <2>2, <3>1 DEF Shape
  <2> HIDE DEF ws, ch
  <2>5. <<r, at[r]>> \in refused' => fin.rc \in 300 .. 599
    BY <1>7, <2>1, RefusalStands
  <2> HIDE DEF fin
  <2>6. <<r, at[r]>> \in refused' => FinalizeRequest(r, fin.rc, fin.out)
    BY <2>2, <2>5, RefusalEnds
  <2>7. Proceed(r, fin.rc, fin.out) \/ Wait(r) \/ FinalizeRequest(r, fin.rc, fin.out)
    BY <2>2 DEF PostFiberTakes
  <2> QED
    BY <1>1, <1>7, <2>2, <2>3, <2>4, <2>6, <2>7, EndsLocal
<1>8. ASSUME NEW w \in Writes, TimerReturns(r, w) \/ TimerRaises(r, w)
      PROVE  HttpInv' /\ OthersStay(r) /\ r \notin timers'
  <2>1. Script(<<r, at[r]>>, w) /\ TimerEnds(r, w)
    BY <1>2, <1>8 DEF TimerReturns, TimerRaises
  <2>2. DOMAIN fiber_proc' = Requests
    BY <1>1, <2>1 DEF Script, Shape
  <2>3. \A x \in Requests, k \in 1 .. N :
           x # r \/ k # at[r] => (<<x, k>> \in refused' <=> <<x, k>> \in refused)
    BY <1>1, <2>1, ScriptFacts
  <2>4. <<r, at[r]>> \in refused' =>
           /\ StatusAfter(status[r], chain[r], w) \in 300 .. 599
           /\ ChainAfter(chain[r], w) # "open"
    BY <1>1, <1>5, <2>1, RefusalRemains
  <2> QED
    BY <1>7, <2>1, <2>2, <2>3, <2>4
<1>9. CASE TimerMeetsStaleExc(r)
  <2>1. TimerEnds(r, NoWrites) /\ UNCHANGED refused
    BY <1>9 DEF TimerMeetsStaleExc
  <2>2. DOMAIN fiber_proc' = Requests
    BY <1>1, <1>9 DEF TimerMeetsStaleExc, Shape
  <2>3. StatusAfter(status[r], chain[r], NoWrites) = status[r] /\ ChainAfter(chain[r], NoWrites) = chain[r]
    BY DEF NoWrites, StatusAfter, ChainAfter, ReturnStatus, ReturnChain, Puts
  <2>4. \A x \in Requests, k \in 1 .. N :
           x # r \/ k # at[r] => (<<x, k>> \in refused' <=> <<x, k>> \in refused)
    BY <2>1
  <2>5. <<r, at[r]>> \in refused' =>
           /\ StatusAfter(status[r], chain[r], NoWrites) \in 300 .. 599
           /\ ChainAfter(chain[r], NoWrites) # "open"
    BY <1>5, <2>1, <2>3
  <2>6. HttpInv' /\ OthersStay(r) /\ r \notin timers'
    BY <1>7, <2>1, <2>2, <2>4, <2>5
  <2> QED
    BY <1>0, <2>6
<1> QED
  BY <1>0, <1>6, <1>8, <1>9 DEF TimerHandler

\* The arrival of r, the answer of nginx's own content handler, and the end
\* of a sleeping request from outside.
LEMMA NginxSafe ==
    ASSUME HttpInv, NEW r \in Requests, Arrive(r) \/ Serve(r) \/ Terminate(r)
    PROVE  /\ HttpInv' /\ OthersStay(r)
           /\ UNCHANGED <<at, status, chain>> /\ life[r] \notin Closed
           /\ sent' = sent \/ engine = r
<1>0. Shape /\ Local(r) /\ N \in Nat /\ r # NoRequest
  BY HttpAssumption DEF HttpInv, N
<1>1. /\ engine' \in {engine, r, NoRequest}
      /\ UNCHANGED <<at, status, chain, fiber_proc, re, roots, refused, sleeps>>
      /\ timers' \in {timers, timers \ {r}}
  BY DEF Arrive, Serve, Terminate, CleanedTimers
<1>2. /\ DOMAIN life' = Requests /\ DOMAIN sent' = Requests
      /\ \A x \in Requests \ {r} : life'[x] = life[x] /\ sent'[x] = sent[x]
  BY <1>0 DEF Arrive, Serve, Terminate, Header, Shape
<1>3. Shape'
  BY <1>0, <1>1, <1>2 DEF Shape
<1>4. OthersStay(r)
  BY <1>1, <1>2 DEF OthersStay
<1>5. CASE Arrive(r)
  <2>1. r \notin timers' /\ life'[r] = "running" /\ life[r] = "idle" /\ sent' = sent
    BY <1>0, <1>5 DEF Arrive, Local, Shape
  <2>2. Local(r)'
    BY <1>0, <1>1, <2>1 DEF Local
  <2> QED
    BY <1>1, <1>3, <1>4, <2>1, <2>2, OthersKept DEF Closed
<1>6. CASE Serve(r)
  <2>1. r \notin timers' /\ engine' # r /\ life[r] = "running" /\ engine = r /\ at[r] = N + 1
    BY <1>0, <1>6 DEF Serve, Local
  <2>2. Local(r)'
    BY <1>0, <1>1, <2>1 DEF Local
  <2> QED
    BY <1>1, <1>3, <1>4, <2>1, <2>2, OthersKept DEF Closed
<1>7. CASE Terminate(r)
  <2>1. /\ r \notin timers' /\ engine' # r /\ life[r] = "asleep" /\ sent' = sent
        /\ life'[r] = "terminated"
    BY <1>0, <1>7 DEF Terminate, CleanedTimers, Shape
  <2>2. Local(r)'
    BY <1>0, <1>1, <2>1 DEF Local
  <2> QED
    BY <1>1, <1>3, <1>4, <2>1, <2>2, OthersKept DEF Closed
<1> QED
  BY <1>5, <1>6, <1>7

\* The worker starts without requests.
LEMMA HttpInit == Init => HttpInv
<1> SUFFICES ASSUME Init PROVE HttpInv
  OBVIOUS
<1>1. N \in Nat
  BY HttpAssumption DEF N
<1>2. Shape
  BY <1>1 DEF Init, Shape
<1>3. ASSUME NEW r \in Requests PROVE Local(r)
  BY HttpAssumption DEF Init, Local
<1> QED
  BY <1>2, <1>3 DEF HttpInv

\* Every step keeps the invariant.
LEMMA HttpNext == HttpInv /\ [Next]_vars => HttpInv'
<1> SUFFICES ASSUME HttpInv, [Next]_vars PROVE HttpInv'
  OBVIOUS
<1>1. CASE UNCHANGED vars
  BY <1>1 DEF vars, HttpInv, Shape, Local
<1>2. CASE Next
  BY <1>2, RunSafe, TimerSafe, NginxSafe DEF Next, Event
<1> QED
  BY <1>1, <1>2

\* Along every behaviour.
LEMMA HttpInvariant == Spec => []HttpInv
BY HttpInit, HttpNext, PTL DEF Spec

\* post_fiber (ngx_http_mruby_async.c) always resumes the fiber of the
\* handler its request is parked at, with the status that handler left.
THEOREM TimersResumeOwners == Spec => []TimerResumesOwner
<1>1. HttpInv => TimerResumesOwner
  BY DEF HttpInv, Shape, Local, TimerResumesOwner
<1> QED
  BY <1>1, HttpInvariant, PTL

\* The fiber a timer will resume cannot be collected before (mrb_gc_register
\* in Async.sleep, mrb_gc_unregister at the end of the script).
THEOREM HttpFibersRooted == Spec => []SleepingFiberRooted
<1>1. HttpInv => SleepingFiberRooted
  BY DEF HttpInv, Shape, Local, SleepingFiberRooted
<1> QED
  BY <1>1, HttpInvariant, PTL

\* A request one of whose handlers refused it, at once or after any number
\* of sleeps, is never served nginx's own content.
THEOREM RefusalsHold == Spec => []RefusedNeverServed
<1>1. HttpInv => RefusedNeverServed
  BY DEF HttpInv, Shape, Local, RefusedNeverServed
<1> QED
  BY <1>1, HttpInvariant, PTL

\* A closed request keeps its answer whatever timers and scripts follow.
THEOREM AnswersFinal == Spec => ClosedIsFinal
<1> DEFINE Kept(r) == <<life[r], at[r], status[r], chain[r], sent[r]>>'
                        = <<life[r], at[r], status[r], chain[r], sent[r]>>
           Final == \A r \in Requests : life[r] \in Closed => Kept(r)
<1>1. HttpInv /\ [Next]_vars => [Final]_vars
  <2> SUFFICES ASSUME HttpInv, Next, NEW r \in Requests, life[r] \in Closed PROVE Kept(r)
    OBVIOUS
  <2>1. PICK x \in Requests : Event(x) \/ Terminate(x)
    BY DEF Next
  <2>2. OthersStay(x)
    BY <2>1, RunSafe, TimerSafe, NginxSafe DEF Event
  <2>3. engine # r /\ r \notin timers
    BY DEF HttpInv, Local, Closed
  <2>4. x # r
    BY <2>1, <2>3, RunSafe, TimerSafe, NginxSafe DEF Event
  <2> QED
    BY <2>2, <2>4 DEF OthersStay
<1> QED
  BY <1>1, HttpInvariant, PTL DEF Spec, ClosedIsFinal

\* One global request pointer serves all scripts, and yet the answer of a
\* request changes only in events of its own.
THEOREM EffectsAtHome == Spec => EffectsStayHome
<1> DEFINE Changes(r) == <<status[r], chain[r], sent[r]>>' # <<status[r], chain[r], sent[r]>>
           Own(r) == engine = r \/ (r \in timers /\ (r \notin timers' \/ sleeps'[r] # sleeps[r]))
           Home == \A r \in Requests : Changes(r) => Own(r)
<1>1. HttpInv /\ [Next]_vars => [Home]_vars
  <2> SUFFICES ASSUME HttpInv, Next, NEW r \in Requests, ~Own(r) PROVE ~Changes(r)
    OBVIOUS
  <2>1. PICK x \in Requests : Event(x) \/ Terminate(x)
    BY DEF Next
  <2>2. OthersStay(x)
    BY <2>1, RunSafe, TimerSafe, NginxSafe DEF Event
  <2>3. CASE x # r
    BY <2>2, <2>3 DEF OthersStay
  <2>4. CASE x = r
    <3>1. Arrive(r) \/ Serve(r) \/ Terminate(r)
      BY <2>1, <2>4, RunSafe, TimerSafe DEF Event
    <3> QED
      BY <3>1, NginxSafe
  <2> QED
    BY <2>3, <2>4
<1> QED
  BY <1>1, HttpInvariant, PTL DEF Spec, EffectsStayHome

-----------------------------------------------------------------------------
(* The types.                                                              *)

\* The words headers_out.status may hold: nothing, an answer, or one of the
\* negative codes that nginx's own return codes wrap to.
Answers == {0, Word - 2, Word - 4, Word - 5} \cup (100 .. 599)
ChainStates == {"none", "open", "closed"}

\* What HttpInv leaves of the type invariant.
RestOK ==
    /\ request \in Requests \cup {NoRequest} /\ exc \in BOOLEAN
    /\ life \in [Requests -> {"idle", "running", "asleep"} \cup Closed]
    /\ status \in [Requests -> Answers]
    /\ chain \in [Requests -> ChainStates]
    /\ sent \in [Requests -> {0} \cup (100 .. 599)]
    /\ fiber_proc \in [Requests -> Fibers \cup {NoFiber}]
    /\ re \in [Requests -> [fiber : Fibers \cup {NoFiber}, status : Answers]]
    /\ raised \subseteq Requests /\ refused \subseteq Fibers

\* Nginx.return stores one of those words.
LEMMA ScriptAnswers ==
    ASSUME NEW w \in Writes, NEW st \in Answers, NEW ch \in ChainStates
    PROVE  StatusAfter(st, ch, w) \in Answers /\ ChainAfter(ch, w) \in ChainStates
<1>1. w.code \in {0, -2, -4, -5, 1} \cup (100 .. 599)
  <2>1. w.code \in Codes \cup {NoReturn}
    BY DEF Writes
  <2> QED
    BY <2>1, HttpAssumption DEF NoReturn, NGX_OK, NGX_AGAIN, NGX_DONE, NGX_DECLINED
<1>2. w.code # NoReturn => Stored(w.code) \in Answers
  BY <1>1 DEF Stored, Answers, Word, NoReturn
<1>3. StatusAfter(st, ch, w) \in Answers
  BY <1>2 DEF StatusAfter, ReturnStatus, Answers, HTTP_INTERNAL_SERVER_ERROR
<1>4. ChainAfter(ch, w) \in ChainStates
  BY DEF ChainAfter, ReturnChain, Puts, ChainStates
<1> QED
  BY <1>3, <1>4

\* A script that does nothing leaves what was there.
LEMMA NothingAnswers ==
    ASSUME NEW st \in Answers, NEW ch \in ChainStates
    PROVE  StatusAfter(st, ch, NoWrites) \in Answers /\ ChainAfter(ch, NoWrites) \in ChainStates
BY DEF NoWrites, StatusAfter, ChainAfter, ReturnStatus, ReturnChain, Puts

\* The code that finalize_rputs makes of a status is a status again, or one
\* of nginx's own codes.
LEMMA FinalizeAnswers ==
    ASSUME NEW st \in Answers, NEW ch \in ChainStates
    PROVE  /\ FinalizeRputs(st, ch).rc \in {0, -2, -4, -5} \cup (100 .. 599)
           /\ FinalizeRputs(st, ch).status \in Answers
           /\ FinalizeRputs(st, ch).chain \in ChainStates
<1>1. AsInt(st) \in {0, -2, -4, -5} \cup (100 .. 599)
  BY DEF Answers, AsInt, Word
<1>2. CASE ch = "none"
  BY <1>1, <1>2 DEF FinalizeRputs, NGX_OK
<1>3. CASE ch # "none" /\ (st = HTTP_OK \/ ch = "open")
  BY <1>3 DEF FinalizeRputs, NGX_OK, HTTP_OK, Answers, ChainStates
<1>4. CASE ~(ch = "none") /\ ~(st = HTTP_OK \/ ch = "open")
  BY <1>1, <1>4 DEF FinalizeRputs
<1> QED
  BY <1>2, <1>3, <1>4

\* nginx sends no other status lines.
LEMMA EngineTyped ==
    ASSUME RestOK, NEW r \in Requests, NEW rc \in {0, -2, -4, -5} \cup (100 .. 599), NEW out,
           Proceed(r, rc, out) \/ Wait(r) \/ FinalizeRequest(r, rc, out)
    PROVE  /\ life' \in [Requests -> {"idle", "running", "asleep"} \cup Closed]
           /\ sent' \in [Requests -> {0} \cup (100 .. 599)]
<1>1. life' \in [Requests -> {"idle", "running", "asleep"} \cup Closed]
  <2>1. PICK l \in {"running", "asleep", "finalized"} : life' = [life EXCEPT ![r] = l]
    BY DEF Proceed, Wait, FinalizeRequest
  <2> QED
    BY <2>1 DEF RestOK, Closed
<1>2. ASSUME NEW c \in 100 .. 599
      PROVE  Header(r, c) \in [Requests -> {0} \cup (100 .. 599)]
  BY <1>2 DEF RestOK, Header
<1>3. HTTP_OK \in 100 .. 599 /\ (IsSpecial(rc) => rc \in 100 .. 599)
  BY DEF HTTP_OK, IsSpecial
<1>4. \/ sent' = sent
      \/ sent' = Header(r, HTTP_OK)
      \/ IsSpecial(rc) /\ sent' = Header(r, rc)
  <2>1. CASE Proceed(r, rc, out)
    BY <2>1 DEF Proceed
  <2>2. CASE Wait(r)
    BY <2>2 DEF Wait
  <2>3. CASE FinalizeRequest(r, rc, out)
    BY <2>3 DEF FinalizeRequest
  <2> QED
    BY <2>1, <2>2, <2>3
<1>5. sent' \in [Requests -> {0} \cup (100 .. 599)]
  <2>1. CASE sent' = sent
    BY <2>1 DEF RestOK
  <2>2. CASE sent' = Header(r, HTTP_OK)
    BY <1>2, <1>3, <2>2
  <2>3. CASE IsSpecial(rc) /\ sent' = Header(r, rc)
    BY <1>2, <1>3, <2>3
  <2> QED
    BY <1>4, <2>1, <2>2, <2>3
<1> QED
  BY <1>1, <1>5

\* A script runs in a fiber of its request.
LEMMA ScriptTyped ==
    ASSUME RestOK, NEW r \in Requests, request' = r, NEW f \in Fibers, NEW w, Script(f, w)
    PROVE  fiber_proc' \in [Requests -> Fibers \cup {NoFiber}] /\ refused' \subseteq Fibers
BY DEF RestOK, Script

\* Async.sleep.
LEMMA SleepsTyped ==
    ASSUME RestOK, NEW r \in Requests, request' = r, NEW f \in Fibers, NEW w \in Writes,
           NEW st \in [Requests -> Answers], NEW armed, Sleeps(f, st, w, armed),
           life' \in [Requests -> {"idle", "running", "asleep"} \cup Closed], UNCHANGED sent
    PROVE  RestOK'
<1>1. fiber_proc' \in [Requests -> Fibers \cup {NoFiber}] /\ refused' \subseteq Fibers
  BY ScriptTyped DEF Sleeps
<1>2. StatusAfter(st[r], chain[r], w) \in Answers /\ ChainAfter(chain[r], w) \in ChainStates
  BY ScriptAnswers DEF RestOK
<1>3. status' \in [Requests -> Answers] /\ chain' \in [Requests -> ChainStates]
  BY <1>2 DEF Sleeps, Written, WrittenChain, RestOK
<1>4. re' \in [Requests -> [fiber : Fibers \cup {NoFiber}, status : Answers]]
  <2>1. fiber_proc'[r] \in Fibers \cup {NoFiber} /\ status'[r] \in Answers
    BY <1>1, <1>3
  <2>2. re' = [re EXCEPT ![r] = [fiber |-> fiber_proc'[r], status |-> status'[r]]]
    BY DEF Sleeps
  <2>3. re \in [Requests -> [fiber : Fibers \cup {NoFiber}, status : Answers]]
    BY DEF RestOK
  <2>4. [fiber |-> fiber_proc'[r], status |-> status'[r]]
          \in [fiber : Fibers \cup {NoFiber}, status : Answers]
    BY <2>1
  <2> QED
    BY <2>2, <2>3, <2>4
<1>5. request' \in Requests \cup {NoRequest} /\ exc' \in BOOLEAN /\ raised' \subseteq Requests
  BY DEF RestOK, Sleeps
<1> QED
  BY <1>1, <1>3, <1>4, <1>5 DEF RestOK

\* ngx_mrb_run.
LEMMA RunTyped ==
    ASSUME HttpInv, RestOK, NEW r \in Requests, Run(r)
    PROVE  RestOK'
<1>0. at[r] \in 1 .. N /\ request' = r
  BY DEF Run, RunMeetsStaleExc, RunSleeps, RunReturns, RunRaises, Runs, HttpInv, Shape
<1>1. <<r, at[r]>> \in Fibers
  BY <1>0 DEF Fibers
<1>2. ASSUME NEW w, NEW st \in [Requests -> Answers], RunEnds(r, st, w),
             ChainAfter(chain[r], w) \in ChainStates
      PROVE  /\ life' \in [Requests -> {"idle", "running", "asleep"} \cup Closed]
             /\ sent' \in [Requests -> {0} \cup (100 .. 599)]
             /\ status' \in [Requests -> Answers] /\ chain' \in [Requests -> ChainStates]
             /\ re' = re
  <2> DEFINE ch == WrittenChain(w)
             fin == FinalizeRputs(st[r], ch[r])
  <2>1. ch \in [Requests -> ChainStates]
    BY <1>0, <1>2 DEF WrittenChain, RestOK
  <2>2. /\ status' = [st EXCEPT ![r] = fin.status] /\ chain' = [ch EXCEPT ![r] = fin.chain]
        /\ EngineTakes(r, fin.rc, fin.out) /\ re' = re
    BY <1>2 DEF RunEnds
  <2> HIDE DEF ch
  <2>3. /\ fin.rc \in {0, -2, -4, -5} \cup (100 .. 599)
        /\ fin.status \in Answers /\ fin.chain \in ChainStates
    BY <1>2, <2>1, FinalizeAnswers
  <2> HIDE DEF fin
  <2>4. Proceed(r, fin.rc, fin.out) \/ Wait(r) \/ FinalizeRequest(r, fin.rc, fin.out)
    BY <2>2 DEF EngineTakes
  <2>5. status' \in [Requests -> Answers] /\ chain' \in [Requests -> ChainStates] /\ re' = re
    BY <1>2, <2>1, <2>2, <2>3
  <2>6. /\ life' \in [Requests -> {"idle", "running", "asleep"} \cup Closed]
        /\ sent' \in [Requests -> {0} \cup (100 .. 599)]
    BY <2>3, <2>4, EngineTyped
  <2> QED
    BY <2>5, <2>6
<1>3. CASE RunMeetsStaleExc(r)
  <2>1. Failed(r, status) \in [Requests -> Answers]
    BY DEF Failed, RestOK, HTTP_INTERNAL_SERVER_ERROR, Answers
  <2>2. ChainAfter(chain[r], NoWrites) \in ChainStates
    BY NothingAnswers DEF RestOK
  <2>3. /\ RunEnds(r, Failed(r, status), NoWrites)
        /\ exc' = FALSE /\ UNCHANGED <<fiber_proc, raised, refused>>
    BY <1>3 DEF RunMeetsStaleExc
  <2>4. /\ life' \in [Requests -> {"idle", "running", "asleep"} \cup Closed]
        /\ sent' \in [Requests -> {0} \cup (100 .. 599)]
        /\ status' \in [Requests -> Answers] /\ chain' \in [Requests -> ChainStates]
        /\ re' = re
    BY <1>2, <2>1, <2>2, <2>3
  <2> QED
    BY <1>0, <2>3, <2>4 DEF RestOK
<1>4. ASSUME NEW w \in Writes, RunSleeps(r, w) PROVE RestOK'
  <2>1. /\ Sleeps(<<r, at[r]>>, status, w, timers)
        /\ life' \in [Requests -> {"idle", "running", "asleep"} \cup Closed] /\ UNCHANGED sent
    BY <1>4 DEF RunSleeps, Wait, RestOK
  <2> QED
    BY <1>0, <1>1, <2>1, SleepsTyped DEF RestOK
<1>5. ASSUME NEW w \in Writes, RunReturns(r, w) \/ RunRaises(r, w) PROVE RestOK'
  <2> DEFINE ws == Written(status, w)
  <2>1. StatusAfter(status[r], chain[r], w) \in Answers /\ ChainAfter(chain[r], w) \in ChainStates
    BY ScriptAnswers DEF RestOK
  <2>2. ws \in [Requests -> Answers]
    BY <1>0, <2>1 DEF Written, RestOK
  <2>3. Script(<<r, at[r]>>, w) /\ (RunEnds(r, ws, w) \/ RunEnds(r, Failed(r, ws), w))
        /\ exc' = exc /\ raised' \in {raised, raised \cup {r}}
    BY <1>5 DEF RunReturns, RunRaises
  <2> HIDE DEF ws
  <2>4. Failed(r, ws) \in [Requests -> Answers]
    BY <2>2 DEF Failed, HTTP_INTERNAL_SERVER_ERROR, Answers
  <2>5. fiber_proc' \in [Requests -> Fibers \cup {NoFiber}] /\ refused' \subseteq Fibers
    BY <1>0, <1>1, <2>3, ScriptTyped
  <2>6. /\ life' \in [Requests -> {"idle", "running", "asleep"} \cup Closed]
        /\ sent' \in [Requests -> {0} \cup (100 .. 599)]
        /\ status' \in [Requests -> Answers] /\ chain' \in [Requests -> ChainStates]
        /\ re' = re
    BY <1>2, <2>1, <2>2, <2>3, <2>4
  <2> QED
    BY <1>0, <2>3, <2>5, <2>6 DEF RestOK
<1> QED
  BY <1>3, <1>4, <1>5 DEF Run

\* post_fiber.
LEMMA TimerTyped ==
    ASSUME HttpInv, RestOK, NEW r \in Requests, TimerHandler(r)
    PROVE  RestOK'
<1>0. r \in timers /\ request' = r
  BY DEF TimerHandler, TimerMeetsStaleExc, TimerSleeps, TimerReturns, TimerRaises, Expires, Pushed
<1>1. /\ re[r].fiber = <<r, at[r]>> /\ at[r] \in 1 .. N
      /\ re[r].status \in Answers
  <2>1. re[r] = [fiber |-> <<r, at[r]>>, status |-> status[r]] /\ at[r] \in 1 .. N
    <3>1. N \in Nat /\ at[r] \in 1 .. N + 1 /\ Local(r)
      BY HttpAssumption DEF N, HttpInv, Shape
    <3>2. re[r] = [fiber |-> <<r, at[r]>>, status |-> status[r]] /\ at[r] <= N
      BY <1>0, <3>1 DEF Local
    <3> QED
      BY <3>1, <3>2
  <2> QED
    BY <2>1 DEF RestOK
<1>2. re[r].fiber \in Fibers /\ re[r].fiber[1] = r
  BY <1>1 DEF Fibers
<1>3. Restored(r) \in [Requests -> Answers]
  BY <1>1 DEF Restored, RestOK
<1>4. ASSUME NEW w, TimerEnds(r, w), ChainAfter(chain[r], w) \in ChainStates,
             StatusAfter(Restored(r)[r], chain[r], w) \in Answers
      PROVE  /\ life' \in [Requests -> {"idle", "running", "asleep"} \cup Closed]
             /\ sent' \in [Requests -> {0} \cup (100 .. 599)]
             /\ status' \in [Requests -> Answers] /\ chain' \in [Requests -> ChainStates]
             /\ re' \in [Requests -> [fiber : Fibers \cup {NoFiber}, status : Answers]]
  <2> DEFINE ws == Written(Restored(r), w)
             ch == WrittenChain(w)
             fin == FinalizeRputs(ws[r], ch[r])
  <2>1. ws \in [Requests -> Answers] /\ ch \in [Requests -> ChainStates]
    BY <1>0, <1>3, <1>4 DEF Written, WrittenChain, RestOK
  <2>2. /\ status' = [ws EXCEPT ![r] = IF fin.rc # NGX_OK THEN HTTP_INTERNAL_SERVER_ERROR
                                       ELSE fin.status]
        /\ chain' = [ch EXCEPT ![r] = fin.chain]
        /\ re' = [re EXCEPT ![r].fiber = NoFiber]
        /\ PostFiberTakes(r, fin.rc, fin.out)
    BY <1>4 DEF TimerEnds
  <2> HIDE DEF ws, ch
  <2>3. /\ fin.rc \in {0, -2, -4, -5} \cup (100 .. 599)
        /\ fin.status \in Answers /\ fin.chain \in ChainStates
    BY <2>1, FinalizeAnswers
  <2> HIDE DEF fin
  <2>4. Proceed(r, fin.rc, fin.out) \/ Wait(r) \/ FinalizeRequest(r, fin.rc, fin.out)
    BY <2>2 DEF PostFiberTakes
  <2>5. HTTP_INTERNAL_SERVER_ERROR \in Answers
    BY DEF HTTP_INTERNAL_SERVER_ERROR, Answers
  <2>6. re' \in [Requests -> [fiber : Fibers \cup {NoFiber}, status : Answers]]
    BY <2>2 DEF RestOK
  <2>7. status' \in [Requests -> Answers] /\ chain' \in [Requests -> ChainStates]
    BY <2>1, <2>2, <2>3, <2>5
  <2>8. /\ life' \in [Requests -> {"idle", "running", "asleep"} \cup Closed]
        /\ sent' \in [Requests -> {0} \cup (100 .. 599)]
    BY <2>3, <2>4, EngineTyped
  <2> QED
    BY <2>6, <2>7, <2>8
<1>5. ASSUME NEW w \in Writes, TimerSleeps(r, w) PROVE RestOK'
  <2>1. /\ Sleeps(re[r].fiber, Restored(r), w, timers \ {r}) /\ UNCHANGED <<life, sent>>
    BY <1>5 DEF TimerSleeps
  <2> QED
    BY <1>0, <1>2, <1>3, <2>1, SleepsTyped DEF RestOK
<1>6. ASSUME NEW w \in Writes, TimerReturns(r, w) \/ TimerRaises(r, w) PROVE RestOK'
  <2>1. /\ StatusAfter(Restored(r)[r], chain[r], w) \in Answers
        /\ ChainAfter(chain[r], w) \in ChainStates
    BY <1>3, ScriptAnswers DEF RestOK
  <2>2. /\ Script(re[r].fiber, w) /\ TimerEnds(r, w)
        /\ exc' \in {exc, TRUE} /\ raised' \in {raised, raised \cup {r}}
    BY <1>2, <1>6 DEF TimerReturns, TimerRaises
  <2>4. /\ life' \in [Requests -> {"idle", "running", "asleep"} \cup Closed]
        /\ sent' \in [Requests -> {0} \cup (100 .. 599)]
        /\ status' \in [Requests -> Answers] /\ chain' \in [Requests -> ChainStates]
        /\ re' \in [Requests -> [fiber : Fibers \cup {NoFiber}, status : Answers]]
    BY <1>4, <2>1, <2>2
  <2>5. exc' \in BOOLEAN /\ raised' \subseteq Requests
    BY <2>2 DEF RestOK
  <2>3. fiber_proc' \in [Requests -> Fibers \cup {NoFiber}] /\ refused' \subseteq Fibers
    BY <1>0, <1>2, <2>2, ScriptTyped
  <2> QED
    BY <1>0, <2>3, <2>4, <2>5 DEF RestOK
<1>7. CASE TimerMeetsStaleExc(r)
  <2>1. /\ StatusAfter(Restored(r)[r], chain[r], NoWrites) \in Answers
        /\ ChainAfter(chain[r], NoWrites) \in ChainStates
    BY <1>3, NothingAnswers DEF RestOK
  <2>2. /\ TimerEnds(r, NoWrites) /\ UNCHANGED <<exc, raised, refused>>
        /\ fiber_proc' = [fiber_proc EXCEPT ![r] = re[r].fiber]
    BY <1>0, <1>7 DEF TimerMeetsStaleExc
  <2> QED
    BY <1>0, <1>2, <1>4, <2>1, <2>2 DEF RestOK
<1> QED
  BY <1>5, <1>6, <1>7 DEF TimerHandler

\* Every variable of the worker keeps its type; in particular the status
\* lines sent are http's, although scripts may return nginx's own codes and
\* headers_out.status is unsigned.
THEOREM HttpTyped == Spec => []TypeOK
<1>0. N \in Nat
  BY HttpAssumption DEF N
<1>1. Init => RestOK
  <2>1. 0 \in Answers /\ "none" \in ChainStates
    BY DEF Answers, ChainStates
  <2>2. Init => re \in [Requests -> [fiber : Fibers \cup {NoFiber}, status : Answers]]
    BY <2>1 DEF Init
  <2>3. Init => /\ request \in Requests \cup {NoRequest} /\ exc \in BOOLEAN
                /\ raised \subseteq Requests /\ refused \subseteq Fibers
    BY DEF Init
  <2>4. Init => /\ life \in [Requests -> {"idle", "running", "asleep"} \cup Closed]
                /\ fiber_proc \in [Requests -> Fibers \cup {NoFiber}]
    BY DEF Init
  <2>5. Init => /\ status \in [Requests -> Answers] /\ chain \in [Requests -> ChainStates]
                /\ sent \in [Requests -> {0} \cup (100 .. 599)]
    BY <2>1 DEF Init
  <2> QED
    BY <2>2, <2>3, <2>4, <2>5 DEF RestOK
<1>2. HttpInv /\ RestOK /\ [Next]_vars => RestOK'
  <2> SUFFICES ASSUME HttpInv, RestOK, [Next]_vars PROVE RestOK'
    OBVIOUS
  <2>1. CASE UNCHANGED vars
    BY <2>1 DEF vars, RestOK
  <2>2. ASSUME NEW r \in Requests, Arrive(r) \/ Serve(r) \/ Terminate(r) PROVE RestOK'
    <3>1. /\ UNCHANGED <<request, exc, status, chain, fiber_proc, re, raised, refused>>
          /\ sent' = sent \/ sent' = Header(r, HTTP_OK)
      BY <2>2 DEF Arrive, Serve, Terminate
    <3>2. PICK l \in {"running", "served", "terminated"} : life' = [life EXCEPT ![r] = l]
      BY <2>2 DEF Arrive, Serve, Terminate
    <3>3. life' \in [Requests -> {"idle", "running", "asleep"} \cup Closed]
      BY <3>2 DEF RestOK, Closed
    <3>4. sent' \in [Requests -> {0} \cup (100 .. 599)]
      BY <3>1 DEF RestOK, Header, HTTP_OK
    <3> QED
      BY <3>1, <3>3, <3>4 DEF RestOK
  <2> QED
    BY <2>1, <2>2, RunTyped, TimerTyped DEF Next, Event
<1>3. HttpInv /\ RestOK => TypeOK
  <2>1. Answers \subseteq 0 .. Word - 1
    <3>1. ASSUME NEW a \in Answers PROVE a \in 0 .. Word - 1
      BY DEF Answers, Word
    <3> QED
      BY <3>1
  <2> QED
    BY <2>1 DEF HttpInv, Shape, RestOK, TypeOK, ChainStates
<1> QED
  BY <1>1, <1>2, <1>3, HttpInvariant, PTL DEF Spec
=============================================================================
