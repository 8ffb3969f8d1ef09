-------------------------- MODULE RequestCtxProofs --------------------------
(***************************************************************************)
(* Proofs about RequestCtx.                                                *)
(*                                                                         *)
(* For every configuration the request body is complete before the first   *)
(* script starts, and is read once (BodyInv).                              *)
(*                                                                         *)
(* For every configuration whose handlers wait one after the other         *)
(* (Sequential) the request is always in one of six situations (Turn): at  *)
(* work, sleeping, in a subrequest, reading its body, closing or closed.   *)
(* Each of them fixes the write handler and the number of references; with *)
(* the order in which the scripts have started (Progress) and the targets  *)
(* of the late values (Targets) this is inductive, and the other safety    *)
(* properties follow from it.                                              *)
(***************************************************************************)
EXTENDS RequestCtx, FiniteSetTheorems, TLAPS

Members == {"request_body_more", "read_request_body_done", "sub_response_more",
            "set_var_target"}

\* read_request_body_done is set only with the body there, and while it is
\* being read it has not arrived; scripts have started only once it had.
BodyInv ==
    /\ DOMAIN ctx = Members
    /\ reading => ~arrived
    /\ conf.body # "off" =>
         /\ ctx.read_request_body_done => arrived
         /\ fibers # <<>> => arrived

\* A step that leaves the body alone and starts no script.
LEMMA BodyKept ==
    ASSUME BodyInv, UNCHANGED <<conf, arrived, reading>>, DOMAIN ctx' = Members,
           ctx'.read_request_body_done = ctx.read_request_body_done,
           fibers' # <<>> => fibers # <<>>
    PROVE  BodyInv'
BY DEF BodyInv

\* A script that starts finds the body there, whoever read it.
LEMMA StartStep ==
    ASSUME BodyInv, Runs, Run
    PROVE  BodyInv'
<1>1. CASE RunAwaitsBody
  <2>1. fibers' = fibers /\ conf' = conf /\ arrived' = arrived /\ ~arrived
    BY <1>1 DEF RunAwaitsBody
  <2>2. DOMAIN ctx' = Members /\ ctx'.read_request_body_done = FALSE
    BY <1>1 DEF RunAwaitsBody, AwaitingBody, BodyInv, Members
  <2> QED
    BY <2>1, <2>2 DEF BodyInv
<1>2. ASSUME NEW more, ctx' = [Targeted(BodyRead) EXCEPT !.sub_response_more = more],
             Starts, UNCHANGED <<conf, arrived, reading>>
      PROVE  BodyInv'
  <2>1. conf.body # "off" => arrived
    BY <1>2 DEF Starts, NeedsBody, BodyInv
  <2>2. DOMAIN Targeted(BodyRead) = Members
    BY DEF Targeted, BodyRead, BodyInv, Members
  <2>3. DOMAIN ctx' = Members
    BY <1>2, <2>2
  <2> QED
    BY <1>2, <2>1, <2>3 DEF BodyInv
<1>3. ASSUME NEW plan, RunWaits(plan)
      PROVE  BodyInv'
  BY <1>2, <1>3 DEF RunWaits
<1>4. ASSUME NEW code, RunEnds(code)
      PROVE  BodyInv'
  BY <1>2, <1>4 DEF RunEnds
<1> QED
  BY <1>1, <1>3, <1>4 DEF Run

\* The callback of the reading, or the failure to read.
LEMMA ReadStep ==
    ASSUME BodyInv, ReadRequestBodyCb \/ BodyFails
    PROVE  BodyInv'
<1>1. CASE ReadRequestBodyCb
  BY <1>1 DEF ReadRequestBodyCb, BodyInv, Members
<1>2. CASE BodyFails
  BY <1>2 DEF BodyFails, BodyInv
<1> QED
  BY <1>1, <1>2

\* A fiber that is resumed was started before.
LEMMA ResumeStep ==
    ASSUME BodyInv, NEW w \in waits, Resume(w)
    PROVE  BodyInv'
<1>1. ASSUME Again(w)
      PROVE  /\ DOMAIN ctx' = Members
             /\ ctx'.read_request_body_done = ctx.read_request_body_done
             /\ fibers' # <<>> => fibers # <<>>
  BY <1>1 DEF Again, BodyInv, Members
<1>2. CASE TimerAgain(w) \/ SubAgain(w)
  BY <1>1, <1>2, BodyKept DEF TimerAgain, SubAgain
<1>3. ASSUME NEW code, TimerEnds(w, code)
      PROVE  BodyInv'
  BY <1>3, BodyKept DEF TimerEnds, Over, BodyInv
<1>4. ASSUME NEW code, SubEnds(w, code)
      PROVE  BodyInv'
  BY <1>4, BodyKept DEF SubEnds, Over, BodyInv, Members
<1> QED
  BY <1>2, <1>3, <1>4 DEF Resume

\* mruby_enable_read_request_body: no script starts before the body is
\* complete, and its reading is over when it counts as done, for whatever
\* handlers a location has and however they wait.
THEOREM BodyComesFirst == Spec => []BodyBeforeScripts
<1>1. Init => BodyInv
  BY DEF Init, BodyInv, Members
<1>2. BodyInv /\ [Next]_vars => BodyInv'
  <2> SUFFICES ASSUME BodyInv, [Next]_vars PROVE BodyInv'
    OBVIOUS
  <2>1. CASE UNCHANGED vars
    BY <2>1 DEF vars, BodyInv
  <2>2. CASE Serve \/ SubFinalized \/ RunPosted
    BY <2>2, BodyKept DEF Serve, SubFinalized, RunPosted, BodyInv
  <2> QED
    BY <2>1, <2>2, StartStep, ReadStep, ResumeStep DEF Next, Event
<1>3. BodyInv => BodyBeforeScripts
  BY DEF BodyInv, BodyBeforeScripts
<1> QED
  BY <1>1, <1>2, <1>3, PTL DEF Spec

-----------------------------------------------------------------------------
(* Requests whose handlers wait one after the other.                       *)

FiberRecord == [at : Nat, ip : Nat, left : Seq({"sleep", "sub"})]

Typed ==
    /\ conf \in Configs
    /\ Sequential(conf)
    /\ fibers \in Seq(FiberRecord)
    /\ ctx \in [request_body_more : BOOLEAN, read_request_body_done : BOOLEAN,
                sub_response_more : BOOLEAN, set_var_target : Variables \cup {NoVar}]
    /\ arrived \in BOOLEAN
    /\ conf.body = "early" => arrived

\* Fiber i was started before the script <<a, s>>.
Before(i, a, s) == fibers[i].at < a \/ (fibers[i].at = a /\ fibers[i].ip < s)

\* The script the engine is at is the first one that has not been started.
Progress ==
    /\ at \in 1 .. N + 1 /\ ip \in Nat \ {0} /\ ~estatus
    /\ \A i \in 1 .. Len(fibers) :
         /\ fibers[i].at \in 1 .. N /\ fibers[i].at <= at
         /\ fibers[i].ip \in 1 .. Len(conf.handlers[fibers[i].at].scripts)
    /\ fibers = <<>> => at = 1 /\ ip = 1
    /\ engine /\ at <= N => ip <= Len(Scripts)
    /\ \A i, j \in 1 .. Len(fibers) : i < j => Before(i, fibers[j].at, fibers[j].ip)
    /\ engine => \A i \in 1 .. Len(fibers) : Before(i, at, ip)
    /\ \A k \in 1 .. at - 1 : \E i \in 1 .. Len(fibers) : fibers[i].at = k

\* What the assumption says of a configuration.
LEMMA ConfType ==
    ASSUME conf \in Configs
    PROVE  /\ N \in Nat /\ conf.body \in {"off", "early", "late"}
           /\ \A k \in 1 .. N :
                /\ conf.handlers[k].phase \in Phases
                /\ Len(conf.handlers[k].scripts) \in Nat \ {0}
                /\ \A i \in 1 .. Len(conf.handlers[k].scripts) :
                     /\ IF conf.handlers[k].phase = "set"
                        THEN conf.handlers[k].scripts[i].target \in Variables
                        ELSE conf.handlers[k].scripts[i].target = NoVar
                     /\ \A plan \in conf.handlers[k].scripts[i].plans :
                          plan \in Seq({"sleep", "sub"})
<1>1. /\ Len(conf.handlers) \in Nat /\ conf.body \in {"off", "early", "late"}
      /\ \A k \in 1 .. Len(conf.handlers) : IsHandler(conf.handlers[k])
  BY RequestAssumption DEF RequestAssumption
<1>2. ASSUME NEW k \in 1 .. N
      PROVE  /\ conf.handlers[k].phase \in Phases
             /\ Len(conf.handlers[k].scripts) \in Nat \ {0}
             /\ \A i \in 1 .. Len(conf.handlers[k].scripts) :
                  IsScript(conf.handlers[k].phase, conf.handlers[k].scripts[i])
  <2>1. IsHandler(conf.handlers[k])
    BY <1>1 DEF N
  <2>2. CASE conf.handlers[k].phase = "set"
    BY <2>1, <2>2 DEF IsHandler
  <2>3. CASE conf.handlers[k].phase # "set"
    <3>1. /\ conf.handlers[k].phase \in Phases /\ Len(conf.handlers[k].scripts) = 1
          /\ \A i \in 1 .. Len(conf.handlers[k].scripts) :
               IsScript(conf.handlers[k].phase, conf.handlers[k].scripts[i])
      BY <2>1, <2>3 DEF IsHandler
    <3>2. 1 \in Nat \ {0}
      OBVIOUS
    <3> QED
      BY <3>1, <3>2
  <2> QED
    BY <2>2, <2>3
<1>3. ASSUME NEW k \in 1 .. N, NEW i \in 1 .. Len(conf.handlers[k].scripts)
      PROVE  /\ IF conf.handlers[k].phase = "set"
                THEN conf.handlers[k].scripts[i].target \in Variables
                ELSE conf.handlers[k].scripts[i].target = NoVar
             /\ \A plan \in conf.handlers[k].scripts[i].plans :
                  plan \in Seq({"sleep", "sub"})
  BY <1>2 DEF IsScript
<1> QED
  BY <1>1, <1>2, <1>3 DEF N

\* A script that has been started is the last fiber.
LEMMA StartedIs ==
    ASSUME fibers \in Seq(FiberRecord), at \in Nat, ip \in Nat,
           NEW left \in Seq({"sleep", "sub"}), fibers' = Started(left)
    PROVE  /\ fibers' \in Seq(FiberRecord)
           /\ Len(fibers) \in Nat /\ Len(fibers') = Len(fibers) + 1
           /\ fibers' # <<>>
           /\ fibers'[Len(fibers) + 1] = [at |-> at, ip |-> ip, left |-> left]
           /\ \A i \in 1 .. Len(fibers) : fibers'[i] = fibers[i]
<1>1. [at |-> at, ip |-> ip, left |-> left] \in FiberRecord
  BY DEF FiberRecord
<1> QED
  BY <1>1 DEF Started

\* The script the engine is at has started; the engine stops, goes on to the
\* next script of a set block, or to the next handler.
LEMMA ProgressStarts ==
    ASSUME Typed, Progress, engine, at <= N,
           NEW left \in Seq({"sleep", "sub"}), fibers' = Started(left),
           conf' = conf, ~estatus',
           \/ ~engine' /\ at' = at /\ ip' \in Nat \ {0}
           \/ engine' /\ at' = at /\ ip' = ip + 1 /\ ip < Len(Scripts)
           \/ engine' /\ at' = at + 1 /\ ip' = 1
    PROVE  Progress'
<1>0. /\ N \in Nat /\ N' = N /\ at \in 1 .. N /\ ip \in Nat \ {0}
      /\ \A k \in 1 .. N : Len(conf.handlers[k].scripts) \in Nat \ {0}
      /\ Len(Scripts) \in Nat \ {0} /\ ip \in 1 .. Len(Scripts)
  <2>1. N \in Nat /\ \A k \in 1 .. N : Len(conf.handlers[k].scripts) \in Nat \ {0}
    BY ConfType DEF Typed
  <2>2. N' = N
    BY DEF N
  <2>3. at \in 1 .. N /\ ip \in Nat \ {0} /\ ip <= Len(Scripts)
    BY <2>1 DEF Progress
  <2>4. Len(Scripts) \in Nat \ {0}
    BY <2>1, <2>3 DEF Scripts
  <2> QED
    BY <2>1, <2>2, <2>3, <2>4
<1>1. /\ Len(fibers) \in Nat /\ Len(fibers') = Len(fibers) + 1
      /\ fibers' # <<>>
      /\ fibers'[Len(fibers) + 1] = [at |-> at, ip |-> ip, left |-> left]
      /\ \A i \in 1 .. Len(fibers) : fibers'[i] = fibers[i]
  BY <1>0, StartedIs DEF Typed
<1> DEFINE L == Len(fibers)
<1>2. \A i \in 1 .. Len(fibers') : (i \in 1 .. L) \/ i = L + 1
  BY <1>1
<1>3. fibers'[L + 1].at = at /\ fibers'[L + 1].ip = ip
  BY <1>1
<1>4. \A i \in 1 .. L : /\ fibers[i].at \in 1 .. N /\ fibers[i].at <= at
                        /\ fibers[i].ip \in 1 .. Len(conf.handlers[fibers[i].at].scripts)
                        /\ fibers[i].ip \in Nat
  BY <1>0 DEF Progress
<1>5. \A i \in 1 .. L : Before(i, at, ip)
  BY DEF Progress
<1>a. at' \in 1 .. N + 1 /\ ip' \in Nat \ {0} /\ at' \in {at, at + 1}
  BY <1>0
<1>b. ASSUME NEW i \in 1 .. Len(fibers')
      PROVE  /\ fibers'[i].at \in 1 .. N /\ fibers'[i].at <= at'
             /\ fibers'[i].ip \in 1 .. Len(conf.handlers[fibers'[i].at].scripts)
  <2>1. CASE i \in 1 .. L
    <3>1. /\ fibers'[i] = fibers[i] /\ fibers[i].at \in 1 .. N /\ fibers[i].at <= at
          /\ fibers[i].ip \in 1 .. Len(conf.handlers[fibers[i].at].scripts)
      BY <1>1, <1>4, <2>1
    <3>2. fibers[i].at <= at'
      BY <1>0, <1>a, <3>1
    <3> QED
      BY <3>1, <3>2
  <2>2. CASE i = L + 1
    <3>1. fibers'[i].at = at /\ fibers'[i].ip = ip
      BY <1>3, <2>2
    <3>2. at <= at'
      BY <1>0, <1>a
    <3>3. ip \in 1 .. Len(conf.handlers[at].scripts)
      BY <1>0 DEF Scripts
    <3> QED
      BY <1>0, <3>1, <3>2, <3>3
  <2> QED
    BY <1>2, <2>1, <2>2
<1>c. engine' /\ at' <= N' => ip' <= Len(Scripts')
  <2>1. CASE at' = at
    BY <1>0, <2>1 DEF Scripts
  <2>2. CASE at' # at /\ at' <= N
    <3>1. at' \in 1 .. N /\ (engine' => ip' = 1)
      BY <1>0, <2>2
    <3>2. Len(Scripts') \in Nat \ {0}
      BY <1>0, <3>1 DEF Scripts
    <3> QED
      BY <3>1, <3>2
  <2> QED
    BY <1>0, <2>1, <2>2
<1>d. ASSUME NEW i \in 1 .. Len(fibers'), NEW j \in 1 .. Len(fibers'), i < j
      PROVE  Before(i, fibers[j].at, fibers[j].ip)'
  <2>1. CASE j \in 1 .. L
    <3>1. i \in 1 .. L
      BY <1>1, <1>d, <2>1
    <3>2. Before(i, fibers[j].at, fibers[j].ip)
      BY <1>d, <2>1, <3>1 DEF Progress
    <3> QED
      BY <1>1, <2>1, <3>1, <3>2 DEF Before
  <2>2. CASE j = L + 1
    <3>1. i \in 1 .. L
      BY <1>1, <1>d, <2>2
    <3> QED
      BY <1>1, <1>3, <1>5, <2>2, <3>1 DEF Before
  <2> QED
    BY <1>2, <2>1, <2>2
<1>e. ASSUME engine', NEW i \in 1 .. Len(fibers')
      PROVE  Before(i, at, ip)'
  <2>1. CASE i \in 1 .. L
    <3>1. Before(i, at, ip) /\ fibers'[i] = fibers[i]
      BY <1>1, <1>5, <2>1
    <3> QED
      BY <1>0, <1>4, <1>e, <2>1, <3>1 DEF Before
  <2>2. CASE i = L + 1
    BY <1>0, <1>3, <1>e, <2>2 DEF Before
  <2> QED
    BY <1>2, <2>1, <2>2
<1>f. ASSUME NEW k \in 1 .. at' - 1
      PROVE  \E i \in 1 .. Len(fibers') : fibers'[i].at = k
  <2>1. CASE k = at
    BY <1>1, <1>3, <2>1
  <2>2. CASE k # at
    <3>1. k \in 1 .. at - 1
      <4>1. \A a, b \in Int : \A j \in 1 .. b - 1 :
              (b = a \/ b = a + 1) /\ j # a => j \in 1 .. a - 1
        OBVIOUS
      <4>2. at \in Int /\ at' \in Int /\ (at' = at \/ at' = at + 1)
        BY <1>0, <1>a
      <4> QED
        BY <2>2, <4>1, <4>2, Zenon
    <3>2. PICK i \in 1 .. L : fibers[i].at = k
      BY <3>1 DEF Progress
    <3> QED
      BY <1>1, <3>2
  <2> QED
    BY <2>1, <2>2
<1> QED
  BY <1>0, <1>1, <1>a, <1>b, <1>c, <1>d, <1>e, <1>f DEF Progress

\* No script starts: fibers keep their places, and the engine stops or goes
\* on to the next handler, its own having been started.
LEMMA ProgressKept ==
    ASSUME Typed, Progress, conf' = conf, ~estatus',
           Len(fibers') = Len(fibers), fibers' = <<>> => fibers = <<>>,
           \A i \in 1 .. Len(fibers) : fibers'[i].at = fibers[i].at
                                       /\ fibers'[i].ip = fibers[i].ip,
           \/ ~engine' /\ at' = at /\ ip' = ip
           \/ engine /\ engine' /\ at' = at /\ ip' = ip
           \/ ~engine' /\ at' = at /\ ip' = 1
           \/ /\ at' = at + 1 /\ ip' = 1 /\ at <= N
              /\ \E i \in 1 .. Len(fibers) : fibers[i].at = at
           \/ at' = at /\ ip' = ip /\ fibers = <<>>
    PROVE  Progress'
<1>0. /\ N \in Nat /\ N' = N /\ at \in 1 .. N + 1 /\ ip \in Nat \ {0}
      /\ \A k \in 1 .. N : Len(conf.handlers[k].scripts) \in Nat \ {0}
      /\ Len(fibers) \in Nat
  BY ConfType DEF Typed, Progress, N
<1>1. \A i \in 1 .. Len(fibers) :
         /\ fibers[i].at \in 1 .. N /\ fibers[i].at <= at /\ fibers[i].at \in Int
         /\ fibers[i].ip \in 1 .. Len(conf.handlers[fibers[i].at].scripts)
  BY <1>0 DEF Progress
<1>a. at' \in 1 .. N + 1 /\ ip' \in Nat \ {0} /\ at' \in {at, at + 1}
  BY <1>0
<1>b. \A i \in 1 .. Len(fibers') :
         /\ fibers'[i].at \in 1 .. N /\ fibers'[i].at <= at'
         /\ fibers'[i].ip \in 1 .. Len(conf.handlers[fibers'[i].at].scripts)
  <2> SUFFICES ASSUME NEW i \in 1 .. Len(fibers)
               PROVE  /\ fibers[i].at \in 1 .. N /\ fibers[i].at <= at'
                      /\ fibers[i].ip \in 1 .. Len(conf.handlers[fibers[i].at].scripts)
    OBVIOUS
  <2>1. fibers[i].at <= at'
    BY <1>0, <1>1, <1>a
  <2> QED
    BY <1>1, <2>1
<1>c. engine' /\ at' <= N' => ip' <= Len(Scripts')
  <2>1. ASSUME at' <= N, engine'
        PROVE  ip' <= Len(Scripts')
    <3>1. Len(Scripts') \in Nat \ {0}
      BY <1>0, <1>a, <2>1 DEF Scripts
    <3>2. CASE ip' = 1
      BY <3>1, <3>2
    <3>3. CASE engine /\ at' = at /\ ip' = ip
      BY <1>0, <2>1, <3>3 DEF Progress, Scripts
    <3>4. CASE fibers = <<>> /\ at' = at /\ ip' = ip
      BY <3>1, <3>4 DEF Progress
    <3> QED
      BY <2>1, <3>2, <3>3, <3>4
  <2> QED
    BY <1>0, <2>1
<1>d. \A i, j \in 1 .. Len(fibers') : i < j => Before(i, fibers[j].at, fibers[j].ip)'
  BY DEF Progress, Before
<1>e. ASSUME engine', NEW i \in 1 .. Len(fibers')
      PROVE  Before(i, at, ip)'
  <2>1. CASE at' = at + 1
    BY <1>0, <1>1, <2>1 DEF Before
  <2>2. CASE engine /\ at' = at /\ ip' = ip
    BY <2>2 DEF Progress, Before
  <2>3. CASE fibers = <<>>
    BY <2>3
  <2> QED
    BY <1>e, <2>1, <2>2, <2>3
<1>f. ASSUME NEW k \in 1 .. at' - 1
      PROVE  \E i \in 1 .. Len(fibers') : fibers'[i].at = k
  <2>1. \E i \in 1 .. Len(fibers) : fibers[i].at = k
    <3>1. CASE k \in 1 .. at - 1
      BY <3>1 DEF Progress
    <3>2. CASE k \notin 1 .. at - 1
      BY <1>0, <3>2
    <3> QED
      BY <3>1, <3>2
  <2> QED
    BY <2>1
<1>g. fibers' = <<>> => at' = 1 /\ ip' = 1
  <2>1. ASSUME fibers' = <<>> PROVE at' = 1 /\ ip' = 1
    <3>1. fibers = <<>> /\ Len(fibers) = 0
      BY <2>1
    <3> QED
      BY <3>1 DEF Progress
  <2> QED
    BY <2>1
<1> QED
  BY <1>0, <1>a, <1>b, <1>c, <1>d, <1>e, <1>f, <1>g DEF Progress

-----------------------------------------------------------------------------
Flags == {estatus, engine, posted, ending, arrived, reading} \subseteq BOOLEAN

Ended == IF ending THEN 1 ELSE 0
LastFiber == fibers[Len(fibers)]
TargetOf(f) == conf.handlers[f.at].scripts[f.ip].target

\* The phases run; after a subrequest its end is still to come, and so no
\* further handler may wait.
Working ==
    /\ engine /\ life = "open" /\ waits = {} /\ ~reading /\ ~posted
    /\ \/ ~ending /\ wev = "phases" /\ dropped = 0 /\ count = 1
       \/ /\ ending /\ wev = "writer" /\ fibers # <<>>
          /\ dropped \in 0 .. 2 /\ count = 2 - dropped
          /\ \A k \in at .. N : ~MayWait(conf, k)

\* The script started last waits, and nothing else.
Waits(kind) ==
    /\ ~engine /\ life = "open" /\ ~reading /\ at <= N
    /\ fibers # <<>> /\ LastFiber.at = at
    /\ waits = {WaitFor(Len(fibers), kind)}
    /\ LastFiber.left \in Seq({kind})

\* A timer is armed.  What its script yields may go to set_var_target.
Sleeping ==
    /\ Waits("sleep")
    /\ ~posted /\ ~ending /\ wev = "phases" /\ dropped = 0 /\ count = 1
    /\ ctx.set_var_target \in {NoVar, TargetOf(LastFiber)}

\* A subrequest is in flight, and the one before it may be at its end.
Subbing ==
    /\ Waits("sub")
    /\ wev = "writer" /\ count = 2 + Ended - dropped
    /\ dropped \in Nat /\ dropped + Len(LastFiber.left) <= 2
    /\ \A k \in at + 1 .. N : ~MayWait(conf, k)

\* The first handler has asked for the body.
Reading ==
    /\ ~engine /\ life = "open" /\ waits = {} /\ reading
    /\ ~posted /\ ~ending /\ wev = "phases" /\ dropped = 0 /\ count = 2
    /\ ctx.request_body_more /\ fibers = <<>>

\* All is done but for the end of a subrequest, which posts the request.
Closing ==
    /\ ~engine /\ life = "open" /\ waits = {} /\ ~reading
    /\ ending \/ posted
    /\ wev = "writer" /\ dropped \in 0 .. 2 /\ count = (1 + Ended - dropped) % Word

\* The request has given up its reference.
Closed ==
    /\ ~engine /\ waits = {} /\ ~reading /\ ~posted /\ ~ending
    /\ wev = "empty" \/ life = "freed"
    /\ dropped \in 0 .. 2 /\ count = (0 - dropped) % Word

Turn == Working \/ Sleeping \/ Subbing \/ Reading \/ Closing \/ Closed

\* Assigned are scripts of set blocks, whose targets they are.
Targets ==
    /\ variable \in [Variables -> 0 .. Len(fibers)]
    /\ OwnVariables
    /\ ctx.set_var_target # NoVar =>
         \E k \in 1 .. N : k <= at /\ conf.handlers[k].phase = "set"

\* The inductive invariant.
TurnInv == BodyInv /\ Typed /\ Flags /\ Progress /\ Turn /\ Targets

-----------------------------------------------------------------------------
(* The handlers run.                                                       *)

\* What holds when the engine is at a script.
LEMMA AtScript ==
    ASSUME TurnInv, Runs
    PROVE  /\ Working /\ engine /\ N \in Nat /\ at \in 1 .. N /\ ip \in 1 .. Len(Scripts)
           /\ Len(Scripts) \in Nat \ {0} /\ Len(fibers) \in Nat
           /\ Phase \in Phases /\ conf \in Configs
<1>1. engine /\ N \in Nat /\ at \in 1 .. N /\ conf \in Configs
  BY ConfType DEF TurnInv, Typed, Progress, Runs
<1>2. Working
  BY <1>1 DEF TurnInv, Turn, Waits, Sleeping, Subbing, Reading, Closing, Closed
<1>3. Len(Scripts) \in Nat \ {0} /\ Phase \in Phases
  BY <1>1, ConfType DEF Scripts, Phase
<1>4. ip \in 1 .. Len(Scripts)
  BY <1>1, <1>3 DEF TurnInv, Progress
<1> QED
  BY <1>1, <1>2, <1>3, <1>4 DEF TurnInv, Typed

\* Only the first handler asks for the body, in a phase that waits for it.
LEMMA AwaitStep ==
    ASSUME TurnInv, Runs, RunAwaitsBody
    PROVE  TurnInv'
<1>1. /\ Working /\ engine /\ N \in Nat /\ at \in 1 .. N /\ ip \in 1 .. Len(Scripts)
      /\ Len(Scripts) \in Nat \ {0} /\ Phase \in Phases /\ conf \in Configs
  BY AtScript
<1>2. conf.body # "off" /\ ~arrived
  BY DEF RunAwaitsBody, NeedsBody
<1>3. fibers = <<>> /\ at = 1 /\ ip = 1
  BY <1>2 DEF TurnInv, BodyInv, Progress
<1>4. conf.body = "late"
  BY <1>1, <1>2, ConfType DEF TurnInv, Typed
<1>5. Phase \in GenericPhases
  <2>1. Sequential(conf) /\ Len(conf.handlers) > 0
    BY <1>1, <1>3 DEF TurnInv, Typed, N
  <2> QED
    BY <1>3, <1>4, <2>1 DEF Sequential, Phase
<1>6. /\ ~engine' /\ at' = at /\ ip' = 1 /\ ~estatus' /\ estatus' \in BOOLEAN
      /\ engine' \in BOOLEAN
      /\ count' = count + 1 /\ wev' = wev /\ life' = life
  <2>1. EngineTakes(NGX_AGAIN, count + 1)
    BY DEF RunAwaitsBody
  <2>2. Wait(count + 1)
    BY <1>5, <2>1 DEF EngineTakes, GenericPhases, NGX_AGAIN, NGX_OK, NGX_DONE, NGX_DECLINED
  <2> QED
    BY <2>2 DEF Wait
<1>7. /\ UNCHANGED <<conf, posted, ending, arrived, waits, fibers, variable, dropped>>
      /\ reading' = TRUE /\ ctx' = AwaitingBody
  BY DEF RunAwaitsBody
<1>8. Working /\ ~ending /\ wev = "phases" /\ dropped = 0 /\ count = 1
  BY <1>1, <1>3 DEF Working
<1>a. BodyInv'
  BY StartStep DEF TurnInv, Run
<1>b. ctx' \in [request_body_more : BOOLEAN, read_request_body_done : BOOLEAN,
                sub_response_more : BOOLEAN, set_var_target : Variables \cup {NoVar}]
      /\ ctx'.request_body_more = TRUE /\ ctx'.set_var_target = ctx.set_var_target
  BY <1>7 DEF TurnInv, Typed, AwaitingBody
<1>c. Typed' /\ Flags'
  BY <1>6, <1>7, <1>b DEF TurnInv, Typed, Flags
<1>d. Progress'
  BY <1>6, <1>7, ProgressKept DEF TurnInv
<1>e. Reading'
  BY <1>3, <1>6, <1>7, <1>8, <1>b DEF Reading, Working
<1>f. Targets'
  BY <1>6, <1>7, <1>b DEF TurnInv, Targets, OwnVariables, N
<1> QED
  BY <1>a, <1>c, <1>d, <1>e, <1>f DEF TurnInv, Turn

-----------------------------------------------------------------------------
\* A started script that waits is, in a configuration whose handlers wait one
\* after the other, the last of its handler, and sleeps or makes subrequests.
LEMMA PlanIs ==
    ASSUME TurnInv, Runs, NEW plan \in Scripts[ip].plans, plan # <<>>
    PROVE  /\ plan \in Seq({"sleep", "sub"}) /\ Len(plan) \in Nat \ {0}
           /\ ~ending /\ wev = "phases" /\ dropped = 0 /\ count = 1
           /\ Phase # "content" /\ ip = Len(Scripts)
           /\ \/ /\ plan \in Seq({"sleep"})
                 /\ Phase # "set" => \A j \in 1 .. at - 1 : conf.handlers[j].phase # "set"
              \/ /\ plan \in Seq({"sub"}) /\ Len(plan) <= 3 /\ Phase = "rewrite"
                 /\ \A j \in at + 1 .. N : ~MayWait(conf, j)
<1>1. /\ Working /\ at \in 1 .. N /\ ip \in 1 .. Len(Scripts) /\ N \in Nat /\ conf \in Configs
  BY AtScript
<1>2. plan \in Seq({"sleep", "sub"})
  BY <1>1, ConfType DEF Scripts
<1>3. Len(plan) \in Nat \ {0}
  BY <1>2
<1>4. MayWait(conf, at)
  BY <1>1 DEF MayWait, Scripts
<1>5. ~ending /\ wev = "phases" /\ dropped = 0 /\ count = 1
  <2>1. at \in at .. N
    BY <1>1
  <2> QED
    BY <1>1, <1>4, <2>1 DEF Working
<1>6. /\ Phase # "content" /\ ip = Len(Scripts)
      /\ \/ /\ plan \in Seq({"sleep"})
            /\ Phase # "set" => \A j \in 1 .. at - 1 : conf.handlers[j].phase # "set"
         \/ /\ plan \in Seq({"sub"}) /\ Len(plan) <= 3 /\ Phase = "rewrite"
            /\ \A j \in at + 1 .. N : ~MayWait(conf, j)
  <2>1. Sequential(conf) /\ at \in 1 .. Len(conf.handlers)
        /\ ip \in 1 .. Len(conf.handlers[at].scripts)
        /\ plan \in conf.handlers[at].scripts[ip].plans
    BY <1>1 DEF TurnInv, Typed, N, Scripts
  <2> QED
    BY <2>1 DEF Sequential, Phase, Scripts, N
<1> QED
  BY <1>2, <1>3, <1>5, <1>6

\* The context of the script that starts.
LEMMA StartedCtx ==
    ASSUME TurnInv, Runs, NEW more \in BOOLEAN,
           ctx' = [Targeted(BodyRead) EXCEPT !.sub_response_more = more]
    PROVE  /\ ctx' \in [request_body_more : BOOLEAN, read_request_body_done : BOOLEAN,
                        sub_response_more : BOOLEAN, set_var_target : Variables \cup {NoVar}]
           /\ ctx'.sub_response_more = more
           /\ ctx'.set_var_target = IF Phase = "set" THEN Scripts[ip].target
                                    ELSE ctx.set_var_target
<1> DEFINE C == [request_body_more : BOOLEAN, read_request_body_done : BOOLEAN,
                 sub_response_more : BOOLEAN, set_var_target : Variables \cup {NoVar}]
<1>1. ctx \in C
  BY DEF TurnInv, Typed
<1>2. Phase = "set" => Scripts[ip].target \in Variables
  BY AtScript, ConfType DEF Phase, Scripts
<1>3. BodyRead \in C /\ BodyRead.set_var_target = ctx.set_var_target
  BY <1>1 DEF BodyRead
<1>4. Targeted(BodyRead) \in C
      /\ Targeted(BodyRead).set_var_target = IF Phase = "set" THEN Scripts[ip].target
                                             ELSE ctx.set_var_target
  BY <1>2, <1>3 DEF Targeted
<1> QED
  BY <1>4

\* Variables keep their scripts when another one starts.
LEMMA TargetsGrow ==
    ASSUME TurnInv, Runs, NEW left \in Seq({"sleep", "sub"}), fibers' = Started(left),
           conf' = conf, at' \in {at, at + 1}, variable' = variable,
           ctx'.set_var_target \in {ctx.set_var_target, Scripts[ip].target},
           Phase = "set" \/ ctx'.set_var_target = ctx.set_var_target
    PROVE  Targets'
<1>1. /\ at \in 1 .. N /\ N \in Nat /\ N' = N
      /\ fibers \in Seq(FiberRecord) /\ ip \in Nat
  BY AtScript DEF TurnInv, Typed, Progress, N
<1>2. /\ Len(fibers) \in Nat /\ Len(fibers') = Len(fibers) + 1
      /\ \A i \in 1 .. Len(fibers) : fibers'[i] = fibers[i]
  <2>1. at \in Nat
    BY <1>1
  <2> QED
    BY <1>1, <2>1, StartedIs
<1>3. variable \in [Variables -> 0 .. Len(fibers)] /\ OwnVariables
  BY DEF TurnInv, Targets
<1>4. variable' \in [Variables -> 0 .. Len(fibers')]
  <2>1. 0 .. Len(fibers) \subseteq 0 .. Len(fibers')
    BY <1>2
  <2> QED
    BY <1>3, <2>1
<1>5. OwnVariables'
  <2> SUFFICES ASSUME NEW x \in Variables, variable[x] # 0
               PROVE  conf.handlers[fibers'[variable[x]].at].scripts[fibers'[variable[x]].ip].target = x
    BY DEF OwnVariables
  <2>1. variable[x] \in 1 .. Len(fibers)
    BY <1>2, <1>3
  <2> QED
    BY <1>2, <1>3, <2>1 DEF OwnVariables
<1>6. ASSUME ctx'.set_var_target # NoVar
      PROVE  \E k \in 1 .. N : k <= at' /\ conf.handlers[k].phase = "set"
  <2>1. CASE Phase = "set"
    BY <1>1, <2>1 DEF Phase
  <2>2. CASE Phase # "set"
    <3>1. PICK k \in 1 .. N : k <= at /\ conf.handlers[k].phase = "set"
      BY <1>6, <2>2 DEF TurnInv, Targets
    <3>2. k <= at'
      BY <1>1, <3>1
    <3> QED
      BY <3>1, <3>2
  <2> QED
    BY <2>1, <2>2
<1> QED
  BY <1>1, <1>4, <1>5, <1>6 DEF Targets

\* A script waits: nothing else does until it goes on.
LEMMA WaitStep ==
    ASSUME TurnInv, Runs, NEW plan \in Scripts[ip].plans, RunWaits(plan)
    PROVE  TurnInv'
<1>0. plan # <<>>
  BY DEF RunWaits
<1>1. /\ plan \in Seq({"sleep", "sub"}) /\ Len(plan) \in Nat \ {0}
      /\ ~ending /\ wev = "phases" /\ dropped = 0 /\ count = 1
      /\ Phase # "content" /\ ip = Len(Scripts)
      /\ \/ /\ plan \in Seq({"sleep"})
            /\ Phase # "set" => \A j \in 1 .. at - 1 : conf.handlers[j].phase # "set"
         \/ /\ plan \in Seq({"sub"}) /\ Len(plan) <= 3 /\ Phase = "rewrite"
            /\ \A j \in at + 1 .. N : ~MayWait(conf, j)
  BY <1>0, PlanIs
<1>2. /\ Working /\ engine /\ N \in Nat /\ at \in 1 .. N /\ ip \in 1 .. Len(Scripts)
      /\ Len(Scripts) \in Nat \ {0} /\ Len(fibers) \in Nat
      /\ Phase \in Phases /\ conf \in Configs
      /\ life = "open" /\ waits = {} /\ ~reading /\ ~posted /\ ~estatus
  BY AtScript DEF Working, TurnInv, Progress
<1>3. /\ fibers' = Started(Tail(plan))
      /\ waits' = {WaitFor(Len(fibers) + 1, Head(plan))}
      /\ ctx' = [Targeted(BodyRead) EXCEPT !.sub_response_more = (Head(plan) = "sub")]
      /\ UNCHANGED <<conf, posted, ending, arrived, reading, variable, dropped>>
      /\ EngineTakes(IF ctx'.sub_response_more THEN NGX_AGAIN ELSE NGX_DONE,
                     count + SubRef(Head(plan)))
  BY <1>2 DEF RunWaits, NewFiber
<1>4. Tail(plan) \in Seq({"sleep", "sub"}) /\ Len(Tail(plan)) = Len(plan) - 1
  BY <1>1
<1>5. /\ fibers' \in Seq(FiberRecord) /\ Len(fibers') = Len(fibers) + 1 /\ fibers' # <<>>
      /\ fibers'[Len(fibers')] = [at |-> at, ip |-> ip, left |-> Tail(plan)]
  <2>1. at \in Nat /\ ip \in Nat /\ fibers \in Seq(FiberRecord)
    BY <1>2 DEF TurnInv, Typed
  <2>2. /\ fibers' \in Seq(FiberRecord) /\ Len(fibers') = Len(fibers) + 1 /\ fibers' # <<>>
        /\ fibers'[Len(fibers) + 1] = [at |-> at, ip |-> ip, left |-> Tail(plan)]
    BY <1>3, <1>4, <2>1, StartedIs
  <2> QED
    BY <2>2
<1>6. /\ ctx' \in [request_body_more : BOOLEAN, read_request_body_done : BOOLEAN,
                   sub_response_more : BOOLEAN, set_var_target : Variables \cup {NoVar}]
      /\ ctx'.sub_response_more = (Head(plan) = "sub")
      /\ ctx'.set_var_target = IF Phase = "set" THEN Scripts[ip].target
                               ELSE ctx.set_var_target
  BY <1>3, StartedCtx
<1>7. LastFiber' = [at |-> at, ip |-> ip, left |-> Tail(plan)]
  BY <1>5 DEF LastFiber
<1>8. ASSUME plan \in Seq({"sleep"}),
             Phase # "set" => \A j \in 1 .. at - 1 : conf.handlers[j].phase # "set"
      PROVE  Wait(1) /\ Sleeping'
  <2>1. Head(plan) = "sleep" /\ Tail(plan) \in Seq({"sleep"})
    BY <1>1, <1>8
  <2>2. EngineTakes(NGX_DONE, 1)
    <3>1. SubRef(Head(plan)) = 0 /\ ctx'.sub_response_more = FALSE
      BY <1>6, <2>1 DEF SubRef
    <3> QED
      BY <1>1, <1>3, <3>1
  <2>3. Wait(1)
    <3>1. CASE Phase = "set"
      <4>1. SetBlockTakes(NGX_DONE, 1)
        BY <2>2, <3>1 DEF EngineTakes
      <4>2. ~(ip < Len(Scripts))
        BY <1>1, <1>2
      <4> QED
        BY <4>1, <4>2 DEF SetBlockTakes
    <3>2. CASE Phase # "set"
      BY <1>1, <2>2, <3>2 DEF EngineTakes, NGX_DONE, NGX_DECLINED, NGX_OK
    <3> QED
      BY <3>1, <3>2
  <2>4. ctx'.set_var_target \in {NoVar, TargetOf(LastFiber)'}
    <3>1. CASE Phase = "set"
      BY <1>3, <1>6, <1>7, <3>1 DEF TargetOf, Scripts
    <3>2. CASE Phase # "set"
      <4>1. \A k \in 1 .. N : k <= at => conf.handlers[k].phase # "set"
        <5>1. ASSUME NEW k \in 1 .. N, k <= at PROVE conf.handlers[k].phase # "set"
          <6>1. k = at \/ k \in 1 .. at - 1
            BY <1>2, <5>1
          <6> QED
            BY <1>8, <3>2, <6>1 DEF Phase
        <5> QED
          BY <5>1
      <4>2. ctx.set_var_target = NoVar
        BY <4>1 DEF TurnInv, Targets
      <4> QED
        BY <1>6, <3>2, <4>2
    <3> QED
      BY <3>1, <3>2
  <2>5. Waits("sleep")'
    <3>1. LastFiber'.at = at' /\ LastFiber'.left \in Seq({"sleep"}) /\ at' <= N'
      BY <1>2, <1>3, <1>7, <2>1, <2>3 DEF Wait, N
    <3>2. waits' = {WaitFor(Len(fibers'), "sleep")}
      BY <1>3, <1>5, <2>1
    <3>3. ~engine' /\ life' = "open" /\ ~reading'
      BY <1>2, <1>3, <2>3 DEF Wait
    <3> QED
      BY <1>5, <3>1, <3>2, <3>3 DEF Waits, WaitFor
  <2> QED
    BY <1>1, <1>2, <1>3, <2>3, <2>4, <2>5 DEF Sleeping, Wait
<1>9. ASSUME plan \in Seq({"sub"}), Len(plan) <= 3, Phase = "rewrite",
             \A j \in at + 1 .. N : ~MayWait(conf, j)
      PROVE  /\ engine' = FALSE /\ wev' = "writer" /\ count' = 2 /\ life' = "open"
             /\ UNCHANGED <<at, ip, estatus>>
             /\ Subbing'
  <2>1. Head(plan) = "sub" /\ Tail(plan) \in Seq({"sub"})
    BY <1>1, <1>9
  <2>2. EngineTakes(NGX_AGAIN, 2)
    <3>1. SubRef(Head(plan)) = 1 /\ ctx'.sub_response_more = TRUE
      BY <1>6, <2>1 DEF SubRef
    <3> QED
      BY <1>1, <1>3, <3>1
  <2>3. Finalize(NGX_AGAIN, 2)
    BY <1>9, <2>2 DEF EngineTakes, NGX_DONE, NGX_DECLINED, NGX_OK, NGX_AGAIN, GenericPhases
  <2>4. Subs(waits') # {}
    <3>1. WaitFor(Len(fibers) + 1, "sub") \in waits' /\ WaitFor(Len(fibers) + 1, "sub").kind = "sub"
      BY <1>3, <2>1 DEF WaitFor
    <3> QED
      BY <3>1 DEF Subs
  <2>5. /\ engine' = FALSE /\ wev' = "writer" /\ count' = 2 /\ life' = "open"
        /\ UNCHANGED <<at, ip, estatus>>
    BY <1>2, <2>3, <2>4 DEF Finalize, NGX_AGAIN, NGX_DONE
  <2>6. Waits("sub")'
    <3>1. LastFiber'.at = at' /\ LastFiber'.left \in Seq({"sub"}) /\ at' <= N'
      BY <1>2, <1>3, <1>7, <2>1, <2>5 DEF N
    <3>2. waits' = {WaitFor(Len(fibers'), "sub")}
      BY <1>3, <1>5, <2>1
    <3> QED
      BY <1>2, <1>3, <1>5, <2>5, <3>1, <3>2 DEF Waits, WaitFor
  <2>7. count' = 2 + Ended' - dropped' /\ dropped' \in Nat
        /\ dropped' + Len(LastFiber'.left) <= 2
    <3>1. dropped' = 0 /\ Ended' = 0 /\ Len(LastFiber'.left) = Len(plan) - 1
      BY <1>1, <1>3, <1>4, <1>7 DEF Ended
    <3> QED
      BY <1>1, <1>9, <2>5, <3>1
  <2>8. \A k \in at' + 1 .. N' : ~MayWait(conf', k)
    BY <1>3, <1>9, <2>5 DEF N
  <2> QED
    BY <2>5, <2>6, <2>7, <2>8 DEF Subbing
<1>10. /\ Sleeping' \/ Subbing'
       /\ engine' = FALSE /\ at' = at /\ ip' \in Nat \ {0} /\ estatus' = FALSE
  <2>1. ip \in Nat \ {0} /\ estatus = FALSE
    BY <1>2 DEF TurnInv, Flags
  <2>2. CASE /\ plan \in Seq({"sleep"})
             /\ Phase # "set" => \A j \in 1 .. at - 1 : conf.handlers[j].phase # "set"
    <3>1. Wait(1) /\ Sleeping'
      BY <1>8, <2>2
    <3> QED
      BY <3>1 DEF Wait
  <2>3. CASE /\ plan \in Seq({"sub"}) /\ Len(plan) <= 3 /\ Phase = "rewrite"
             /\ \A j \in at + 1 .. N : ~MayWait(conf, j)
    <3>1. engine' = FALSE /\ UNCHANGED <<at, ip, estatus>> /\ Subbing'
      BY <1>9, <2>3
    <3> QED
      BY <2>1, <3>1
  <2> QED
    BY <1>1, <2>2, <2>3
<1>a. BodyInv'
  BY StartStep DEF TurnInv, Run
<1>b. Typed' /\ Flags'
  BY <1>3, <1>5, <1>6, <1>10 DEF TurnInv, Typed, Flags
<1>c. Progress'
  <2>1. Typed /\ Progress /\ engine /\ at <= N /\ conf' = conf /\ ~estatus' /\ ~engine'
    BY <1>2, <1>3, <1>10 DEF TurnInv
  <2> QED
    BY <1>3, <1>4, <1>10, <2>1, ProgressStarts
<1>d. Targets'
  BY <1>3, <1>4, <1>6, <1>10, TargetsGrow
<1> QED
  BY <1>10, <1>a, <1>b, <1>c, <1>d DEF TurnInv, Turn

-----------------------------------------------------------------------------
\* The request is finalized with nothing in flight: it is left to the end of
\* a subrequest, or gives up its reference.
LEMMA FinalizeCloses ==
    ASSUME NEW rc, rc # NGX_DONE, NEW n, Finalize(rc, n), waits' = {}, ~reading',
           life = "open", dropped' \in 0 .. 2, n = (1 + Ended' - dropped') % Word,
           ending' \/ ~posted'
    PROVE  /\ Closing' \/ Closed'
           /\ engine' = FALSE /\ UNCHANGED <<at, ip, estatus>>
<1>0. engine' = FALSE /\ UNCHANGED <<at, ip, estatus>> /\ Subs(waits') = {}
  BY DEF Finalize, Subs
<1>1. CASE ending'
  <2>1. wev' = "writer" /\ count' = n /\ life' = life
    BY <1>0, <1>1 DEF Finalize
  <2> QED
    BY <1>0, <1>1, <2>1 DEF Closing
<1>2. CASE ~ending'
  <2>1. wev' = "empty" /\ Drop(n)
    BY <1>0, <1>2 DEF Finalize
  <2>2. Ended' = 0
    BY <1>2 DEF Ended
  <2>3. count' = (0 - dropped') % Word
    <3>1. count' = (((1 + 0 - dropped') % Word) - 1) % Word
      BY <2>1, <2>2 DEF Drop
    <3>2. dropped' = 0 \/ dropped' = 1 \/ dropped' = 2
      OBVIOUS
    <3>3. CASE dropped' = 0
      BY <3>1, <3>3 DEF Word
    <3>4. CASE dropped' = 1
      BY <3>1, <3>4 DEF Word
    <3>5. CASE dropped' = 2
      BY <3>1, <3>5 DEF Word
    <3> QED
      BY <3>2, <3>3, <3>4, <3>5
  <2> QED
    BY <1>0, <1>2, <2>1, <2>3 DEF Closed
<1> QED
  BY <1>0, <1>1, <1>2

\* The references of a request that runs its phases.
LEMMA WorkingCount ==
    ASSUME Working
    PROVE  dropped \in 0 .. 2 /\ count = (1 + Ended - dropped) % Word
<1>1. CASE ~ending
  <2>1. dropped = 0 /\ count = 1 /\ Ended = 0
    BY <1>1 DEF Working, Ended
  <2> QED
    BY <2>1 DEF Word
<1>2. CASE ending
  <2>1. dropped \in 0 .. 2 /\ count = 2 - dropped /\ Ended = 1
    BY <1>2 DEF Working, Ended
  <2> QED
    BY <2>1 DEF Word
<1> QED
  BY <1>1, <1>2

\* The phase of the only post-read handler ends with it.
LEMMA OnePostRead ==
    ASSUME Sequential(conf), N \in Nat, at \in 1 .. N, Phase = "post_read",
           NEW n, PassPhase(n)
    PROVE  Proceed(n)
<1>1. PICK k \in at + 1 .. N + 1 :
         /\ \A j \in at + 1 .. k - 1 : conf.handlers[j].phase = Phase
         /\ ProceedTo(k, n)
  BY DEF PassPhase
<1>2. CASE k = at + 1
  BY <1>1, <1>2 DEF Proceed
<1>3. CASE k # at + 1
  <2>1. at + 1 \in at + 1 .. k - 1 /\ at + 1 \in 2 .. N
    BY <1>3
  <2>2. conf.handlers[at + 1].phase = "post_read"
    BY <1>1, <2>1
  <2>3. conf.handlers[at + 1].phase # "post_read"
    BY <2>1 DEF Sequential, N
  <2> QED
    BY <2>2, <2>3
<1> QED
  BY <1>2, <1>3

\* A script is over at once.
LEMMA EndStep ==
    ASSUME TurnInv, Runs, NEW code \in Codes, RunEnds(code)
    PROVE  TurnInv'
<1>1. /\ Working /\ engine /\ N \in Nat /\ at \in 1 .. N /\ ip \in 1 .. Len(Scripts)
      /\ Len(Scripts) \in Nat \ {0} /\ Len(fibers) \in Nat
      /\ Phase \in Phases /\ conf \in Configs
      /\ life = "open" /\ waits = {} /\ ~reading /\ ~posted /\ ~estatus
      /\ at \in Nat /\ ip \in Nat
  BY AtScript DEF Working, TurnInv, Progress
<1>2. /\ fibers' = Started(<<>>) /\ <<>> \in Seq({"sleep", "sub"})
      /\ ctx' = [Targeted(BodyRead) EXCEPT !.sub_response_more = FALSE]
      /\ variable' = IF Phase = "set" THEN [variable EXCEPT ![Scripts[ip].target] = NewFiber]
                     ELSE variable
      /\ UNCHANGED <<conf, posted, ending, arrived, reading, waits, dropped>>
      /\ EngineTakes(IF Phase = "set" THEN NGX_OK ELSE code, count)
  BY DEF RunEnds
<1>3. /\ fibers' \in Seq(FiberRecord) /\ Len(fibers') = Len(fibers) + 1 /\ fibers' # <<>>
      /\ fibers'[Len(fibers) + 1] = [at |-> at, ip |-> ip, left |-> <<>>]
      /\ \A i \in 1 .. Len(fibers) : fibers'[i] = fibers[i]
  BY <1>1, <1>2, StartedIs DEF TurnInv, Typed
<1>4. /\ ctx' \in [request_body_more : BOOLEAN, read_request_body_done : BOOLEAN,
                   sub_response_more : BOOLEAN, set_var_target : Variables \cup {NoVar}]
      /\ ctx'.set_var_target = IF Phase = "set" THEN Scripts[ip].target
                               ELSE ctx.set_var_target
  BY <1>2, StartedCtx
<1>5. code # NGX_DONE /\ code # NGX_AGAIN
  BY RequestAssumption DEF RequestAssumption, NGX_OK, NGX_DECLINED, NGX_DONE, NGX_AGAIN
<1>6. \/ /\ ip < Len(Scripts) /\ ip' = ip + 1 /\ estatus' = FALSE
         /\ UNCHANGED <<at, engine, wev, life, count>>
      \/ Proceed(count)
      \/ Finalize(code, count)
  <2>1. CASE Phase = "set"
    <3>1. SetBlockTakes(NGX_OK, count)
      BY <1>2, <2>1 DEF EngineTakes
    <3>2. NGX_OK # NGX_DONE
      BY DEF NGX_OK, NGX_DONE
    <3> QED
      BY <1>1, <3>1, <3>2 DEF SetBlockTakes, TurnInv, Flags
  <2>2. CASE Phase # "set"
    <3>1. Sequential(conf)
      BY DEF TurnInv, Typed
    <3>2. Phase = "post_read" /\ PassPhase(count) => Proceed(count)
      BY <1>1, <3>1, OnePostRead
    <3> QED
      BY <1>2, <1>5, <2>2, <3>2 DEF EngineTakes
  <2> QED
    BY <2>1, <2>2
<1>7. /\ \/ Working' \/ Closing' \/ Closed'
      /\ estatus' = FALSE /\ engine' \in BOOLEAN
      /\ \/ ~engine' /\ at' = at /\ ip' \in Nat \ {0}
         \/ engine' /\ at' = at /\ ip' = ip + 1 /\ ip < Len(Scripts)
         \/ engine' /\ at' = at + 1 /\ ip' = 1
  <2>0. estatus = FALSE /\ engine = TRUE /\ ip \in Nat \ {0}
    BY <1>1 DEF TurnInv, Flags
  <2>1. CASE /\ ip < Len(Scripts) /\ ip' = ip + 1 /\ estatus' = FALSE
             /\ UNCHANGED <<at, engine, wev, life, count>>
    <3>1. Working'
      BY <1>1, <1>2, <1>3, <2>1 DEF Working, N
    <3> QED
      BY <2>0, <2>1, <3>1
  <2>2. CASE Proceed(count)
    <3>1. /\ engine' = TRUE /\ at' = at + 1 /\ ip' = 1 /\ estatus' = FALSE
          /\ count' = count /\ UNCHANGED <<wev, life>>
      BY <2>2 DEF Proceed, ProceedTo
    <3>2. ending => \A k \in at' .. N' : ~MayWait(conf', k)
      <4>1. at' .. N' \subseteq at .. N
        BY <1>1, <1>2, <3>1 DEF N
      <4> QED
        BY <1>1, <1>2, <4>1 DEF Working
    <3>3. Working'
      BY <1>1, <1>2, <1>3, <3>1, <3>2 DEF Working
    <3> QED
      BY <3>1, <3>3
  <2>3. CASE Finalize(code, count)
    <3>1. dropped \in 0 .. 2 /\ count = (1 + Ended - dropped) % Word
      BY <1>1, WorkingCount
    <3>2. Ended' = Ended
      BY <1>2 DEF Ended
    <3>3. /\ Closing' \/ Closed'
          /\ engine' = FALSE /\ UNCHANGED <<at, ip, estatus>>
      BY <1>1, <1>2, <1>5, <2>3, <3>1, <3>2, FinalizeCloses
    <3> QED
      BY <2>0, <3>3
  <2> QED
    BY <1>6, <2>1, <2>2, <2>3
<1>a. BodyInv'
  BY StartStep DEF TurnInv, Run
<1>b. Typed' /\ Flags'
  BY <1>2, <1>3, <1>4, <1>7 DEF TurnInv, Typed, Flags
<1>c. Progress'
  <2>1. Typed /\ Progress /\ engine /\ at <= N /\ conf' = conf /\ ~estatus'
    BY <1>1, <1>2, <1>7 DEF TurnInv
  <2> QED
    BY <1>2, <1>7, <2>1, ProgressStarts
<1>d. Targets'
  <2>1. CASE Phase # "set"
    <3>1. at' \in {at, at + 1} /\ variable' = variable /\ ctx'.set_var_target = ctx.set_var_target
      BY <1>2, <1>4, <1>7, <2>1
    <3> QED
      BY <1>2, <3>1, TargetsGrow
  <2>2. CASE Phase = "set"
    <3>0. Scripts[ip].target \in Variables
      BY <1>1, <2>2, ConfType DEF Phase, Scripts
    <3>1. variable \in [Variables -> 0 .. Len(fibers)] /\ OwnVariables
      BY DEF TurnInv, Targets
    <3>2. variable' = [variable EXCEPT ![Scripts[ip].target] = Len(fibers) + 1]
      BY <1>2, <2>2 DEF NewFiber
    <3>3. variable' \in [Variables -> 0 .. Len(fibers')]
      <4>1. Len(fibers) + 1 \in 0 .. Len(fibers') /\ 0 .. Len(fibers) \subseteq 0 .. Len(fibers')
        BY <1>1, <1>3
      <4> QED
        BY <3>1, <3>2, <4>1
    <3>4. OwnVariables'
      <4> SUFFICES ASSUME NEW x \in Variables, variable'[x] # 0
                   PROVE  conf'.handlers[fibers'[variable'[x]].at].scripts[fibers'[variable'[x]].ip].target = x
        BY DEF OwnVariables
      <4>1. CASE x = Scripts[ip].target
        <5>1. variable'[x] = Len(fibers) + 1
          BY <3>1, <3>2, <4>1
        <5>2. fibers'[variable'[x]].at = at /\ fibers'[variable'[x]].ip = ip
          BY <1>3, <5>1
        <5> QED
          BY <1>2, <4>1, <5>2 DEF Scripts
      <4>2. CASE x # Scripts[ip].target
        <5>1. variable'[x] = variable[x] /\ variable[x] \in 1 .. Len(fibers)
          BY <1>1, <3>1, <3>2, <4>2
        <5> QED
          BY <1>2, <1>3, <3>1, <5>1 DEF OwnVariables
      <4> QED
        BY <4>1, <4>2
    <3>5. \E k \in 1 .. N' : k <= at' /\ conf'.handlers[k].phase = "set"
      <4>1. at <= at' /\ at \in 1 .. N'
        BY <1>1, <1>2, <1>7 DEF N
      <4> QED
        BY <1>2, <2>2, <4>1 DEF Phase
    <3> QED
      BY <3>3, <3>4, <3>5 DEF Targets
  <2> QED
    BY <2>1, <2>2
<1> QED
  BY <1>7, <1>a, <1>b, <1>c, <1>d DEF TurnInv, Turn

-----------------------------------------------------------------------------
(* What follows the handlers.                                              *)

\* Steps that start no script and leave the context and variables alone.
LEMMA KeptParts ==
    ASSUME TurnInv,
           UNCHANGED <<conf, arrived, ctx, fibers, variable>>,
           {posted', ending', reading', engine'} \subseteq BOOLEAN,
           estatus' = FALSE, reading' => reading,
           \/ engine' = FALSE /\ at' = at /\ ip' = ip
           \/ /\ at' = at + 1 /\ ip' = 1 /\ at <= N
              /\ \E i \in 1 .. Len(fibers) : fibers[i].at = at
    PROVE  BodyInv' /\ Typed' /\ Flags' /\ Progress' /\ Targets'
<1>1. BodyInv'
  BY DEF TurnInv, BodyInv
<1>2. Typed' /\ Flags'
  BY DEF TurnInv, Typed, Flags
<1>3. Progress'
  <2>1. Typed /\ Progress /\ ~estatus' /\ (engine' = FALSE => ~engine')
    BY DEF TurnInv
  <2> QED
    BY <2>1, ProgressKept
<1>4. Targets'
  <2>1. N \in Nat /\ at \in Int /\ at' \in {at, at + 1}
    BY ConfType DEF TurnInv, Typed, Progress
  <2>2. ASSUME ctx.set_var_target # NoVar
        PROVE  \E k \in 1 .. N : k <= at' /\ conf.handlers[k].phase = "set"
    <3>1. PICK k \in 1 .. N : k <= at /\ conf.handlers[k].phase = "set"
      BY <2>2 DEF TurnInv, Targets
    <3>2. k <= at'
      BY <2>1, <3>1
    <3> QED
      BY <3>1, <3>2
  <2> QED
    BY <2>2 DEF TurnInv, Targets, OwnVariables, N
<1> QED
  BY <1>1, <1>2, <1>3, <1>4

\* What the flags and the place of a request are.
LEMMA PlaceType ==
    ASSUME TurnInv
    PROVE  /\ {estatus, engine, posted, ending, arrived, reading} \subseteq BOOLEAN
           /\ estatus = FALSE /\ N \in Nat /\ at \in 1 .. N + 1 /\ Len(fibers) \in Nat
BY ConfType DEF TurnInv, Flags, Progress, Typed

\* nginx serves the request.
LEMMA ServeStep ==
    ASSUME TurnInv, Serve
    PROVE  TurnInv'
<1>1. /\ engine /\ Finalize(NGX_OK, count)
      /\ UNCHANGED <<conf, posted, ending, arrived, reading, ctx, waits, fibers, variable, dropped>>
  BY DEF Serve
<1>2. Working
  BY <1>1 DEF TurnInv, Turn, Waits, Sleeping, Subbing, Reading, Closing, Closed
<1>3. /\ Closing' \/ Closed'
      /\ engine' = FALSE /\ UNCHANGED <<at, ip, estatus>>
  <2>1. dropped \in 0 .. 2 /\ count = (1 + Ended - dropped) % Word
    BY <1>2, WorkingCount
  <2>2. Ended' = Ended /\ NGX_OK # NGX_DONE
    BY <1>1 DEF Ended, NGX_OK, NGX_DONE
  <2>3. life = "open" /\ waits = {} /\ ~reading /\ ~posted
    BY <1>2 DEF Working
  <2> QED
    BY <1>1, <2>1, <2>2, <2>3, FinalizeCloses
<1>4. BodyInv' /\ Typed' /\ Flags' /\ Progress' /\ Targets'
  BY <1>1, <1>3, PlaceType, KeptParts
<1> QED
  BY <1>3, <1>4 DEF TurnInv, Turn

\* A subrequest comes to its end and posts the request.
LEMMA SubFinalizedStep ==
    ASSUME TurnInv, SubFinalized
    PROVE  TurnInv'
<1>1. /\ ending /\ ~engine /\ ending' = FALSE /\ posted' = TRUE
      /\ count' = (count - 1) % Word
      /\ UNCHANGED <<conf, at, ip, estatus, engine, wev, life, arrived, reading, ctx,
                     waits, fibers, variable, dropped>>
  BY DEF SubFinalized
<1>2. Ended = 1 /\ Ended' = 0
  BY <1>1 DEF Ended
<1>3. CASE Subbing
  <2>1. /\ dropped \in Nat /\ dropped + Len(LastFiber.left) <= 2 /\ count = 3 - dropped
        /\ LastFiber.left \in Seq({"sub"})
    BY <1>2, <1>3 DEF Subbing, Waits
  <2>2. dropped \in 0 .. 2
    <3>1. Len(LastFiber.left) \in Nat
      BY <2>1
    <3> QED
      BY <2>1, <3>1
  <2>3. count' = 2 - dropped
    BY <1>1, <2>1, <2>2 DEF Word
  <2>4. LastFiber' = LastFiber /\ N' = N
    BY <1>1 DEF LastFiber, N
  <2>5. Waits("sub")'
    BY <1>1, <1>3, <2>4 DEF Subbing, Waits
  <2>6. Subbing'
    BY <1>1, <1>2, <1>3, <2>1, <2>3, <2>4, <2>5 DEF Subbing
  <2> QED
    BY <1>1, <2>6, PlaceType, KeptParts DEF TurnInv, Turn
<1>4. CASE Closing
  <2>1. dropped \in 0 .. 2 /\ count = (2 - dropped) % Word
    BY <1>2, <1>4 DEF Closing
  <2>2. count' = (1 - dropped) % Word
    <3>1. count = 2 - dropped
      BY <2>1 DEF Word
    <3>2. dropped \in Int /\ (2 - dropped) - 1 = 1 - dropped
      BY <2>1
    <3> QED
      BY <1>1, <3>1, <3>2
  <2>3. Closing'
    BY <1>1, <1>2, <1>4, <2>1, <2>2 DEF Closing
  <2> QED
    BY <1>1, <2>3, PlaceType, KeptParts DEF TurnInv, Turn
<1> QED
  BY <1>1, <1>3, <1>4 DEF TurnInv, Turn, Working, Sleeping, Reading, Closed

\* The posted request is written: it ends, or waits for its next subrequest.
LEMMA RunPostedStep ==
    ASSUME TurnInv, RunPosted
    PROVE  TurnInv'
<1>1. /\ posted /\ ~engine /\ ~ending /\ posted' = FALSE
      /\ UNCHANGED <<conf, ending, arrived, reading, ctx, waits, fibers, variable, dropped>>
  BY DEF RunPosted
<1>2. Ended = 0 /\ Ended' = 0
  BY <1>1 DEF Ended
<1>3. Subbing \/ Closing
  BY <1>1 DEF TurnInv, Turn, Working, Sleeping, Reading, Closed
<1>4. life = "open" /\ wev = "writer" /\ Finalize(NGX_OK, count) /\ NGX_OK # NGX_DONE
  BY <1>3 DEF RunPosted, Subbing, Waits, Closing, NGX_OK, NGX_DONE
<1>5. CASE Subbing
  <2>1. Subs(waits') # {}
    <3>1. WaitFor(Len(fibers), "sub") \in waits'
      BY <1>1, <1>5 DEF Subbing, Waits
    <3>2. WaitFor(Len(fibers), "sub").kind = "sub"
      BY DEF WaitFor
    <3> QED
      BY <3>1, <3>2 DEF Subs
  <2>2. engine' = FALSE /\ wev' = "writer" /\ count' = count /\ life' = life
        /\ UNCHANGED <<at, ip, estatus>>
    BY <1>4, <2>1 DEF Finalize
  <2>3. LastFiber' = LastFiber /\ N' = N
    BY <1>1 DEF LastFiber, N
  <2>4. Waits("sub")'
    BY <1>1, <1>5, <2>2, <2>3 DEF Subbing, Waits
  <2>5. Subbing'
    BY <1>1, <1>2, <1>5, <2>2, <2>3, <2>4 DEF Subbing
  <2> QED
    BY <1>1, <2>2, <2>5, PlaceType, KeptParts DEF TurnInv, Turn
<1>6. CASE Closing
  <2>1. /\ Closing' \/ Closed'
        /\ engine' = FALSE /\ UNCHANGED <<at, ip, estatus>>
    BY <1>1, <1>2, <1>4, <1>6, FinalizeCloses DEF Closing
  <2> QED
    BY <1>1, <2>1, PlaceType, KeptParts DEF TurnInv, Turn
<1> QED
  BY <1>3, <1>5, <1>6

\* The body has come, and the first handler runs; or the request is over.
LEMMA BodyStep ==
    ASSUME TurnInv, ReadRequestBodyCb \/ BodyFails
    PROVE  TurnInv'
<1>1. Reading
  <2>1. reading
    BY DEF ReadRequestBodyCb, BodyFails
  <2> QED
    BY <2>1 DEF TurnInv, Turn, Working, Waits, Sleeping, Subbing, Closing, Closed
<1>2. /\ ~engine /\ life = "open" /\ waits = {} /\ ~posted /\ ~ending /\ wev = "phases"
      /\ dropped = 0 /\ count = 2 /\ ctx.request_body_more /\ fibers = <<>>
  BY <1>1 DEF Reading
<1>a. BodyInv'
  BY ReadStep DEF TurnInv
<1>3. CASE ReadRequestBodyCb
  <2>1. /\ arrived' = TRUE /\ reading' = FALSE /\ count' = 1 /\ engine' = ctx.request_body_more
        /\ ctx' = [ctx EXCEPT !.read_request_body_done = TRUE, !.request_body_more = FALSE]
        /\ UNCHANGED <<conf, at, ip, estatus, wev, posted, ending, life, waits, fibers,
                       variable, dropped>>
    BY <1>2, <1>3 DEF ReadRequestBodyCb, ReferenceGiven, More, Word
  <2>2. /\ ctx' \in [request_body_more : BOOLEAN, read_request_body_done : BOOLEAN,
                     sub_response_more : BOOLEAN, set_var_target : Variables \cup {NoVar}]
        /\ ctx'.set_var_target = ctx.set_var_target /\ engine' = TRUE
    BY <1>2, <2>1 DEF TurnInv, Typed
  <2>3. Typed' /\ Flags'
    BY <2>1, <2>2 DEF TurnInv, Typed, Flags
  <2>4. Progress'
    <3>1. Typed /\ Progress /\ ~estatus'
      BY <2>1 DEF TurnInv, Progress
    <3> QED
      BY <1>2, <2>1, <3>1, ProgressKept
  <2>5. Targets'
    BY <2>1, <2>2 DEF TurnInv, Targets, OwnVariables, N
  <2>6. Working'
    BY <1>2, <2>1, <2>2 DEF Working
  <2> QED
    BY <1>a, <2>3, <2>4, <2>5, <2>6 DEF TurnInv, Turn
<1>4. CASE BodyFails
  <2>1. /\ reading' = FALSE /\ count' = 0 /\ life' = "freed" /\ waits' = {}
        /\ UNCHANGED <<conf, at, ip, estatus, engine, wev, posted, ending, arrived, ctx,
                       fibers, variable, dropped>>
    BY <1>4 DEF BodyFails
  <2>2. Closed'
    BY <1>2, <2>1 DEF Closed, Word
  <2>3. engine = FALSE
    BY <1>2, PlaceType
  <2> QED
    BY <1>2, <2>1, <2>2, <2>3, PlaceType, KeptParts DEF TurnInv, Turn
<1> QED
  BY <1>3, <1>4

-----------------------------------------------------------------------------
(* What waits goes on.                                                     *)

\* The wait that fires is the only one.
LEMMA FiresIs ==
    ASSUME TurnInv, NEW w \in waits, NEW kind, Fires(w, kind)
    PROVE  /\ kind = "sleep" => Sleeping
           /\ kind = "sub" => Subbing
           /\ kind \in {"sleep", "sub"}
           /\ w = WaitFor(Len(fibers), kind) /\ waits = {w}
           /\ ~ending /\ ~posted /\ ~engine
           /\ at \in 1 .. N /\ N \in Nat /\ Len(fibers) \in Nat \ {0}
           /\ LastFiber \in FiberRecord /\ LastFiber.at = at
           /\ fibers[w.fiber] = LastFiber /\ w.fiber = Len(fibers)
           /\ w.kind = kind
           /\ LastFiber.left \in Seq({kind})
           /\ ~reading /\ life = "open"
<1>1. w \in waits /\ w.kind = kind /\ ~ending /\ ~posted /\ ~engine
  BY DEF Fires, Idle
<1>2. Sleeping \/ Subbing
  BY <1>1 DEF TurnInv, Turn, Working, Reading, Closing, Closed
<1>3. PICK kd \in {"sleep", "sub"} :
         Waits(kd) /\ (kd = "sleep" => Sleeping) /\ (kd = "sub" => Subbing)
  BY <1>2 DEF Sleeping, Subbing
<1>4. /\ waits = {WaitFor(Len(fibers), kd)} /\ LastFiber.at = at /\ fibers # <<>>
      /\ LastFiber.left \in Seq({kd}) /\ ~reading /\ life = "open" /\ at <= N
  BY <1>3 DEF Waits
<1>5. w = WaitFor(Len(fibers), kd)
  BY <1>1, <1>4
<1>6. kd = kind /\ w.fiber = Len(fibers)
  BY <1>1, <1>5 DEF WaitFor
<1>7. fibers \in Seq(FiberRecord) /\ Len(fibers) \in Nat \ {0}
  <2>1. fibers \in Seq(FiberRecord)
    BY DEF TurnInv, Typed
  <2> QED
    BY <1>4, <2>1
<1>8. LastFiber \in FiberRecord
  <2>1. Len(fibers) \in 1 .. Len(fibers)
    BY <1>7
  <2> QED
    BY <1>7, <2>1 DEF LastFiber
<1>9. at \in 1 .. N /\ N \in Nat
  BY <1>4, PlaceType
<1> QED
  BY <1>1, <1>3, <1>4, <1>5, <1>6, <1>7, <1>8, <1>9 DEF LastFiber

\* A fiber that goes on keeps its place.
LEMMA AgainIs ==
    ASSUME TurnInv, NEW kind, NEW w \in waits, Fires(w, kind), Again(w), conf' = conf
    PROVE  /\ LastFiber.left # <<>> /\ Head(LastFiber.left) = kind
           /\ fibers' \in Seq(FiberRecord) /\ Len(fibers') = Len(fibers) /\ fibers' # <<>>
           /\ \A i \in 1 .. Len(fibers) : fibers'[i].at = fibers[i].at
                                          /\ fibers'[i].ip = fibers[i].ip
           /\ LastFiber'.at = LastFiber.at /\ LastFiber'.ip = LastFiber.ip
           /\ LastFiber'.left = Tail(LastFiber.left)
           /\ LastFiber'.left \in Seq({kind})
           /\ Len(LastFiber.left) \in Nat \ {0}
           /\ Len(LastFiber'.left) = Len(LastFiber.left) - 1
           /\ waits' = {WaitFor(Len(fibers'), kind)}
<1>1. /\ kind \in {"sleep", "sub"} /\ waits = {w} /\ w = WaitFor(Len(fibers), kind)
      /\ Len(fibers) \in Nat \ {0} /\ LastFiber \in FiberRecord
      /\ fibers[w.fiber] = LastFiber /\ w.fiber = Len(fibers)
      /\ LastFiber.left \in Seq({kind})
  BY FiresIs
<1>2. fibers \in Seq(FiberRecord)
  BY DEF TurnInv, Typed
<1>3. /\ LastFiber.left # <<>>
      /\ fibers' = [fibers EXCEPT ![Len(fibers)].left = Tail(LastFiber.left)]
      /\ waits' = (waits \ {w}) \cup {WaitFor(w.fiber, Head(LastFiber.left))}
  BY <1>1 DEF Again
<1>4. /\ Head(LastFiber.left) = kind /\ Tail(LastFiber.left) \in Seq({kind})
      /\ Len(LastFiber.left) \in Nat \ {0}
      /\ Len(Tail(LastFiber.left)) = Len(LastFiber.left) - 1
      /\ Tail(LastFiber.left) \in Seq({"sleep", "sub"})
  BY <1>1, <1>3
<1> DEFINE r == [LastFiber EXCEPT !.left = Tail(LastFiber.left)]
<1>5. r \in FiberRecord /\ r.at = LastFiber.at /\ r.ip = LastFiber.ip
      /\ r.left = Tail(LastFiber.left)
  BY <1>1, <1>4 DEF FiberRecord
<1>6. fibers' = [fibers EXCEPT ![Len(fibers)] = r]
  BY <1>3 DEF LastFiber
<1>7. /\ fibers' \in Seq(FiberRecord) /\ Len(fibers') = Len(fibers)
      /\ \A i \in 1 .. Len(fibers) : fibers'[i] = IF i = Len(fibers) THEN r ELSE fibers[i]
  <2> HIDE DEF r
  <2> QED
    BY <1>1, <1>2, <1>5, <1>6
<1>8. LastFiber' = r /\ fibers' # <<>>
  <2>1. Len(fibers) \in 1 .. Len(fibers)
    BY <1>1
  <2> QED
    BY <1>1, <1>7, <2>1 DEF LastFiber
<1>9. \A i \in 1 .. Len(fibers) : fibers'[i].at = fibers[i].at
                                  /\ fibers'[i].ip = fibers[i].ip
  BY <1>5, <1>7 DEF LastFiber
<1>10. waits' = {WaitFor(Len(fibers'), kind)}
  BY <1>1, <1>3, <1>4, <1>7
<1> QED
  BY <1>3, <1>4, <1>5, <1>7, <1>8, <1>9, <1>10

\* What else holds when a fiber has gone on.
LEMMA AgainParts ==
    ASSUME TurnInv, NEW kind, NEW w \in waits, Fires(w, kind), Again(w), BodyInv',
           UNCHANGED <<conf, at, ip, estatus, posted, arrived, reading, variable>>,
           ending' \in BOOLEAN, engine' = FALSE
    PROVE  /\ Typed' /\ Flags' /\ Progress' /\ Targets'
           /\ ctx'.set_var_target = ctx.set_var_target
<1>1. /\ fibers' \in Seq(FiberRecord) /\ Len(fibers') = Len(fibers) /\ fibers' # <<>>
      /\ \A i \in 1 .. Len(fibers) : fibers'[i].at = fibers[i].at
                                     /\ fibers'[i].ip = fibers[i].ip
  BY AgainIs
<1>2. /\ ctx' \in [request_body_more : BOOLEAN, read_request_body_done : BOOLEAN,
                   sub_response_more : BOOLEAN, set_var_target : Variables \cup {NoVar}]
      /\ ctx'.set_var_target = ctx.set_var_target
  <2>1. ctx \in [request_body_more : BOOLEAN, read_request_body_done : BOOLEAN,
                 sub_response_more : BOOLEAN, set_var_target : Variables \cup {NoVar}]
    BY DEF TurnInv, Typed
  <2>2. PICK more \in BOOLEAN : ctx' = [ctx EXCEPT !.sub_response_more = more]
    BY <2>1 DEF Again
  <2> QED
    BY <2>1, <2>2
<1>3. Typed' /\ Flags'
  BY <1>1, <1>2, PlaceType DEF TurnInv, Typed, Flags
<1>4. Progress'
  <2>1. Typed /\ Progress /\ ~estatus' /\ ~engine'
    BY PlaceType DEF TurnInv
  <2> QED
    BY <1>1, <2>1, ProgressKept
<1>5. Targets'
  <2>1. variable \in [Variables -> 0 .. Len(fibers)] /\ OwnVariables /\ Len(fibers) \in Nat
    BY PlaceType DEF TurnInv, Targets
  <2>2. OwnVariables'
    <3> SUFFICES ASSUME NEW x \in Variables, variable[x] # 0
                 PROVE  conf.handlers[fibers'[variable[x]].at].scripts[fibers'[variable[x]].ip].target = x
      BY DEF OwnVariables
    <3>1. variable[x] \in 1 .. Len(fibers)
      BY <2>1
    <3> QED
      BY <1>1, <2>1, <3>1 DEF OwnVariables
  <2> QED
    BY <1>1, <1>2, <2>1, <2>2 DEF TurnInv, Targets, N
<1> QED
  BY <1>2, <1>3, <1>4, <1>5

\* A timer expires and its script sleeps again.
LEMMA TimerAgainStep ==
    ASSUME TurnInv, NEW w \in waits, TimerAgain(w)
    PROVE  TurnInv'
<1>1. /\ Fires(w, "sleep") /\ Again(w)
      /\ count' = count + SubRef(Head(fibers[w.fiber].left))
      /\ UNCHANGED <<conf, at, ip, estatus, engine, wev, posted, ending, life, arrived,
                     reading, variable, dropped>>
  BY DEF TimerAgain
<1>2. /\ Sleeping /\ ~engine /\ fibers[w.fiber] = LastFiber /\ at \in 1 .. N
      /\ LastFiber.at = at /\ ~reading /\ life = "open"
  BY <1>1, FiresIs
<1>3. /\ Head(LastFiber.left) = "sleep" /\ Len(fibers') = Len(fibers) /\ fibers' # <<>>
      /\ LastFiber'.at = LastFiber.at /\ LastFiber'.ip = LastFiber.ip
      /\ LastFiber'.left \in Seq({"sleep"})
      /\ waits' = {WaitFor(Len(fibers'), "sleep")}
  BY <1>1, AgainIs
<1>4. BodyInv'
  BY ResumeStep DEF TurnInv, Resume
<1>5. /\ Typed' /\ Flags' /\ Progress' /\ Targets'
      /\ ctx'.set_var_target = ctx.set_var_target
  BY <1>1, <1>2, <1>4, PlaceType, AgainParts
<1>6. Sleeping'
  <2>1. count = 1 /\ count' = 1
    BY <1>1, <1>2, <1>3 DEF Sleeping, SubRef
  <2>2. Waits("sleep")'
    BY <1>1, <1>2, <1>3 DEF Waits, N, WaitFor
  <2>3. TargetOf(LastFiber)' = TargetOf(LastFiber)
    BY <1>1, <1>3 DEF TargetOf
  <2> QED
    BY <1>1, <1>2, <1>5, <2>1, <2>2, <2>3 DEF Sleeping
<1> QED
  BY <1>4, <1>5, <1>6 DEF TurnInv, Turn

\* A subrequest is over and its script makes another one: sub_request_done
\* gives up a reference, which is not the last one.
LEMMA SubAgainStep ==
    ASSUME TurnInv, NEW w \in waits, SubAgain(w)
    PROVE  TurnInv'
<1>1. /\ Fires(w, "sub") /\ Again(w) /\ ending' = TRUE /\ dropped' = dropped + 1
      /\ UNCHANGED <<conf, posted, arrived, reading, variable>>
      /\ Finalize(NGX_DONE, count + SubRef(Head(fibers[w.fiber].left)))
  BY DEF SubAgain
<1>2. /\ Subbing /\ ~engine /\ ~ending /\ fibers[w.fiber] = LastFiber /\ at \in 1 .. N
      /\ LastFiber.at = at /\ ~reading /\ life = "open"
  BY <1>1, FiresIs
<1>3. /\ Head(LastFiber.left) = "sub" /\ Len(fibers') = Len(fibers) /\ fibers' # <<>>
      /\ LastFiber'.at = LastFiber.at /\ LastFiber'.left \in Seq({"sub"})
      /\ Len(LastFiber.left) \in Nat \ {0}
      /\ Len(LastFiber'.left) = Len(LastFiber.left) - 1
      /\ waits' = {WaitFor(Len(fibers'), "sub")}
  BY <1>1, AgainIs
<1>4. /\ dropped \in Nat /\ dropped + Len(LastFiber.left) <= 2 /\ count = 2 - dropped
      /\ wev = "writer" /\ \A k \in at + 1 .. N : ~MayWait(conf, k)
  BY <1>2 DEF Subbing, Ended
<1>5. Finalize(NGX_DONE, 3 - dropped)
  <2>1. SubRef(Head(fibers[w.fiber].left)) = 1
    BY <1>2, <1>3 DEF SubRef
  <2>2. count + 1 = 3 - dropped
    BY <1>4
  <2> QED
    BY <1>1, <2>1, <2>2
<1>6. engine' = FALSE /\ UNCHANGED <<at, ip, estatus, wev>> /\ Drop(3 - dropped)
  BY <1>5 DEF Finalize
<1>7. dropped \in 0 .. 1
  BY <1>3, <1>4
<1>8. count' = 2 - dropped /\ life' = "open"
  BY <1>2, <1>6, <1>7 DEF Drop, Word
<1>9. BodyInv'
  BY ResumeStep DEF TurnInv, Resume
<1>10. Typed' /\ Flags' /\ Progress' /\ Targets'
  BY <1>1, <1>6, <1>9, AgainParts
<1>11. Subbing'
  <2>1. Waits("sub")'
    BY <1>1, <1>2, <1>3, <1>6, <1>8 DEF Waits, N, WaitFor
  <2>2. count' = 2 + Ended' - dropped'
    BY <1>1, <1>7, <1>8 DEF Ended
  <2>3. dropped' \in Nat /\ dropped' + Len(LastFiber'.left) <= 2
    <3>1. \A a, b, d \in Int : a + d <= 2 /\ b = a - 1 => (d + 1) + b <= 2
      OBVIOUS
    <3>2. Len(LastFiber.left) \in Int /\ Len(LastFiber'.left) \in Int /\ dropped \in Int
          /\ Len(LastFiber.left) + dropped <= 2
      BY <1>3, <1>4
    <3>3. (dropped + 1) + Len(LastFiber'.left) <= 2
      BY <1>3, <3>1, <3>2, Zenon
    <3>4. dropped' = dropped + 1
      BY <1>1
    <3>5. dropped' + Len(LastFiber'.left) <= 2
      BY <3>3, <3>4, Zenon
    <3>6. dropped' \in Nat
      BY <1>4, <3>4
    <3> QED
      BY <3>5, <3>6
  <2>4. \A k \in at' + 1 .. N' : ~MayWait(conf', k)
    BY <1>1, <1>4, <1>6 DEF N
  <2> QED
    BY <1>4, <1>6, <2>1, <2>2, <2>3, <2>4 DEF Subbing
<1> QED
  BY <1>9, <1>10, <1>11 DEF TurnInv, Turn

-----------------------------------------------------------------------------
\* A script that has slept is over: only its own variable is assigned.
LEMMA TimerEndsStep ==
    ASSUME TurnInv, NEW w \in waits, NEW code \in Codes, TimerEnds(w, code)
    PROVE  TurnInv'
<1>1. /\ Fires(w, "sleep") /\ Over(w)
      /\ UNCHANGED <<conf, posted, ending, arrived, reading, ctx, dropped>>
      /\ PostFiberTakes(code)
  BY DEF TimerEnds
<1>2. /\ Sleeping /\ ~engine /\ ~ending /\ ~posted /\ at \in 1 .. N /\ N \in Nat
      /\ LastFiber.at = at /\ ~reading /\ life = "open" /\ waits = {w}
      /\ w.fiber = Len(fibers) /\ w.kind = "sleep" /\ Len(fibers) \in Nat \ {0}
  BY <1>1, FiresIs
<1>3. /\ waits' = {} /\ fibers' = fibers /\ variable' = Assigned(w)
  BY <1>1, <1>2 DEF Over
<1>4. /\ wev = "phases" /\ dropped = 0 /\ count = 1
      /\ ctx.set_var_target \in {NoVar, TargetOf(LastFiber)}
  BY <1>2 DEF Sleeping
<1>5. code # NGX_DONE
  <2>1. code \in {NGX_OK, NGX_DECLINED} \cup (300 .. 599)
    BY RequestAssumption DEF RequestAssumption
  <2> QED
    BY <2>1 DEF NGX_OK, NGX_DECLINED, NGX_DONE
<1>6. /\ Working' \/ Closing' \/ Closed'
      /\ estatus' = FALSE /\ engine' \in BOOLEAN
      /\ \/ engine' = FALSE /\ at' = at /\ ip' = ip
         \/ at' = at + 1 /\ ip' = 1
  <2>1. CASE code = NGX_DECLINED
    <3>1. /\ engine' = TRUE /\ at' = at + 1 /\ ip' = 1 /\ estatus' = FALSE
          /\ count' = count /\ UNCHANGED <<wev, life>>
      BY <1>1, <2>1 DEF PostFiberTakes, Proceed, ProceedTo
    <3>2. Working'
      BY <1>1, <1>2, <1>3, <1>4, <3>1 DEF Working
    <3> QED
      BY <3>1, <3>2
  <2>2. CASE code # NGX_DECLINED
    <3>1. Finalize(code, count)
      BY <1>1, <2>2 DEF PostFiberTakes
    <3>2. dropped' \in 0 .. 2 /\ count = (1 + Ended' - dropped') % Word
      <4>1. Ended' = 0 /\ dropped' = 0
        BY <1>1, <1>2, <1>4 DEF Ended
      <4>2. 1 = (1 + 0 - 0) % Word
        BY DEF Word
      <4> QED
        BY <1>4, <4>1, <4>2
    <3>3. /\ Closing' \/ Closed'
          /\ engine' = FALSE /\ UNCHANGED <<at, ip, estatus>>
      BY <1>1, <1>2, <1>3, <1>4, <1>5, <3>1, <3>2, FinalizeCloses
    <3> QED
      BY <3>3, PlaceType
  <2> QED
    BY <2>1, <2>2
<1>7. BodyInv'
  BY ResumeStep DEF TurnInv, Resume
<1>8. Typed' /\ Flags'
  BY <1>1, <1>3, <1>6, PlaceType DEF TurnInv, Typed, Flags
<1>9. \E i \in 1 .. Len(fibers) : fibers[i].at = at
  <2>1. Len(fibers) \in 1 .. Len(fibers)
    BY <1>2
  <2> QED
    BY <1>2, <2>1 DEF LastFiber
<1>10. Progress'
  <2>1. Typed /\ Progress /\ ~estatus' /\ at <= N /\ (engine' = FALSE => ~engine')
    BY <1>2, <1>6 DEF TurnInv
  <2> QED
    BY <1>1, <1>3, <1>6, <1>9, <2>1, ProgressKept
<1>11. variable' \in [Variables -> 0 .. Len(fibers')] /\ OwnVariables'
  <2>1. variable \in [Variables -> 0 .. Len(fibers)] /\ OwnVariables
    BY DEF TurnInv, Targets
  <2>2. CASE ctx.set_var_target = NoVar
    <3>1. variable' = variable
      BY <1>3, <2>2 DEF Assigned
    <3> QED
      BY <1>1, <1>3, <2>1, <3>1 DEF OwnVariables
  <2>3. CASE ctx.set_var_target # NoVar
    <3> DEFINE t == ctx.set_var_target
    <3>1. t \in Variables /\ t = TargetOf(LastFiber)
      BY <1>4, <2>3 DEF TurnInv, Typed
    <3>2. variable' = [variable EXCEPT ![t] = Len(fibers)]
      BY <1>2, <1>3, <2>3 DEF Assigned
    <3> HIDE DEF t
    <3>3. variable' \in [Variables -> 0 .. Len(fibers)]
      <4>1. Len(fibers) \in 0 .. Len(fibers)
        BY <1>2
      <4> QED
        BY <2>1, <3>1, <3>2, <4>1
    <3>4. OwnVariables'
      <4> SUFFICES ASSUME NEW x \in Variables, variable'[x] # 0
                   PROVE  conf.handlers[fibers[variable'[x]].at].scripts[fibers[variable'[x]].ip].target = x
        BY <1>1, <1>3 DEF OwnVariables
      <4>1. CASE x = t
        BY <2>1, <3>1, <3>2, <4>1 DEF TargetOf, LastFiber
      <4>2. CASE x # t
        BY <2>1, <3>1, <3>2, <4>2 DEF OwnVariables
      <4> QED
        BY <4>1, <4>2
    <3> QED
      BY <1>3, <3>3, <3>4
  <2> QED
    BY <2>2, <2>3
<1>12. Targets'
  <2>1. ASSUME ctx.set_var_target # NoVar
        PROVE  \E k \in 1 .. N : k <= at' /\ conf.handlers[k].phase = "set"
    <3>1. PICK k \in 1 .. N : k <= at /\ conf.handlers[k].phase = "set"
      BY <2>1 DEF TurnInv, Targets
    <3>2. k <= at'
      BY <1>2, <1>6, <3>1
    <3> QED
      BY <3>1, <3>2
  <2> QED
    BY <1>1, <1>11, <2>1 DEF Targets, N
<1> QED
  BY <1>6, <1>7, <1>8, <1>10, <1>12 DEF TurnInv, Turn

\* A script that made subrequests is over.
LEMMA SubEndsStep ==
    ASSUME TurnInv, NEW w \in waits, NEW code \in Codes, SubEnds(w, code)
    PROVE  TurnInv'
<1>1. /\ Fires(w, "sub") /\ Over(w) /\ ending' = TRUE
      /\ ctx' = [ctx EXCEPT !.sub_response_more = FALSE]
      /\ UNCHANGED <<conf, posted, arrived, reading, dropped>>
      /\ SubTakes(code)
  BY DEF SubEnds
<1>2. /\ Subbing /\ ~engine /\ ~ending /\ ~posted /\ at \in 1 .. N /\ N \in Nat
      /\ LastFiber.at = at /\ ~reading /\ life = "open" /\ waits = {w}
      /\ w.fiber = Len(fibers) /\ w.kind = "sub" /\ Len(fibers) \in Nat \ {0}
      /\ LastFiber.left \in Seq({"sub"})
  BY <1>1, FiresIs
<1>3. waits' = {} /\ fibers' = fibers /\ variable' = variable
  BY <1>1, <1>2 DEF Over, Assigned
<1>4. /\ wev = "writer" /\ count = 2 - dropped /\ dropped \in 0 .. 2
      /\ \A k \in at + 1 .. N : ~MayWait(conf, k)
  <2>1. /\ dropped \in Nat /\ dropped + Len(LastFiber.left) <= 2 /\ count = 2 - dropped
        /\ Len(LastFiber.left) \in Nat
    BY <1>2 DEF Subbing, Ended
  <2> QED
    BY <1>2, <2>1 DEF Subbing
<1>5. code # NGX_DONE
  <2>1. code \in {NGX_OK, NGX_DECLINED} \cup (300 .. 599)
    BY RequestAssumption DEF RequestAssumption
  <2> QED
    BY <2>1 DEF NGX_OK, NGX_DECLINED, NGX_DONE
<1>6. Ended' = 1 /\ count = (1 + Ended' - dropped') % Word
  <2>1. Ended' = 1
    BY <1>1 DEF Ended
  <2>2. 2 - dropped = (1 + 1 - dropped) % Word
    BY <1>4 DEF Word
  <2> QED
    BY <1>1, <1>4, <2>1, <2>2
<1>7. /\ Working' \/ Closing' \/ Closed'
      /\ estatus' = FALSE /\ engine' \in BOOLEAN
      /\ \/ engine' = FALSE /\ at' = at /\ ip' = ip
         \/ at' = at + 1 /\ ip' = 1
  <2>1. CASE code = NGX_OK
    <3>1. UNCHANGED <<at, ip, estatus, engine, wev, count, life>>
      BY <1>1, <2>1 DEF SubTakes
    <3>2. Closing'
      BY <1>1, <1>2, <1>3, <1>4, <1>6, <3>1 DEF Closing
    <3> QED
      BY <1>2, <3>1, <3>2, PlaceType
  <2>2. CASE code # NGX_OK /\ code = NGX_DECLINED
    <3>1. /\ engine' = TRUE /\ at' = at + 1 /\ ip' = 1 /\ estatus' = FALSE
          /\ count' = count /\ UNCHANGED <<wev, life>>
      BY <1>1, <2>2 DEF SubTakes, PostFiberTakes, Proceed, ProceedTo
    <3>2. fibers' # <<>>
      BY <1>2, <1>3
    <3>3. \A k \in at' .. N' : ~MayWait(conf', k)
      BY <1>1, <1>4, <3>1 DEF N
    <3>4. Working'
      BY <1>1, <1>2, <1>3, <1>4, <3>1, <3>2, <3>3 DEF Working
    <3> QED
      BY <3>1, <3>4
  <2>3. CASE code # NGX_OK /\ code # NGX_DECLINED
    <3>1. Finalize(code, count)
      BY <1>1, <2>3 DEF SubTakes, PostFiberTakes
    <3>2. /\ Closing' \/ Closed'
          /\ engine' = FALSE /\ UNCHANGED <<at, ip, estatus>>
      BY <1>1, <1>2, <1>3, <1>4, <1>5, <1>6, <3>1, FinalizeCloses
    <3> QED
      BY <3>2, PlaceType
  <2> QED
    BY <2>1, <2>2, <2>3
<1>8. BodyInv'
  BY ResumeStep DEF TurnInv, Resume
<1>9. /\ ctx' \in [request_body_more : BOOLEAN, read_request_body_done : BOOLEAN,
                   sub_response_more : BOOLEAN, set_var_target : Variables \cup {NoVar}]
      /\ ctx'.set_var_target = ctx.set_var_target
  BY <1>1 DEF TurnInv, Typed
<1>10. Typed' /\ Flags'
  BY <1>1, <1>3, <1>7, <1>9, PlaceType DEF TurnInv, Typed, Flags
<1>11. \E i \in 1 .. Len(fibers) : fibers[i].at = at
  <2>1. Len(fibers) \in 1 .. Len(fibers)
    BY <1>2
  <2> QED
    BY <1>2, <2>1 DEF LastFiber
<1>12. Progress'
  <2>1. Typed /\ Progress /\ ~estatus' /\ at <= N /\ (engine' = FALSE => ~engine')
    BY <1>2, <1>7 DEF TurnInv
  <2> QED
    BY <1>1, <1>3, <1>7, <1>11, <2>1, ProgressKept
<1>13. Targets'
  <2>1. ASSUME ctx.set_var_target # NoVar
        PROVE  \E k \in 1 .. N : k <= at' /\ conf.handlers[k].phase = "set"
    <3>1. PICK k \in 1 .. N : k <= at /\ conf.handlers[k].phase = "set"
      BY <2>1 DEF TurnInv, Targets
    <3>2. k <= at'
      BY <1>2, <1>7, <3>1
    <3> QED
      BY <3>1, <3>2
  <2>2. variable' \in [Variables -> 0 .. Len(fibers')] /\ OwnVariables'
    BY <1>1, <1>3 DEF TurnInv, Targets, OwnVariables
  <2> QED
    BY <1>1, <1>9, <2>1, <2>2 DEF Targets, N
<1> QED
  BY <1>7, <1>8, <1>10, <1>12, <1>13 DEF TurnInv, Turn

-----------------------------------------------------------------------------
\* A new request is at its first script.
LEMMA TurnStart ==
    ASSUME Init, Sequential(conf)
    PROVE  TurnInv
<1> USE DEF Init
<1>0. conf \in Configs /\ N \in Nat /\ \A k \in 1 .. N : Len(conf.handlers[k].scripts) \in Nat \ {0}
  BY ConfType
<1>1. BodyInv
  BY DEF BodyInv, Members
<1>2. ctx \in [request_body_more : BOOLEAN, read_request_body_done : BOOLEAN,
               sub_response_more : BOOLEAN, set_var_target : Variables \cup {NoVar}]
  OBVIOUS
<1>3. fibers \in Seq(FiberRecord) /\ Len(fibers) = 0
  OBVIOUS
<1>4. Typed /\ Flags
  BY <1>0, <1>2, <1>3 DEF Typed, Flags
<1>5. Progress
  <2>1. 1 <= N => ip <= Len(Scripts)
    <3>1. ASSUME 1 <= N PROVE ip <= Len(Scripts)
      <4>1. Len(Scripts) \in Nat \ {0}
        BY <1>0, <3>1 DEF Scripts
      <4> QED
        BY <4>1
    <3> QED
      BY <3>1
  <2> QED
    BY <1>0, <1>3, <2>1 DEF Progress
<1>6. Working
  BY DEF Working
<1>7. Targets
  BY <1>3 DEF Targets, OwnVariables
<1> QED
  BY <1>1, <1>4, <1>5, <1>6, <1>7 DEF TurnInv, Turn

\* Handlers that wait one after the other keep taking turns.
LEMMA TurnNext == TurnInv /\ [Next]_vars => TurnInv'
<1> SUFFICES ASSUME TurnInv, [Next]_vars PROVE TurnInv'
  OBVIOUS
<1>1. CASE UNCHANGED vars
  <2>1. UNCHANGED <<conf, at, ip, estatus, engine, wev, posted, ending, count, life,
                    arrived, reading, ctx, waits, fibers, variable, dropped>>
    BY <1>1 DEF vars
  <2>2. BodyInv' /\ Typed' /\ Flags'
    BY <2>1 DEF TurnInv, BodyInv, Typed, Flags
  <2>3. Progress'
    BY <2>1 DEF TurnInv, Progress, Before, N, Scripts
  <2>4. Targets'
    BY <2>1 DEF TurnInv, Targets, OwnVariables, N
  <2>5. LastFiber' = LastFiber /\ Ended' = Ended /\ N' = N
    BY <2>1 DEF LastFiber, Ended, N
  <2>6. Sleeping => Sleeping'
    BY <2>1, <2>5 DEF Sleeping, Waits, TargetOf, N
  <2>7. Subbing => Subbing'
    BY <2>1, <2>5 DEF Subbing, Waits
  <2>8. Working \/ Reading => Working' \/ Reading'
    BY <2>1, <2>5 DEF Working, Reading
  <2>9. Closing \/ Closed => Closing' \/ Closed'
    BY <2>1, <2>5 DEF Closing, Closed
  <2> QED
    BY <2>2, <2>3, <2>4, <2>6, <2>7, <2>8, <2>9 DEF TurnInv, Turn
<1>2. CASE Runs /\ Run
  BY <1>2, AwaitStep, WaitStep, EndStep DEF Run
<1>3. CASE Serve \/ SubFinalized \/ RunPosted
  BY <1>3, ServeStep, SubFinalizedStep, RunPostedStep
<1>4. CASE Event
  <2>1. ASSUME NEW w \in waits, Resume(w) PROVE TurnInv'
    BY <2>1, TimerAgainStep, SubAgainStep, TimerEndsStep, SubEndsStep DEF Resume
  <2> QED
    BY <1>4, <2>1, BodyStep DEF Event
<1> QED
  BY <1>1, <1>2, <1>3, <1>4 DEF Next

-----------------------------------------------------------------------------
\* What becomes of the write handler and of the request itself.
Shapes == wev \in {"phases", "writer", "empty"} /\ life \in {"open", "freed"}

\* Every step leaves them with one of their values.
LEMMA ShapesNext == Shapes /\ [Next]_vars => Shapes'
<1> SUFFICES ASSUME Shapes, [Next]_vars PROVE Shapes'
  OBVIOUS
<1> USE DEF Shapes
<1>1. ASSUME NEW rc, NEW n, Finalize(rc, n) PROVE Shapes'
  BY <1>1 DEF Finalize, Drop
<1>2. ASSUME NEW n, Proceed(n) \/ PassPhase(n) \/ Wait(n) PROVE Shapes'
  BY <1>2 DEF Proceed, PassPhase, ProceedTo, Wait
<1>3. ASSUME UNCHANGED <<wev, life>> PROVE Shapes'
  BY <1>3
<1>4. ASSUME NEW rc, NEW n, EngineTakes(rc, n) PROVE Shapes'
  <2>1. CASE Phase = "set"
    BY <1>2, <1>3, <1>4, <2>1 DEF EngineTakes, SetBlockTakes
  <2>2. CASE Phase # "set"
    BY <1>1, <1>2, <1>4, <2>2 DEF EngineTakes
  <2> QED
    BY <2>1, <2>2
<1>5. CASE UNCHANGED vars
  BY <1>3, <1>5 DEF vars
<1>6. CASE Run
  BY <1>4, <1>6 DEF Run, RunAwaitsBody, RunWaits, RunEnds
<1>7. CASE Serve \/ SubFinalized \/ RunPosted
  <2>1. CASE Serve
    BY <1>1, <2>1 DEF Serve
  <2>2. CASE SubFinalized
    BY <1>3, <2>2 DEF SubFinalized
  <2>3. CASE RunPosted
    BY <1>1, <1>3, <2>3 DEF RunPosted
  <2> QED
    BY <1>7, <2>1, <2>2, <2>3
<1>8. CASE ReadRequestBodyCb \/ BodyFails
  BY <1>8 DEF ReadRequestBodyCb, BodyFails
<1>9. ASSUME NEW w \in waits, Resume(w) PROVE Shapes'
  <2>1. CASE TimerAgain(w)
    BY <1>3, <2>1 DEF TimerAgain
  <2>2. CASE SubAgain(w)
    BY <1>1, <2>2 DEF SubAgain
  <2>3. ASSUME NEW code, PostFiberTakes(code) PROVE Shapes'
    BY <1>1, <1>2, <2>3 DEF PostFiberTakes
  <2>4. ASSUME NEW code, TimerEnds(w, code) PROVE Shapes'
    BY <2>3, <2>4 DEF TimerEnds
  <2>5. ASSUME NEW code, SubEnds(w, code) PROVE Shapes'
    BY <1>3, <2>3, <2>5 DEF SubEnds, SubTakes
  <2> QED
    BY <1>9, <2>1, <2>2, <2>4, <2>5 DEF Resume
<1> QED
  BY <1>5, <1>6, <1>7, <1>8, <1>9 DEF Next, Event

\* The handlers of a request take turns in every state.
LEMMA TurnsTaken == Spec /\ Sequential(conf) => []TurnInv
<1>1. Init /\ Sequential(conf) => TurnInv
  BY TurnStart
<1>2. TurnInv /\ [Next]_vars => TurnInv'
  BY TurnNext
<1> QED
  BY <1>1, <1>2, PTL DEF Spec

\* The values of r->main->count.
LEMMA WordHolds ==
    /\ \A n \in Int : n % Word \in 0 .. Word - 1
    /\ \A n \in 0 .. 3 : n \in 0 .. Word - 1
<1>1. \A n \in Int : n % Word \in 0 .. Word - 1
  BY DEF Word
<1>2. \A n \in 0 .. 3 : n \in 0 .. Word - 1
  BY DEF Word
<1> QED
  BY <1>1, <1>2

\* In each turn the references fit the bit field r->main->count.
LEMMA TurnTyped == TurnInv /\ Shapes => TypeOK
<1> SUFFICES ASSUME TurnInv, Shapes PROVE TypeOK
  OBVIOUS
<1>1. /\ conf \in Configs /\ at \in 1 .. N + 1 /\ ip \in Nat \ {0}
      /\ {estatus, engine, posted, ending, arrived, reading} \subseteq BOOLEAN
      /\ ctx \in [request_body_more : BOOLEAN, read_request_body_done : BOOLEAN,
                  sub_response_more : BOOLEAN, set_var_target : Variables \cup {NoVar}]
      /\ variable \in [Variables -> 0 .. Len(fibers)]
      /\ wev \in {"phases", "writer", "empty"} /\ life \in {"open", "freed"}
  BY DEF TurnInv, Typed, Flags, Progress, Targets, Shapes
<1>2. Len(fibers) \in Nat /\ (fibers # <<>> => Len(fibers) \in 1 .. Len(fibers))
  BY DEF TurnInv, Typed
<1>3. /\ \A n \in Int : n % Word \in 0 .. Word - 1
      /\ \A n \in 0 .. 3 : n \in 0 .. Word - 1
  BY WordHolds
<1>4. Ended \in 0 .. 1
  BY DEF Ended
<1>5. CASE Working
  <2>1. dropped \in Nat /\ count \in 0 .. 3 /\ waits = {}
    BY <1>5 DEF Working
  <2>2. count \in 0 .. Word - 1
    BY <1>3, <2>1
  <2> QED
    BY <1>1, <2>1, <2>2 DEF TypeOK
<1>6. CASE Sleeping
  <2>1. waits \subseteq [kind : {"sleep", "sub"}, fiber : 1 .. Len(fibers)]
    BY <1>2, <1>6 DEF Sleeping, Waits, WaitFor
  <2> QED
    BY <1>1, <1>6, <2>1 DEF Sleeping, Waits, TypeOK, Word
<1>7. CASE Subbing
  <2>1. waits \subseteq [kind : {"sleep", "sub"}, fiber : 1 .. Len(fibers)]
    BY <1>2, <1>7 DEF Subbing, Waits, WaitFor
  <2>2. Len(LastFiber.left) \in Nat
    BY <1>7 DEF Subbing, Waits
  <2>3. dropped \in 0 .. 2 /\ count = 2 + Ended - dropped
    BY <1>7, <2>2 DEF Subbing
  <2>4. count \in 0 .. Word - 1
    <3>1. count \in 0 .. 3
      BY <1>4, <2>3
    <3> QED
      BY <1>3, <3>1
  <2> QED
    BY <1>1, <1>7, <2>1, <2>3, <2>4 DEF Subbing, Waits, TypeOK
<1>8. CASE Reading
  BY <1>1, <1>8 DEF Reading, TypeOK, Word
<1>9. CASE Closing
  <2>1. dropped \in Nat /\ count \in 0 .. Word - 1
    BY <1>3, <1>4, <1>9 DEF Closing
  <2> QED
    BY <1>1, <1>9, <2>1 DEF Closing, TypeOK
<1>10. CASE Closed
  <2>1. dropped \in Nat /\ count \in 0 .. Word - 1
    BY <1>3, <1>10 DEF Closed
  <2> QED
    BY <1>1, <1>10, <2>1 DEF Closed, TypeOK
<1> QED
  BY <1>5, <1>6, <1>7, <1>8, <1>9, <1>10 DEF TurnInv, Turn

\* The subrequests in flight are one or none.
LEMMA SubsCount ==
    /\ Cardinality(Subs({})) = 0
    /\ \A f : Cardinality(Subs({WaitFor(f, "sleep")})) = 0
    /\ \A f : Cardinality(Subs({WaitFor(f, "sub")})) = 1
<1>1. Subs({}) = {}
  BY DEF Subs
<1>2. ASSUME NEW f PROVE Subs({WaitFor(f, "sleep")}) = {}
  BY DEF Subs, WaitFor
<1>3. ASSUME NEW f PROVE Subs({WaitFor(f, "sub")}) = {WaitFor(f, "sub")}
  BY DEF Subs, WaitFor
<1>4. Cardinality({}) = 0
  BY FS_EmptySet
<1>5. ASSUME NEW x PROVE Cardinality({x}) = 1
  BY FS_Singleton
<1> QED
  BY <1>1, <1>2, <1>3, <1>4, <1>5

\* In each turn the references are those of the request, of the subrequest
\* in flight and of the one ending, and of the body.
LEMMA TurnBalances == TurnInv => ReferencesBalance
<1> SUFFICES ASSUME TurnInv PROVE ReferencesBalance
  OBVIOUS
<1> DEFINE subs == Cardinality(Subs(waits))
           read == IF reading THEN 1 ELSE 0
           itself == IF life = "open" /\ wev # "empty" THEN 1 ELSE 0
<1>1. SUFFICES /\ count = (itself + (subs + Ended + read) - dropped) % Word
               /\ life = "freed" => waits = {} /\ ~ending /\ ~reading
  BY DEF ReferencesBalance, Ended
<1>2. Ended \in 0 .. 1
  BY DEF Ended
<1>3. \A n \in 0 .. 3 : n = n % Word
  BY DEF Word
<1>4. CASE Working
  <2>1. subs = 0 /\ read = 0 /\ itself = 1 /\ life = "open"
    BY <1>4, SubsCount DEF Working
  <2>2. dropped \in 0 .. 2 /\ count = 1 + Ended - dropped
    BY <1>4 DEF Working, Ended
  <2> HIDE DEF subs, read, itself
  <2>3. 1 + Ended - dropped \in 0 .. 3 \/ ~ending
    BY <1>2, <2>2 DEF Ended
  <2>4. count \in 0 .. 3
    BY <1>4 DEF Working
  <2>5. count = itself + (subs + Ended + read) - dropped
    BY <1>2, <2>1, <2>2
  <2> QED
    BY <1>3, <2>1, <2>4, <2>5
<1>5. CASE Sleeping
  <2>1. subs = 0 /\ read = 0 /\ itself = 1 /\ life = "open"
    BY <1>5, SubsCount DEF Sleeping, Waits
  <2>2. dropped = 0 /\ count = 1 /\ Ended = 0
    BY <1>5 DEF Sleeping, Ended
  <2> HIDE DEF subs, read, itself
  <2>3. count = itself + (subs + Ended + read) - dropped /\ count \in 0 .. 3
    BY <2>1, <2>2
  <2> QED
    BY <1>3, <2>1, <2>3
<1>6. CASE Subbing
  <2>1. subs = 1 /\ read = 0 /\ itself = 1 /\ life = "open"
    BY <1>6, SubsCount DEF Subbing, Waits
  <2>2. Len(LastFiber.left) \in Nat
    BY <1>6 DEF Subbing, Waits
  <2>3. dropped \in 0 .. 2 /\ count = 2 + Ended - dropped
    BY <1>6, <2>2 DEF Subbing
  <2> HIDE DEF subs, read, itself
  <2>4. count = itself + (subs + Ended + read) - dropped /\ count \in 0 .. 3
    BY <1>2, <2>1, <2>3
  <2> QED
    BY <1>3, <2>1, <2>4
<1>7. CASE Reading
  <2>1. subs = 0 /\ read = 1 /\ itself = 1 /\ life = "open"
    BY <1>7, SubsCount DEF Reading
  <2>2. dropped = 0 /\ count = 2 /\ Ended = 0
    BY <1>7 DEF Reading, Ended
  <2> HIDE DEF subs, read, itself
  <2>3. count = itself + (subs + Ended + read) - dropped /\ count \in 0 .. 3
    BY <2>1, <2>2
  <2> QED
    BY <1>3, <2>1, <2>3
<1>8. CASE Closing
  <2>1. subs = 0 /\ read = 0 /\ itself = 1 /\ life = "open"
    BY <1>8, SubsCount DEF Closing
  <2>2. dropped \in 0 .. 2 /\ count = (1 + Ended - dropped) % Word
    BY <1>8 DEF Closing
  <2> HIDE DEF subs, read, itself
  <2>3. itself + (subs + Ended + read) - dropped = 1 + Ended - dropped
    BY <1>2, <2>1, <2>2
  <2> QED
    BY <2>1, <2>2, <2>3
<1>9. CASE Closed
  <2>1. subs = 0 /\ read = 0 /\ itself = 0 /\ Ended = 0
        /\ waits = {} /\ ~ending /\ ~reading
    BY <1>9, SubsCount DEF Closed, Ended
  <2>2. dropped \in 0 .. 2 /\ count = (0 - dropped) % Word
    BY <1>9 DEF Closed
  <2> HIDE DEF subs, read, itself
  <2>3. itself + (subs + Ended + read) - dropped = 0 - dropped
    BY <2>1, <2>2
  <2> QED
    BY <2>1, <2>2, <2>3
<1> QED
  BY <1>4, <1>5, <1>6, <1>7, <1>8, <1>9 DEF TurnInv, Turn

\* TypeOK, r->main->count included: for a request whose handlers wait one
\* after the other the bit field never takes a value of another width.
THEOREM RequestTyped == Spec /\ Sequential(conf) => []TypeOK
<1>1. Init => Shapes
  BY DEF Init, Shapes
<1>2. Shapes /\ [Next]_vars => Shapes'
  BY ShapesNext
<1>3. TurnInv /\ Shapes => TypeOK
  BY TurnTyped
<1> QED
  BY <1>1, <1>2, <1>3, TurnsTaken, PTL DEF Spec

\* ReferencesBalance: whatever waits the scripts of such a request go
\* through, nginx counts exactly the references that are held, less those
\* sub_request_done gives up, and frees no request something waits for.
THEOREM ReferencesKept == Spec /\ Sequential(conf) => []ReferencesBalance
<1>1. TurnInv => ReferencesBalance
  BY TurnBalances
<1> QED
  BY <1>1, TurnsTaken, PTL

\* ScriptsStartOnce: the callbacks put such a request back into the phase
\* engine at a script that has not been started, and skip none.
THEOREM StartedOnce == Spec /\ Sequential(conf) => []ScriptsStartOnce
<1>1. TurnInv => ScriptsStartOnce
  <2> SUFFICES ASSUME TurnInv PROVE ScriptsStartOnce
    OBVIOUS
  <2>1. \A i, j \in 1 .. Len(fibers) : i < j =>
          \/ fibers[i].at < fibers[j].at
          \/ fibers[i].at = fibers[j].at /\ fibers[i].ip < fibers[j].ip
    BY DEF TurnInv, Progress, Before
  <2>2. \A k \in 1 .. at - 1 : \E i \in 1 .. Len(fibers) : fibers[i].at = k
    BY DEF TurnInv, Progress
  <2>3. N \in Nat
    BY ConfType DEF TurnInv, Typed
  <2>4. at = N + 1 => \A k \in 1 .. N : k \in 1 .. at - 1
    BY <2>3
  <2> QED
    BY <2>1, <2>2, <2>4 DEF ScriptsStartOnce
<1> QED
  BY <1>1, TurnsTaken, PTL

\* OwnVariables: a late value of mruby_set goes to the target of the script
\* that yields it, however many set handlers have run since it started.
THEOREM VariablesOwn == Spec /\ Sequential(conf) => []OwnVariables
<1>1. TurnInv => OwnVariables
  BY DEF TurnInv, Targets
<1> QED
  BY <1>1, TurnsTaken, PTL
=============================================================================
