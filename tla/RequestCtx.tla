----------------------------- MODULE RequestCtx -----------------------------
(***************************************************************************)
(* One main http request and its ngx_http_mruby_ctx_t, seen through the    *)
(* three things a mruby handler can wait for: the request body             *)
(* (mruby_enable_read_request_body), a subrequest                          *)
(* (Nginx::Async::HTTP.sub_request) and a timer (Nginx::Async.sleep), and  *)
(* through mruby_set, whose variable is assigned late when its script      *)
(* sleeps.                                                                 *)
(*                                                                         *)
(* Each wait ends in a callback that has to put the request back into the  *)
(* phase engine of nginx at the right place and with the right number of   *)
(* references (r->main->count).  What a script writes and what becomes of  *)
(* an exception is the subject of HttpAsync; here the end of a script is   *)
(* the code that ngx_mrb_finalize_rputs makes of it.                       *)
(***************************************************************************)
EXTENDS Integers, Sequences, FiniteSets

CONSTANTS
    Configs,      \* the configurations: [body, handlers]
    Variables,    \* nginx variables
    NoVar,        \* the empty set_var_target
    Codes,        \* codes that the ends of scripts yield
    MaxScripts    \* bound: scripts started for the request

NGX_OK == 0
NGX_AGAIN == -2
NGX_DONE == -4
NGX_DECLINED == -5

GenericPhases == {"post_read", "access"}
Phases == GenericPhases \cup {"set", "rewrite", "content"}

\* A handler is a phase and its scripts: a block of mruby_set directives is
\* one handler of the rewrite phase with one script for each target, any
\* other handler has one script and no target.  The plans of a script are
\* the sequences of waits it may go through.
IsScript(phase, script) ==
    /\ IF phase = "set" THEN script.target \in Variables ELSE script.target = NoVar
    /\ \A plan \in script.plans : plan \in Seq({"sleep", "sub"})
IsHandler(h) ==
    /\ h.phase \in Phases
    /\ IF h.phase = "set" THEN Len(h.scripts) \in Nat \ {0} ELSE Len(h.scripts) = 1
    /\ \A i \in 1 .. Len(h.scripts) : IsScript(h.phase, h.scripts[i])

ASSUME RequestAssumption ==
    /\ NoVar \notin Variables
    /\ \A c \in Configs :
         /\ c.body \in {"off", "early", "late"}
         /\ Len(c.handlers) \in Nat
         /\ \A i \in 1 .. Len(c.handlers) : IsHandler(c.handlers[i])
    /\ Codes \subseteq {NGX_OK, NGX_DECLINED} \cup (300 .. 599)
    /\ MaxScripts \in Nat

VARIABLES
    conf,      \* the configuration
    at,        \* r->phase_handler: index in conf.handlers
    ip,        \* the script of that handler which is next
    estatus,   \* e->status of the set block at hand is NGX_DONE
    engine,    \* the current event runs the phases of the request
    wev,       \* r->write_event_handler: phases, writer, empty
    posted,    \* the request is among the posted requests
    ending,    \* a subrequest is between its handler and its end
    count,     \* r->main->count
    life,      \* open, freed
    arrived,   \* the client has sent the body
    reading,   \* ngx_http_read_client_request_body waits for it
    ctx,       \* ngx_http_mruby_ctx_t
    waits,     \* armed timers and subrequests in flight, with their fibers
    fibers,    \* the scripts started: where, and the waits to come
    variable,  \* variable[x]: the script whose value it has, 0 for none
    dropped    \* history: references given up in sub_request_done

vars == <<conf, at, ip, estatus, engine, wev, posted, ending, count, life,
          arrived, reading, ctx, waits, fibers, variable, dropped>>

-----------------------------------------------------------------------------
N == Len(conf.handlers)
Phase == conf.handlers[at].phase
Scripts == conf.handlers[at].scripts

\* r->main->count is a bit field of 16 bits.
Word == 65536

Subs(ws) == {w \in ws : w.kind = "sub"}
WaitFor(f, kind) == [kind |-> kind, fiber |-> f]
SubRef(kind) == IF kind = "sub" THEN 1 ELSE 0

\* Between two events: the loop of nginx may hand the request the next one.
Idle == life = "open" /\ ~engine /\ ~ending /\ ~posted

-----------------------------------------------------------------------------
(* nginx (external).                                                       *)

\* ngx_http_finalize_connection, with n references: the last one frees.
Drop(n) ==
    /\ count' = (n - 1) % Word
    /\ life' = IF n = 1 THEN "freed" ELSE life

\* ngx_http_finalize_request: with subrequests outstanding the request is
\* left to the writer, otherwise its reference goes.
Finalize(rc, n) ==
    LET postponed == ending' \/ Subs(waits') # {}
    IN  /\ engine' = FALSE
        /\ \/ rc = NGX_DONE /\ Drop(n) /\ UNCHANGED wev
           \/ rc # NGX_DONE /\ postponed /\ wev' = "writer" /\ count' = n /\ UNCHANGED life
           \/ rc # NGX_DONE /\ ~postponed /\ wev' = "empty" /\ Drop(n)
        /\ UNCHANGED <<at, ip, estatus>>

\* The engine goes on at handler k, the next one or the first of the next
\* phase.
ProceedTo(k, n) ==
    /\ at' = k /\ ip' = 1 /\ estatus' = FALSE
    /\ engine' = TRUE
    /\ count' = n
    /\ UNCHANGED <<wev, life>>
Proceed(n) == ProceedTo(at + 1, n)
PassPhase(n) ==
    \E k \in at + 1 .. N + 1 :
        /\ \A j \in at + 1 .. k - 1 : conf.handlers[j].phase = Phase
        /\ k <= N => conf.handlers[k].phase # Phase
        /\ ProceedTo(k, n)

Wait(n) ==
    /\ engine' = FALSE
    /\ count' = n
    /\ ip' = 1 /\ estatus' = FALSE
    /\ UNCHANGED <<at, wev, life>>

\* ndk_set_var_code_finalize and ngx_http_rewrite_handler: the block goes on
\* whatever its scripts return, and waits at its end if one of them waits.
SetBlockTakes(rc, n) ==
    LET done == estatus \/ rc = NGX_DONE
    IN  \/ /\ ip < Len(Scripts)
           /\ ip' = ip + 1 /\ estatus' = done /\ count' = n
           /\ UNCHANGED <<at, engine, wev, life>>
        \/ ip = Len(Scripts) /\ done /\ Wait(n)
        \/ ip = Len(Scripts) /\ ~done /\ Proceed(n)

\* The phase checkers.  OK passes an access handler ("satisfy all") and the
\* whole of the post-read phase.
EngineTakes(rc, n) ==
    IF Phase = "set" THEN SetBlockTakes(rc, n)
    ELSE IF rc = NGX_DECLINED \/ (rc = NGX_OK /\ Phase = "access")
    THEN Proceed(n)
    ELSE IF rc = NGX_OK /\ Phase = "post_read" THEN PassPhase(n)
    ELSE IF \/ rc = NGX_DONE /\ Phase # "content"
            \/ rc = NGX_AGAIN /\ Phase \in GenericPhases
    THEN Wait(n)
    ELSE Finalize(rc, n)

\* All mruby handlers are passed: the content handler of nginx answers.
Serve ==
    /\ engine /\ at = N + 1
    /\ UNCHANGED <<conf, posted, ending, arrived, reading, ctx, waits, fibers, variable, dropped>>
    /\ Finalize(NGX_OK, count)

\* A subrequest whose handler is done gives its reference back and posts
\* the parent.
SubFinalized ==
    /\ ending /\ ~engine
    /\ ending' = FALSE
    /\ posted' = TRUE
    /\ count' = (count - 1) % Word
    /\ UNCHANGED <<conf, at, ip, estatus, engine, wev, life, arrived, reading, ctx,
                   waits, fibers, variable, dropped>>

\* ngx_http_run_posted_requests calls the write handler of the request.
RunPosted ==
    /\ posted /\ ~engine /\ ~ending
    /\ posted' = FALSE
    /\ UNCHANGED <<conf, ending, arrived, reading, ctx, waits, fibers, variable, dropped>>
    /\ \/ /\ life = "open" /\ wev = "phases"
          /\ engine' = TRUE
          /\ UNCHANGED <<at, ip, estatus, wev, count, life>>
       \/ /\ life = "open" /\ wev = "writer"
          /\ Finalize(NGX_OK, count)
       \/ /\ life = "freed" \/ wev = "empty"
          /\ UNCHANGED <<at, ip, estatus, engine, wev, count, life>>
-----------------------------------------------------------------------------
(* ngx_mrb_run, called by the handler the engine is at.                    *)

Runs == engine /\ at <= N
NeedsBody == conf.body # "off" /\ ~ctx.read_request_body_done

\* The body is still on its way: reading takes a reference, and the handler
\* asks the engine to wait.
AwaitingAsDone == [ctx EXCEPT !.request_body_more = TRUE, !.read_request_body_done = TRUE]
AwaitingBody == [ctx EXCEPT !.request_body_more = TRUE, !.read_request_body_done = FALSE]
RunAwaitsBody ==
    /\ Runs /\ NeedsBody /\ ~arrived
    /\ reading' = TRUE
    /\ ctx' = AwaitingBody
    /\ UNCHANGED <<conf, posted, ending, arrived, waits, fibers, variable, dropped>>
    /\ EngineTakes(NGX_AGAIN, count + 1)

\* With the body there (the callback has run and given its reference back)
\* the set handlers note their target, and the script starts.
BodyRead == [ctx EXCEPT !.read_request_body_done = conf.body # "off"]
Targeted(c) == IF Phase = "set" THEN [c EXCEPT !.set_var_target = Scripts[ip].target] ELSE c
Starts ==
    /\ Runs /\ (NeedsBody => arrived)
    /\ Len(fibers) < MaxScripts

\* ctx->fiber_proc: the fiber about to run.
PreviousFiber == Len(fibers)
NewFiber == Len(fibers) + 1
Started(left) == Append(fibers, [at |-> at, ip |-> ip, left |-> left])

\* The script waits: sub_response_more decides what the engine is told.
RunWaits(plan) ==
    /\ Starts /\ plan # <<>>
    /\ fibers' = Started(Tail(plan))
    /\ waits' = waits \cup {WaitFor(NewFiber, Head(plan))}
    /\ ctx' = [Targeted(BodyRead) EXCEPT !.sub_response_more = Head(plan) = "sub"]
    /\ UNCHANGED <<conf, posted, ending, arrived, reading, variable, dropped>>
    /\ EngineTakes(IF ctx'.sub_response_more THEN NGX_AGAIN ELSE NGX_DONE,
                   count + SubRef(Head(plan)))

\* The script ends at once: a set block assigns its value, the engine takes
\* the code of any other handler.
RunEnds(code) ==
    /\ Starts /\ <<>> \in Scripts[ip].plans
    /\ fibers' = Started(<<>>)
    /\ ctx' = [Targeted(BodyRead) EXCEPT !.sub_response_more = FALSE]
    /\ variable' = IF Phase = "set" THEN [variable EXCEPT ![Scripts[ip].target] = NewFiber]
                   ELSE variable
    /\ UNCHANGED <<conf, posted, ending, arrived, reading, waits, dropped>>
    /\ EngineTakes(IF Phase = "set" THEN NGX_OK ELSE code, count)

-----------------------------------------------------------------------------
(* ngx_http_mruby_read_request_body_cb.                                    *)

\* The body has come: its reference goes, and the phases run again if a
\* handler is waiting.
MoreForgotten == FALSE
More == ctx.request_body_more
ReferenceKept == count
ReferenceGiven == (count - 1) % Word
ReadRequestBodyCb ==
    /\ Idle /\ reading
    /\ arrived' = TRUE /\ reading' = FALSE
    /\ count' = ReferenceGiven
    /\ engine' = More
    /\ ctx' = [ctx EXCEPT !.read_request_body_done = TRUE, !.request_body_more = FALSE]
    /\ UNCHANGED <<conf, at, ip, estatus, wev, posted, ending, life, waits, fibers, variable, dropped>>

\* The client goes away or is too slow: nginx terminates the request, with
\* all its references; the cleanups of the module delete its timers.
BodyFails ==
    /\ Idle /\ reading
    /\ reading' = FALSE
    /\ count' = 0 /\ life' = "freed" /\ waits' = {}
    /\ UNCHANGED <<conf, at, ip, estatus, engine, wev, posted, ending, arrived, ctx,
                   fibers, variable, dropped>>

-----------------------------------------------------------------------------
(* ngx_mrb_post_fiber, called by the timer handler and by the handler of   *)
(* a subrequest.                                                           *)

\* The fiber of w goes on to its next wait.
Again(w) ==
    LET left == fibers[w.fiber].left
    IN  /\ left # <<>>
        /\ fibers' = [fibers EXCEPT ![w.fiber].left = Tail(left)]
        /\ waits' = (waits \ {w}) \cup {WaitFor(w.fiber, Head(left))}
        /\ ctx' = [ctx EXCEPT !.sub_response_more = (Head(left) = "sub")
                                                    \/ (w.kind = "sleep" /\ @)]

\* A script that slept is over: its value goes to set_var_target, the
\* target of the set handler that ran last.
AssignedAfterAny(w) ==
    IF ctx.set_var_target = NoVar THEN variable
    ELSE [variable EXCEPT ![ctx.set_var_target] = w.fiber]
Assigned(w) ==
    IF w.kind = "sub" \/ ctx.set_var_target = NoVar THEN variable
    ELSE [variable EXCEPT ![ctx.set_var_target] = w.fiber]
Over(w) ==
    /\ fibers[w.fiber].left = <<>>
    /\ waits' = waits \ {w}
    /\ variable' = Assigned(w)
    /\ UNCHANGED fibers

Fires(w, kind) == Idle /\ w \in waits /\ w.kind = kind

\* ngx_mrb_timer_handler: a fiber that waits again leaves the request as it
\* is, the end of a script steps over its handler (DECLINED) or finalizes.
PostFiberStays(code) ==
    IF code = NGX_DECLINED THEN engine' = TRUE /\ UNCHANGED <<at, ip, estatus, wev, count, life>>
    ELSE Finalize(code, count)
PostFiberTakes(code) ==
    IF code = NGX_DECLINED THEN Proceed(count) ELSE Finalize(code, count)

TimerAgain(w) ==
    /\ Fires(w, "sleep") /\ Again(w)
    /\ count' = count + SubRef(Head(fibers[w.fiber].left))
    /\ UNCHANGED <<conf, at, ip, estatus, engine, wev, posted, ending, life, arrived,
                   reading, variable, dropped>>

TimerEnds(w, code) ==
    /\ Fires(w, "sleep") /\ Over(w)
    /\ UNCHANGED <<conf, posted, ending, arrived, reading, ctx, dropped>>
    /\ PostFiberTakes(code)

\* ngx_mrb_async_http_sub_request_done: a fiber that waits again makes it
\* finalize the parent with NGX_DONE.
SubAgain(w) ==
    /\ Fires(w, "sub") /\ Again(w)
    /\ ending' = TRUE
    /\ dropped' = dropped + 1
    /\ UNCHANGED <<conf, posted, arrived, reading, variable>>
    /\ Finalize(NGX_DONE, count + SubRef(Head(fibers[w.fiber].left)))

SubTakes(code) ==
    IF code = NGX_OK THEN UNCHANGED <<at, ip, estatus, engine, wev, count, life>>
    ELSE PostFiberTakes(code)
SubEnds(w, code) ==
    /\ Fires(w, "sub") /\ Over(w)
    /\ ending' = TRUE
    /\ ctx' = [ctx EXCEPT !.sub_response_more = FALSE]
    /\ UNCHANGED <<conf, posted, arrived, reading, dropped>>
    /\ SubTakes(code)

-----------------------------------------------------------------------------
Init ==
    /\ conf \in Configs
    /\ at = 1 /\ ip = 1 /\ estatus = FALSE
    /\ engine = TRUE /\ wev = "phases" /\ posted = FALSE /\ ending = FALSE
    /\ count = 1 /\ life = "open"
    /\ arrived = (conf.body = "early") /\ reading = FALSE
    /\ ctx = [request_body_more |-> FALSE, read_request_body_done |-> FALSE,
              sub_response_more |-> FALSE, set_var_target |-> NoVar]
    /\ waits = {} /\ fibers = <<>>
    /\ variable = [x \in Variables |-> 0]
    /\ dropped = 0

Run ==
    \/ RunAwaitsBody
    \/ \E plan \in Scripts[ip].plans : RunWaits(plan)
    \/ \E code \in Codes : RunEnds(code)

Resume(w) ==
    \/ TimerAgain(w) \/ SubAgain(w)
    \/ \E code \in Codes : TimerEnds(w, code) \/ SubEnds(w, code)

Event == ReadRequestBodyCb \/ BodyFails \/ (\E w \in waits : Resume(w))

Next == (Runs /\ Run) \/ Serve \/ SubFinalized \/ RunPosted \/ Event

Spec == Init /\ [][Next]_vars

\* An event runs to its end; timers expire, subrequests end, and the client
\* sends its body or is given up.
FairSpec == Spec /\ WF_vars(Next)

-----------------------------------------------------------------------------
(* The configurations whose handlers wait one after the other.             *)

MayWait(c, k) ==
    \E i \in 1 .. Len(c.handlers[k].scripts) :
      \E plan \in c.handlers[k].scripts[i].plans : plan # <<>>

\* A late body is asked for by a phase that can wait for it.  There is one
\* post-read handler at most.  No content handler waits, and in a set block
\* only the last script.  A script that sleeps is that of a set block or comes
\* before all of them; one that makes subrequests, at most three, is that of
\* a rewrite handler, and the last one to wait.
Sequential(c) ==
    /\ \A k \in 2 .. Len(c.handlers) : c.handlers[k].phase # "post_read"
    /\ c.body = "late" /\ Len(c.handlers) > 0 => c.handlers[1].phase \in GenericPhases
    /\ \A k \in 1 .. Len(c.handlers) : \A i \in 1 .. Len(c.handlers[k].scripts) :
         \A plan \in c.handlers[k].scripts[i].plans : plan # <<>> =>
           /\ c.handlers[k].phase # "content"
           /\ i = Len(c.handlers[k].scripts)
           /\ \/ /\ plan \in Seq({"sleep"})
                 /\ c.handlers[k].phase # "set" =>
                      \A j \in 1 .. k - 1 : c.handlers[j].phase # "set"
              \/ /\ plan \in Seq({"sub"}) /\ Len(plan) <= 3
                 /\ c.handlers[k].phase = "rewrite"
                 /\ \A j \in k + 1 .. Len(c.handlers) : ~MayWait(c, j)

-----------------------------------------------------------------------------
(* Properties.                                                             *)

TypeOK ==
    /\ conf \in Configs
    /\ at \in 1 .. N + 1
    /\ ip \in Nat \ {0}
    /\ {estatus, engine, posted, ending, arrived, reading} \subseteq BOOLEAN
    /\ wev \in {"phases", "writer", "empty"}
    /\ count \in 0 .. Word - 1
    /\ life \in {"open", "freed"}
    /\ ctx \in [request_body_more : BOOLEAN, read_request_body_done : BOOLEAN,
                sub_response_more : BOOLEAN, set_var_target : Variables \cup {NoVar}]
    /\ waits \subseteq [kind : {"sleep", "sub"}, fiber : 1 .. Len(fibers)]
    /\ variable \in [Variables -> 0 .. Len(fibers)]
    /\ dropped \in Nat

\* r->main->count is exactly the request itself until it is finalized, its
\* subrequests in flight and the body being read, less one for every time a
\* fiber waited again in sub_request_done, which gives up a reference that
\* is not its own.  No script or callback is left waiting when it is freed.
ReferencesBalance ==
    LET owners == Cardinality(Subs(waits)) + (IF ending THEN 1 ELSE 0)
                                           + (IF reading THEN 1 ELSE 0)
        itself == IF life = "open" /\ wev # "empty" THEN 1 ELSE 0
    IN  /\ count = (itself + owners - dropped) % Word
        /\ life = "freed" => waits = {} /\ ~ending /\ ~reading

\* However often callbacks put the request back into the phase engine, every
\* script starts once, in the order of the handlers, and nginx serves the
\* request only after each of them.
ScriptsStartOnce ==
    /\ \A i, j \in 1 .. Len(fibers) : i < j =>
         \/ fibers[i].at < fibers[j].at
         \/ fibers[i].at = fibers[j].at /\ fibers[i].ip < fibers[j].ip
    /\ engine /\ at = N + 1 => \A k \in 1 .. N : \E i \in 1 .. Len(fibers) : fibers[i].at = k

\* "ngx_mruby reads a HTTP request body before calling mruby code", once:
\* no script starts before the body is complete, also after a wait.
BodyBeforeScripts ==
    conf.body # "off" =>
        /\ fibers # <<>> => arrived
        /\ ~(reading /\ ctx.read_request_body_done)

\* A variable has the value of a script of its own mruby_set directive,
\* never of another handler that waits in the same request.
OwnVariables ==
    \A x \in Variables : variable[x] # 0 =>
        LET f == fibers[variable[x]] IN conf.handlers[f.at].scripts[f.ip].target = x

\* The request comes to its end and is freed: no wait is lost, unless one
\* of its scripts waited again after a subrequest.
RequestFreed == <>(life = "freed" \/ dropped > 0)
=============================================================================
