----------------------------- MODULE HttpAsync -----------------------------
(***************************************************************************)
(* The http half of ngx_mruby in one nginx worker: the phase handlers,     *)
(* which all run their code through ngx_mrb_run in a fiber, the answer     *)
(* that ngx_mrb_finalize_rputs makes of what a script wrote, and           *)
(* Nginx::Async.sleep, which parks the fiber behind an nginx timer whose   *)
(* handler (post_fiber) finishes the phase handler's work later.           *)
(*                                                                         *)
(* All requests share one mrb_state: the global ngx_mruby_request says for *)
(* whom a script runs, mrb->exc is the pending exception.  Within one      *)
(* event nginx runs the phases of one request (engine); a step is one      *)
(* handler call or one resumption.  A script is arbitrary Ruby: in a step  *)
(* it may call rputs and Nginx.return, and then sleeps, returns or raises. *)
(***************************************************************************)
EXTENDS Integers, Sequences

CONSTANTS
    Requests,     \* main requests of one worker
    NoRequest,    \* the NULL pointer
    Handlers,     \* the phases of the mruby handlers configured, in order
    Codes,        \* what scripts pass to Nginx.return
    Rputs,        \* {FALSE} for scripts that never call rputs, else BOOLEAN
    Ends,         \* how scripts finish: "return", "raise"
    MaxSleeps     \* bound: sleeps of the scripts of one request

NGX_OK == 0
NGX_AGAIN == -2
NGX_DONE == -4
NGX_DECLINED == -5
HTTP_OK == 200
HTTP_INTERNAL_SERVER_ERROR == 500

GenericPhases == {"post_read", "access"}      \* checked by the generic checkers
RewritePhases == {"server_rewrite", "rewrite"}

ASSUME HttpAssumption ==
    /\ NoRequest \notin Requests
    /\ Handlers \in Seq(GenericPhases \cup RewritePhases \cup {"content"})
    /\ Codes \subseteq {NGX_OK, NGX_AGAIN, NGX_DONE, NGX_DECLINED} \cup (100 .. 599)
    /\ Rputs \subseteq BOOLEAN
    /\ Ends \subseteq {"return", "raise"}
    /\ MaxSleeps \in Nat

VARIABLES
    request,     \* ngx_mruby_request: the request scripts act upon
    exc,         \* mrb->exc is set
    engine,      \* the request whose phases the current event runs
    life,        \* life[r]: idle, running, asleep, served, finalized, terminated
    at,          \* at[r]: index in Handlers of the handler the engine is at
    status,      \* status[r]: r->headers_out.status, an unsigned word
    chain,       \* chain[r]: rputs_chain: none, open, closed (last_buf set)
    sent,        \* sent[r]: status line sent to the client, 0 for nothing yet
    fiber_proc,  \* fiber_proc[r]: the fiber last run for r
    re,          \* re[r]: the reentrant record its timer points to
    timers,      \* requests with an armed sleep timer
    roots,       \* roots[f]: entries of fiber f among the GC roots
    raised,      \* history: requests one of whose scripts raised
    refused,     \* history: fibers whose last word is an error status
    sleeps       \* history: sleeps of the scripts of r so far

vars == <<request, exc, engine, life, at, status, chain, sent, fiber_proc,
          re, timers, roots, raised, refused, sleeps>>

-----------------------------------------------------------------------------
N == Len(Handlers)

\* A fiber is named by its request and the handler that created it.
Fibers == Requests \X (1 .. N)
NoFiber == <<NoRequest, 0>>

\* headers_out.status is an ngx_uint_t: negative codes wrap.  Word stands
\* for 2^64, any width in which the wrapped codes exceed 100 will do.
Word == 65536
StoredSigned(code) == code
Stored(code) == code % Word
AsInt(st) == IF st >= Word \div 2 THEN st - Word ELSE st

\* What a script does between two switches: rputs or not, Nginx.return with
\* a code or not (NoReturn), rputs again or not.
NoReturn == 1
Writes == [before : Rputs, code : Codes \cup {NoReturn}, after : Rputs]
NoWrites == [before |-> FALSE, code |-> NoReturn, after |-> FALSE]

Puts(ch, does) == IF does THEN "open" ELSE ch

\* Nginx.return (ngx_mrb_send_header): sets the status, closes the chain; a
\* 200 without a body becomes a 500.
ReturnStatus(st, ch, code) ==
    IF code = NoReturn THEN st
    ELSE IF code = HTTP_OK /\ ch = "none" THEN HTTP_INTERNAL_SERVER_ERROR
    ELSE Stored(code)
ReturnChain(ch, code) ==
    IF code = NoReturn \/ ch = "none" THEN ch ELSE "closed"

StatusAfter(st, ch, w) == ReturnStatus(st, Puts(ch, w.before), w.code)
ChainAfter(ch, w) == Puts(ReturnChain(Puts(ch, w.before), w.code), w.after)

\* ngx_mrb_finalize_rputs: the return code for the engine, the status and
\* chain it leaves, and whether it sends the body as a 200.
FinalizeRputs(st, ch) ==
    CASE ch = "none" ->
           [rc |-> IF st >= 100 THEN AsInt(st) ELSE NGX_OK,
            status |-> st, chain |-> ch, out |-> FALSE]
      [] ch # "none" /\ (st = HTTP_OK \/ ch = "open") ->
           [rc |-> NGX_OK, status |-> HTTP_OK, chain |-> "none", out |-> TRUE]
      [] OTHER ->
           [rc |-> AsInt(st), status |-> st, chain |-> ch, out |-> FALSE]
-----------------------------------------------------------------------------
(* nginx (external): the phase checkers and ngx_http_finalize_request.     *)

LetsThrough(k, rc) ==
    rc = NGX_DECLINED \/ (rc = NGX_OK /\ Handlers[k] \in GenericPhases)

Waits(k, rc) ==
    \/ rc = NGX_DONE /\ Handlers[k] # "content"
    \/ rc = NGX_AGAIN /\ Handlers[k] \in GenericPhases

\* DECLINED leads to the next handler.  So does OK in the access phase, where
\* all handlers are to be satisfied ("satisfy all"); in the post-read phase
\* OK leads to the first handler of the next phase.
IsNext(k, rc, j) ==
    \/ rc = NGX_DECLINED /\ j = k + 1
    \/ rc = NGX_OK /\ Handlers[k] = "access" /\ j = k + 1
    \/ /\ rc = NGX_OK /\ Handlers[k] = "post_read"
       /\ j > k
       /\ \A i \in k + 1 .. j - 1 : Handlers[i] = Handlers[k]
       /\ j <= N => Handlers[j] # Handlers[k]

\* Sending a status line: nginx refuses a second one.
Header(r, code) == [sent EXCEPT ![r] = IF @ = 0 THEN code ELSE @]

\* finalize_request answers special codes itself and ends the request.
IsSpecial(rc) == rc >= 300 \/ rc \in {201, 204}
FinalizeRequest(r, rc, out) ==
    /\ sent' = IF out THEN Header(r, HTTP_OK)
               ELSE IF IsSpecial(rc) THEN Header(r, rc)
               ELSE sent
    /\ life' = [life EXCEPT ![r] = "finalized"]
    /\ engine' = NoRequest
    /\ UNCHANGED at

\* The engine moves on to a later handler of r, within the same event.
Proceed(r, rc, out) ==
    /\ \E j \in 1 .. N + 1 :
         IsNext(at[r], rc, j) /\ at' = [at EXCEPT ![r] = j]
    /\ sent' = IF out THEN Header(r, HTTP_OK) ELSE sent
    /\ life' = [life EXCEPT ![r] = "running"]
    /\ engine' = r

\* The engine leaves r alone until an event resumes it.
Wait(r) ==
    /\ life' = [life EXCEPT ![r] = "asleep"]
    /\ engine' = NoRequest
    /\ UNCHANGED <<at, sent>>

\* A request arrives; with mruby handlers behind it the engine runs it to
\* the content handler of nginx, which answers 200.
Arrive(r) ==
    /\ engine = NoRequest /\ life[r] = "idle"
    /\ life' = [life EXCEPT ![r] = "running"]
    /\ engine' = r
    /\ UNCHANGED <<request, exc, at, status, chain, sent, fiber_proc, re,
                   timers, roots, raised, refused, sleeps>>

Serve(r) ==
    /\ engine = r /\ at[r] = N + 1
    /\ life' = [life EXCEPT ![r] = "served"]
    /\ sent' = Header(r, HTTP_OK)
    /\ engine' = NoRequest
    /\ UNCHANGED <<request, exc, at, status, chain, fiber_proc, re, timers,
                   roots, raised, refused, sleeps>>

\* A sleeping request is terminated from outside (its connection is closed
\* by the worker): the cleanup that sleep added deletes the timer.
TerminateKeepsTimer(r) == timers
CleanedTimers(r) == timers \ {r}
Terminate(r) ==
    /\ engine = NoRequest /\ life[r] = "asleep"
    /\ life' = [life EXCEPT ![r] = "terminated"]
    /\ timers' = CleanedTimers(r)
    /\ UNCHANGED <<request, exc, engine, at, status, chain, sent, fiber_proc,
                   re, roots, raised, refused, sleeps>>

-----------------------------------------------------------------------------
(* Scripts.                                                                *)

\* What a script that writes w leaves of the statuses st and of the chains:
\* it acts on the request ngx_mruby_request points to (request').
Written(st, w) ==
    [st EXCEPT ![request'] = StatusAfter(st[request'], chain[request'], w)]
WrittenChain(w) ==
    [chain EXCEPT ![request'] = ChainAfter(chain[request'], w)]

\* run_fiber enters fiber f, whose script writes w.  The last word of a
\* script is an error status unless it returns or writes something later.
Script(f, w) ==
    /\ fiber_proc' = [fiber_proc EXCEPT ![request'] = f]
    /\ refused' = IF w.code >= 300 /\ ~w.after THEN refused \cup {f}
                  ELSE IF w = NoWrites THEN refused
                  ELSE refused \ {f}

\* mrb_gc_register pushes an entry, mrb_gc_unregister removes one.
NeverRegistered(f) == roots
Registered(f) == [roots EXCEPT ![f] = @ + 1]
Unregistered(f) == [roots EXCEPT ![f] = @ - 1]

\* Async.sleep, documented for all but the content handlers: it saves the
\* request's status and fiber, roots the fiber and arms the timer.
Sleeps(f, st, w, armed) ==
    /\ sleeps[f[1]] < MaxSleeps
    /\ Handlers[f[2]] # "content"
    /\ Script(f, w)
    /\ status' = Written(st, w)
    /\ chain' = WrittenChain(w)
    /\ re' = [re EXCEPT ![request'] =
                [fiber |-> fiber_proc'[request'], status |-> status'[request']]]
    /\ timers' = armed \cup {request'}
    /\ roots' = Registered(fiber_proc'[request'])
    /\ sleeps' = [sleeps EXCEPT ![f[1]] = @ + 1]
    /\ UNCHANGED <<exc, raised>>

\* What the phase engine makes of a handler's return code.
EngineTakes(r, rc, out) ==
    \/ LetsThrough(at[r], rc) /\ Proceed(r, rc, out)
    \/ Waits(at[r], rc) /\ Wait(r)
    \/ ~LetsThrough(at[r], rc) /\ ~Waits(at[r], rc) /\ FinalizeRequest(r, rc, out)

-----------------------------------------------------------------------------
(* ngx_mrb_run, called by the handler the engine is at.                    *)

Runs(r) == engine = r /\ at[r] <= N /\ request' = r

RunSleeps(r, w) ==
    /\ Runs(r) /\ ~exc
    /\ Sleeps(<<r, at[r]>>, status, w, timers)
    /\ Wait(r)

\* The script is over, with statuses st: finalize_rputs answers for it.
RunEnds(r, st, w) ==
    LET fin == FinalizeRputs(st[r], WrittenChain(w)[r])
    IN  /\ status' = [st EXCEPT ![r] = fin.status]
        /\ chain' = [WrittenChain(w) EXCEPT ![r] = fin.chain]
        /\ EngineTakes(r, fin.rc, fin.out)
        /\ UNCHANGED <<re, timers, roots, sleeps>>

RunReturns(r, w) ==
    /\ "return" \in Ends
    /\ Runs(r) /\ ~exc
    /\ Script(<<r, at[r]>>, w)
    /\ RunEnds(r, Written(status, w), w)
    /\ UNCHANGED <<exc, raised>>

Failed(r, st) == [st EXCEPT ![r] = HTTP_INTERNAL_SERVER_ERROR]

\* A raise is logged and cleared, the status becomes 500.
RunRaises(r, w) ==
    /\ "raise" \in Ends
    /\ Runs(r) /\ ~exc
    /\ Script(<<r, at[r]>>, w)
    /\ RunEnds(r, Failed(r, Written(status, w)), w)
    /\ raised' = raised \cup {r}
    /\ UNCHANGED exc

\* An exception is still pending: preparing the fiber raises it again, the
\* script never runs.
RunMeetsStaleExc(r) ==
    /\ Runs(r) /\ exc
    /\ RunEnds(r, Failed(r, status), NoWrites)
    /\ exc' = FALSE
    /\ UNCHANGED <<fiber_proc, raised, refused>>

-----------------------------------------------------------------------------
(* ngx_mrb_timer_handler: post_fiber resumes the saved fiber.              *)

\* post_fiber makes r the current request and restores its status.
PushSkipped(r) == request
Pushed(r) == r
Expires(r) == engine = NoRequest /\ r \in timers /\ request' = Pushed(r)
Restored(r) == [status EXCEPT ![r] = re[r].status]

TimerSleeps(r, w) ==
    /\ Expires(r) /\ ~exc
    /\ Sleeps(re[r].fiber, Restored(r), w, timers \ {r})
    /\ UNCHANGED <<engine, life, at, sent>>

\* What post_fiber makes of the code of finalize_rputs: it steps over the
\* handler itself for DECLINED and leaves the rest to finalize_request.
PostFiberForgetsPhases(r, rc, out) ==
    \/ rc \in {NGX_DECLINED, NGX_DONE} /\ Wait(r)
    \/ rc \notin {NGX_DECLINED, NGX_DONE} /\ FinalizeRequest(r, rc, out)
PostFiberTakes(r, rc, out) ==
    \/ rc = NGX_DECLINED /\ Proceed(r, rc, out)
    \/ rc = NGX_DONE /\ Wait(r)
    \/ rc \notin {NGX_DECLINED, NGX_DONE} /\ FinalizeRequest(r, rc, out)

\* The fiber ended: one root entry goes, the record forgets the fiber, and
\* the code of finalize_rputs decides, even if the script raised.
TimerEnds(r, w) ==
    LET fin == FinalizeRputs(Written(Restored(r), w)[r], WrittenChain(w)[r])
    IN  /\ status' = [Written(Restored(r), w) EXCEPT
              ![r] = IF fin.rc # NGX_OK THEN HTTP_INTERNAL_SERVER_ERROR
                     ELSE fin.status]
        /\ chain' = [WrittenChain(w) EXCEPT ![r] = fin.chain]
        /\ re' = [re EXCEPT ![r].fiber = NoFiber]
        /\ timers' = timers \ {r}
        /\ roots' = Unregistered(re[r].fiber)
        /\ PostFiberTakes(r, fin.rc, fin.out)
        /\ UNCHANGED sleeps

TimerReturns(r, w) ==
    /\ "return" \in Ends
    /\ Expires(r) /\ ~exc
    /\ Script(re[r].fiber, w)
    /\ TimerEnds(r, w)
    /\ UNCHANGED <<exc, raised>>

\* A raise is logged, but mrb->exc stays set and the 500 is overwritten.
TimerRaises(r, w) ==
    /\ "raise" \in Ends
    /\ Expires(r) /\ ~exc
    /\ Script(re[r].fiber, w)
    /\ TimerEnds(r, w)
    /\ exc' = TRUE
    /\ raised' = raised \cup {re[r].fiber[1]}

\* With an exception pending, the resumed fiber dies where it slept.
TimerMeetsStaleExc(r) ==
    /\ Expires(r) /\ exc
    /\ fiber_proc' = [fiber_proc EXCEPT ![request'] = re[r].fiber]
    /\ TimerEnds(r, NoWrites)
    /\ UNCHANGED <<exc, raised, refused>>

-----------------------------------------------------------------------------
Init ==
    /\ request = NoRequest
    /\ exc = FALSE
    /\ engine = NoRequest
    /\ life = [r \in Requests |-> "idle"]
    /\ at = [r \in Requests |-> 1]
    /\ status = [r \in Requests |-> 0]
    /\ chain = [r \in Requests |-> "none"]
    /\ sent = [r \in Requests |-> 0]
    /\ fiber_proc = [r \in Requests |-> NoFiber]
    /\ re = [r \in Requests |-> [fiber |-> NoFiber, status |-> 0]]
    /\ timers = {}
    /\ roots = [f \in Fibers |-> 0]
    /\ raised = {}
    /\ refused = {}
    /\ sleeps = [r \in Requests |-> 0]

Run(r) ==
    \/ RunMeetsStaleExc(r)
    \/ \E w \in Writes : RunSleeps(r, w) \/ RunReturns(r, w) \/ RunRaises(r, w)

TimerHandler(r) ==
    \/ TimerMeetsStaleExc(r)
    \/ \E w \in Writes : TimerSleeps(r, w) \/ TimerReturns(r, w) \/ TimerRaises(r, w)

Event(r) == Arrive(r) \/ Run(r) \/ Serve(r) \/ TimerHandler(r)

Next == \E r \in Requests : Event(r) \/ Terminate(r)

\* The engine finishes the event it handles; accepted requests and expired
\* timers are served in turn, however many others there are.
Fairness ==
    \A r \in Requests :
        /\ WF_vars(Run(r)) /\ WF_vars(Serve(r))
        /\ SF_vars(Arrive(r)) /\ SF_vars(TimerHandler(r))

Spec == Init /\ [][Next]_vars
FairSpec == Spec /\ Fairness

-----------------------------------------------------------------------------
(* Properties.                                                             *)

Closed == {"served", "finalized", "terminated"}

TypeOK ==
    /\ request \in Requests \cup {NoRequest}
    /\ exc \in BOOLEAN
    /\ engine \in Requests \cup {NoRequest}
    /\ life \in [Requests -> {"idle", "running", "asleep"} \cup Closed]
    /\ at \in [Requests -> 1 .. N + 1]
    /\ status \in [Requests -> 0 .. Word - 1]
    /\ chain \in [Requests -> {"none", "open", "closed"}]
    /\ sent \in [Requests -> {0} \cup (100 .. 599)]
    /\ fiber_proc \in [Requests -> Fibers \cup {NoFiber}]
    /\ re \in [Requests -> [fiber : Fibers \cup {NoFiber}, status : 0 .. Word - 1]]
    /\ timers \subseteq Requests
    /\ roots \in [Fibers -> Nat]
    /\ raised \subseteq Requests
    /\ refused \subseteq Fibers
    /\ sleeps \in [Requests -> Nat]

\* An armed timer belongs to a request that is parked at the handler whose
\* fiber it resumes: post_fiber never meets a freed request, a missing fiber
\* or the fiber of an earlier handler, and restores the status it left.
TimerResumesOwner ==
    \A r \in timers :
        /\ life[r] = "asleep" /\ engine # r
        /\ re[r] = [fiber |-> <<r, at[r]>>, status |-> status[r]]

\* A fiber that a timer will resume is a GC root all along, although every
\* sleep registers it and only the end of the script unregisters it.
SleepingFiberRooted ==
    \A r \in timers : roots[<<r, at[r]>>] >= 1

\* Scripts find their request through one global pointer, and still the
\* answer of a request (status, body, status line) changes only in events
\* of its own: its phases running, or its own timer expiring.
EffectsStayHome ==
    [][\A r \in Requests :
         <<status[r], chain[r], sent[r]>>' # <<status[r], chain[r], sent[r]>>
         => engine = r \/ (r \in timers /\ (r \notin timers' \/ sleeps'[r] # sleeps[r]))]_vars

\* Once a request is served, finalized or terminated, no late timer and no
\* other request's script touches it or its answer again.
ClosedIsFinal ==
    [][\A r \in Requests : life[r] \in Closed =>
         <<life[r], at[r], status[r], chain[r], sent[r]>>'
           = <<life[r], at[r], status[r], chain[r], sent[r]>>]_vars

\* Access control: nginx's own content is served only to requests none of
\* whose handlers ended with an error status as its last word, however the
\* sleeps of several requests interleave.
RefusedNeverServed ==
    \A r \in Requests : life[r] = "served" => \A k \in 1 .. N : <<r, k>> \notin refused

\* Every request is answered and closed, however often its scripts sleep,
\* unless a script itself tells the engine to wait (AGAIN, DONE).
EveryRequestCloses == \A r \in Requests : <>(life[r] \in Closed)

\* "return 500 HTTP status code to client": a request that ends after one of
\* its scripts raised is answered with 500.
RaiseAnswers500 ==
    \A r \in raised : life[r] \in {"served", "finalized"} =>
        sent[r] = HTTP_INTERNAL_SERVER_ERROR
=============================================================================
