# ngx_mruby in TLA+

ngx_mruby embeds an mruby interpreter in nginx: directives in the nginx
configuration name Ruby scripts, and the module runs them in the phases of an
http request, in the output filters, in the TLS handshake, and in stream
sessions. This directory models the parts of the module in which state outlives
one call, checks them with TLC on small instances, and proves with TLAPS, for
instances of any size, the safety properties on which the rest depends.

Paths below are relative to the repository root; `http/` and `stream/` stand
for `src/http/ngx_http_mruby_` and `src/stream/ngx_stream_mruby_`.

## 1. Inventory

An nginx worker is one process with one event loop. Nothing runs in parallel,
but scripts of many requests interleave at every `sleep`, and all of them share
one `mrb_state` per module (http, stream), with its pending exception
`mrb->exc`, its GC roots and its "current request".

| Component | State it keeps | Operations | What makes it correct |
|---|---|---|---|
| Stream handler, `Nginx::Stream::Async` (`stream/module.c`, `stream/async.c`, `stream/connection.c`) | `ictx` (current session and `stream_status`) in `mrb->ud`, fiber per session, reentrant record, timer, GC roots, `mrb->exc` | access handler, `stream_status=`, `sleep`, timer handler | a session is let through or refused by its own script only; timers resume the fiber of their session; every session is decided |
| Http phase handlers, `Nginx.return`, `rputs`, `Nginx::Async.sleep` (`http/module.c`, `http/core.c`, `http/async.c`, `http/request.c`) | global `ngx_mruby_request`, request context (fiber, `rputs_chain`), `headers_out.status`, reentrant record, timer, GC roots, `mrb->exc` | `ngx_mrb_run`, `finalize_rputs`, `sleep`, `post_fiber`, request cleanup | scripts act on their own request; a refused request is never served; timers never meet a finished request; every request is closed and answered as the script said |
| Output filters (`http/module.c`, `http/core.c`, `http/filter.c`) | `ctx->phase`, `ctx->body`, `body_length`, `connection->buffered` | header filter, body filter, `Filter#body`, `Filter#body=` | the body script runs once, on the whole body; header before body, with the right length; nothing is lost or kept back |
| Configuration and code objects (`http/module.c`, `stream/module.c`) | code objects and compiler contexts per block, sharing by merging, cleanup handlers of the pool, the interpreter | directives, merging, (re)compilation, `init`/`init_worker`/`exit_worker` scripts, cleanup | no context freed twice or after `mrb_close`; none leaks; a block points to, and runs, the code of the innermost block that names one |
| `Headers_in`, `Headers_out` (`http/request.c`) | the `ngx_list_t` of nginx, changed in place | `[]`, `[]=`, `delete` | what is set is read back; what is deleted, and nothing else, is gone; the list stays a list |
| `Nginx::Async::HTTP.sub_request` (`http/async.c`) | `sub_response_more`, posted requests, references of the main request | `sub_request`, completion callback, `last_response` | the parent is put back into the phase engine at the right place; references balance |
| Request body (`http/module.c`) | `request_body_more`, `read_request_body_done`, request reference count | `read_request_body`, its callback | the body is read once, before any script |
| `mruby_set` (`http/module.c`, `http/async.c`), `Nginx::Var` (`http/var.c`) | `set_var_target` | set handlers, late assignment, `get`, `set` | a variable is assigned by its own directive |
| TLS handshake, `Nginx::SSL` (`http/module.c`, `http/ssl.c`) | certificate and key in the server configuration | certificate callback, setters | a handshake shows the certificate of the name asked for |
| ACME client (`mrbgems/auto-ssl`) | account key, token, authorization uri and pair in redis | `auto_cert_deploy` | through failures and overlaps the pair fits and is deployed once |
| `Nginx::Stream::Connection#upstream_server=`, `Nginx::Upstream` (`stream/connection.c`, `http/upstream.c`) | the peer of an upstream block, one per worker | `upstream_server=`, `server=` | a session reaches the server that was chosen |
| `Connection`, `Request` attributes, `redirect`, `add_listener`, logging | none of its own | accessors and one-shot calls into nginx | - |
| Ruby wrappers, vendored mruby, `ngx_devel_kit` | - | - | - |

Interactions. nginx's phase engines call the handlers and interpret their return
code; `sleep` hands the fiber to nginx's timers; the timer handler re-enters the
phase engine (`ngx_http_core_run_phases`, `ngx_stream_core_run_phases`); nginx
runs request cleanups and pool cleanups; every handler leaves the interpreter's
globals for the next one to overwrite.

What is hard here, and where, is the list `hazards` of `PROJECT.json`:
interleavings through the shared globals, `mrb->exc` surviving a timer handler, return
codes that mean one thing to the phase engine and another to `post_fiber`, a
timer racing the end of its request, three kinds of waits that share one request
context, bodies cut at any place, unsigned statuses, in-place deletion from an
append-only list, cleanup order, memory of one session's pool read by another,
and workers that write the same redis entries while calls fail and processes die.

## 2. Modules

| Module | What it is |
|---|---|
| `SessionGate` | abstract specification of the stream side: every session is a gate of its own, decided by its own last vote |
| `StreamAsync` | the stream handler and `sleep`; implements `SessionGate` |
| `StreamUpstream` | `StreamAsync` composed with scripts that choose the upstream server |
| `StreamProofs` | the TLAPS proofs about `StreamAsync` and the composition |
| `HttpAsync`, `HttpAsyncProofs` | the http phase handlers, the answer, and `sleep`; proofs |
| `RequestCtx`, `RequestCtxProofs` | one request that waits for its body, subrequests and timers, and `mruby_set`; proofs |
| `BodyFilter`, `BodyFilterProofs` | header and body filter of one response; proofs |
| `Iteration` | induction over numbers and what it says of folds; lemmas for `BodyFilterProofs` and `HeaderListProofs` |
| `AutoSsl`, `AutoSslProofs` | TLS handshakes in several workers with the ACME client, redis and the ACME server; proofs |
| `CodeConf`, `CodeConfProofs` | code objects from the directive to `mrb_close`, for both sides; proofs |
| `HeaderList`, `HeaderListProofs` | set and delete on the list of headers; proofs |
| `MC*` | instances of the above for TLC (constants only) |

Conventions. A step is what happens between two returns to the event loop, or,
in `HttpAsync`, between two decisions of the phase engine (an event may run
several handlers of one request; `engine` names the request, and no other event
starts meanwhile). A script is arbitrary Ruby: in a step it does any of the
writes the model tells apart and then sleeps, returns or raises. Variables
commented `history` record what scripts did and are never read by a guard, except that
`sleeps` bounds the number of sleeps. The histories `overlap`, `cut`, `lost` and
`dropped` name the one way in which a property fails in the code, so that the
property can say "and in no other way". nginx and mruby themselves are modelled
from their use and marked `external` in the map.

### StreamAsync

`ictx` is the `ngx_stream_mruby_internal_ctx_t` behind `mrb->ud`. `Claimed` is
the handler taking it over for its session; `Saved` is the reentrant record that
`ngx_stream_mrb_async_sleep` fills in, and `Restored` is the timer handler
putting it back. `roots` counts entries, because `mrb_gc_register` pushes one on
every sleep and `mrb_gc_unregister` removes one at the end. The timer handler
drops the result of `post_fiber`, so only `DECLINED` (for which `post_fiber`
runs the phases itself) moves a session. `TimerRaises` leaves `exc` set, and the
two `...MeetsStaleExc` actions are what becomes of it: the next C method called from Ruby
finds the exception, so a new script dies in its preparation and a resumed fiber
dies where it slept.

The gate: `Verdict` maps `init` and `access` to undecided, the status the script
last assigned is its vote. `SessionGate` allows a session to be refused by a
failure which is not its own, since that is what the code does with a stale exception; the run
`stream_stale_exception` states the stronger property and shows the violation.

### StreamUpstream

The steps are those of `StreamAsync`, each with the assignment its script may
make. `peer` is the one peer of the upstream block in the worker: an address and
the session whose pool the address was allocated from (`AddressPool`, the session
in `ictx` when `ngx_parse_url` is called). A session that is passed on connects
in the same event, and one that has ended takes its pool with it; an address in
such a pool reads as `Freed`. `LastChoiceReached` says that nothing but the end of
the session that made the choice loses it. That a session may be proxied to the
choice of another one is what the code does, and is not excluded.

### HttpAsync

`request` is the global `ngx_mruby_request`. Scripts write to the request it
points to, which is why `Written` uses `request'` and not the request of the
fiber: a `post_fiber` that forgot `ngx_mrb_push_request` would write into
another request, and the mutant `PushSkipped` does. `status` is the unsigned
`headers_out.status`: `Stored` wraps negative codes (`Word` stands for 2^64),
`finalize_rputs` compares the word with 100 and the engine sees it signed again
(`AsInt`). `chain` abstracts `rputs_chain` to none, open and closed (`last_buf`
set by `Nginx.return`), which is what `finalize_rputs` distinguishes.

`Run*` are `ngx_mrb_run` in the handler the engine is at, `Timer*` are
`post_fiber`. `EngineTakes` is what nginx's phase checkers do with a return
code (in the access phase that of `satisfy all`, nginx's default: `NGX_OK` leads to
the next handler; in the post-read phase it leads to the next phase),
`PostFiberTakes` what `post_fiber` and the timer handler do with it; that the two differ for `NGX_OK` in the access phase is among the observations below.
A sleep in a content handler is not documented as supported and not modelled;
content handlers that do not sleep are.

### RequestCtx

One request, seen through what a handler can wait for. A configuration is a list
of handlers; a script's plan is the sequence of waits it goes through. `count` is
`r->main->count`; `Finalize` and `Drop` are what nginx does with it. `Run*` is
`ngx_mrb_run` in the handler at hand (`RunAwaitsBody` the early return while the
body is missing), `ReadRequestBodyCb` the callback of the body, `Timer*` and
`Sub*` are `post_fiber` called by the timer handler and by `sub_request_done`.
`SubFinalized` and `RunPosted` are nginx ending the subrequest and running the
parent it posted. `SetBlockTakes` is ndk's rewrite code: a block of `mruby_set`
directives is one handler with several scripts, which ndk runs on whatever they
return. `Assigned` is the late assignment through `ctx->set_var_target`.
`HttpAsync` and `RequestCtx` look at the same handlers from two sides: the first
interleaves requests and follows the answer, the second follows one request
through several callbacks. Composing them would multiply the two state spaces
without a property to gain: what they share is the code a script ends with.

### AutoSsl

`job[w]` is the handshake worker w is in, `pc` the next call it makes to redis or
to the ACME server; each such call is a step, since it blocks the worker and lets
the others run. `member[w]` is what `Nginx::SSL` keeps in the server
configuration across handshakes; `SslInit` clears it and `Decide` is the end of
`ngx_http_mruby_ssl_cert_handler`. `AskToken` to `Clear` are `auto_cert_deploy`
line by line, with both values of `@async`. A key, an authorization and a
certificate are numbers; certificate i fits key i. `Validate` is the ACME server
asking for the token. `CallFails` fails the call of the current step, inside or
outside the client's `begin`/`rescue`; `Dies` ends a worker process at any
point. Domains differ in what the script does for them: deploy, name files,
name only one half, or raise.

### BodyFilter

One response. The content handler is the environment: it declares a length or
none, and gives chains of buffers cut anywhere, the last one marked. A byte is
its position in the body, so "the script saw the whole body" is an equation.
`ReadBuf` is the loop of `ngx_http_mruby_read_body`; `upstream` matters because
a proxied body is complete when its bytes are, marked or not. `HeaderScript` and
`HeaderHeldBack` are the branches of the header filter, and `BodyPasses`,
`BodyIncomplete`, `BodyComplete`, `BodyTail` those of the body filter. For a
`HEAD` request the next header filter sets `header_only`, which the module
takes for an error (`HeaderFails`).

### CodeConf

Both sides in one module (`side`): they share creation, merging and cleanup, and
have directives of their own. The http side refuses a duplicated directive,
compiles uncached files again for each request, frees a main script once it has
run, and lets the cleanup find the context of code that does not compile; the
stream side replaces what an earlier directive set, opens a file before it
allocates the context, and keeps its main scripts to the end. Two slots of a
block stand for its merged directives, one for the phase handlers and one for
the output filters, whose handler (`filter_handler`) is not merged with their
code: `NearestCode` is about the code a block points to, `FiltersInherited`
(finding, section 5) about what it runs; `config_code` is the inline code a
server runs while it is parsed,
`ssl_code` its handshake script, which is recompiled at handshakes unless cached
(`Handshake`), and `set_code_list` the list of a block's `mruby_set` scripts, which
a script joins only once it has compiled (`ListedWhenCompiled`). A
compiler context is a number, a code object points to one or to none, blocks
point to code objects. Merging shares code objects, cleanup handlers run in the
reverse order of their registration, and the main configuration, registered
first, closes the interpreter last. A location configuration without a directive
of its own has no interpreter in `conf->state` and frees nothing, also not what
it inherited. A failing http `init` script refuses the configuration; a failing
stream `init` or any `init_worker` script ends the process (`exited`), which
cleans up nothing.

### HeaderList

The list is kept as nginx keeps it: parts with a block, an offset, a count and a
next pointer, `last`, `nalloc` and the memory. `Del` has the cases of
`ngx_mrb_del_request_header`: first element of a part (move the start, or unlink
the part, or overwrite the embedded first part with a copy of the second), last
element (shrink), an element in between (split). `Matches` compares only as many
bytes as the name given has, so a longer name that begins with it matches too
(`Begins`). The properties do not use it: `DeleteTakesOne` says that one header
goes and the others keep their order, that one goes whenever the name is there,
and that it has the name if no other name begins with it. What happens otherwise is
in section 5. Behaviours are followed as long as a push stays inside its
allocation (`Fits`). `SetReadBack` says when a header that was set can be read:
whenever `headers->last` is a part of the chain. It need not be one: overwriting the
first part with a copy of the second leaves `last` at the second, which is then
outside (finding `SetVisible`, section 5).

## 3. Runs

| Run | Instance | Checks |
|---|---|---|
| `stream` | `StreamUpstream`: 2 scripted sessions and 1 without a script, 3 statuses, 2 sleeps each, 2 servers, returns and raises | `TypeOK`; `OnlyAllowedPass`, `TimerResumesOwner`, `SleepingFiberRooted`; refinement of `SessionGate` (`ImplementsGate`); `LastChoiceReached`; `EverySessionProceeds` |
| `stream_stale_exception` | 2 sessions, 1 sleep | finding: `RefusedByOwnScript` is violated |
| `http` | 2 requests, a rewrite and an access handler, 6 codes, rputs before and after `return`, 1 sleep per request, terminations | `TypeOK`, `RefusedNeverServed`, `EffectsStayHome`, `ClosedIsFinal` |
| `http_closes` | 2 requests, rewrite, two access and content handlers, 2 sleeps, scripts that decline or refuse | `TimerResumesOwner`, `SleepingFiberRooted` over repeated sleeps; `EveryRequestCloses` |
| `http_raise_after_sleep` | as `http`, scripts without output | finding: `RaiseAnswers500` is violated |
| `request` | 1 request, 30 configurations of up to five handlers that wait for the body, up to two timers or three subrequests in a row, set blocks of two variables | `TypeOK`, `ReferencesBalance`, `ScriptsStartOnce`, `BodyBeforeScripts`, `OwnVariables`; `RequestFreed` |
| `auto_ssl` | 2 workers, 4 domains, one for each kind of script, 2 keys, authorizations and certificates, 1 failure or death | `TypeOK`, `OwnCertificate`, `StoredPairMatches`, `NotStranded`, `AccountHolds`, `DeployedOnce` |
| `filters` | all filter configurations, bodies up to 4 bytes, chains up to 2 buffers, proxied and HEAD requests, scripts that set any body up to 4 bytes, raise or fail | `TypeOK`, `HeaderBeforeBody`, `ScriptSeesWholeBody`, `NothingKeptBack`, `UnfilteredUnchanged`, `SoleFilterLength` |
| `configuration` | `http { server { location{} location{} } }` and its stream half, 3 compilations | `ContextsOwned`, `NeverMisfreed`, `NothingLeaks`, `NearestCode` |
| `filter_inherited` | the http blocks of `configuration`, 1 directive | finding: `FiltersInherited` is violated |
| `headers` | lists that start with up to 4 headers in one or two parts and grow to 3 parts, a name that begins another | `WellLinked`, `NilRemovesAll`, `SetReadBack`, `DeleteTakesOne` |
| `header_lost` | three unrelated names | finding: `SetVisible` is violated |

Why the bounds suffice. Two scripts are what an interference through shared
globals needs: one that sleeps and one that overwrites; the third stream session, without a
script, runs between them and must not disturb them, and connects to what they
chose. Two sleeps reach the
"sleeps again" path of both timer handlers; a third repeats it. Two handlers per
request reach the step from one to the next and a fiber left over from the one
before. In `AutoSsl` two workers give every overlap of two deployments, and one
failure every place at which a deployment can be cut while the other worker and
the next handshakes go on; `Quota` lets a cut deployment be repeated with new
keys once. Two buffers and four bytes reach a body cut inside, at the end and
with an empty last buffer. Four blocks have a grandparent, a parent and a
sibling sharing one code object; three compilations give one block its own code beside an
inherited one, or a recompilation. Three parts reach a deletion in the first,
a middle and the last part.

The configurations of `request` are chosen, not only bounded: their handlers wait
one after the other. `Sequential` (in `RequestCtx`) says what that means, for lists
of any length: late bodies meet a `post_read` or an access handler first; there is
one `post_read` handler at most (`NGX_OK` from a first one would skip a second); of a
set block only the last script sleeps, and no other handler sleeps behind one;
subrequests, at most three in a row, come from a rewrite handler, and no later
handler waits. TLC evaluates it for the configurations of the run (`MCSequential`).
Outside these combinations the code does what section 5 describes, and the
properties do not hold; `BodyBeforeScripts` alone holds of all configurations, and
is proved so. `MaxScripts` (8) is above what any of the configurations starts.

Deadlock is not checked, except in `auto_ssl`, where a worker always has a
handshake to accept or to go on with: the other systems come to rest when the last request,
response or configuration is done (and the bounds stop the others).

Every property of a passing run has a mutant in `PROJECT.json`: a plausible
mistake in one mapped definition (a missing push, a record saved too early, a
context pointer not reset, a link not followed) with which TLC finds it
violated.

Fairness. `StreamAsync` and `StreamUpstream`: weak fairness of a session's handler and of its timer
handler: nginx runs accepted connections and expired timers, and in the model
nothing else disables them; the end of a session is not fair. `HttpAsync`: weak fairness of the handler the engine
is at (an event runs to its end) and strong fairness of arrival and of timers,
which are only possible between events and therefore disabled again and again;
the event loop serves every expired timer and every accepted connection. Termination from outside
is not fair: it need not happen. `RequestCtx`: weak fairness of `Next`: some event
comes as long as one is possible (a body arrives or nginx's read timeout gives it
up, timers expire, subrequests end), and one request cannot be kept from its
events by others. `EveryRequestCloses` is checked for scripts that
do not themselves return `AGAIN` or `DONE`, which ask nginx to wait;
`EverySessionProceeds` assumes that no exception is left pending (see the
findings) and that the script settles for `DECLINED`; `RequestFreed` excepts
requests that lost a reference (`dropped`). `AutoSsl` has no liveness property:
that a deployment completes depends on the ACME server and on nobody failing.

## 4. Proofs

Each proof is from the named assumptions of its module alone (constants have their
types, sentinels are outside the sets, blocks nest): any number of sessions,
requests, handlers, blocks, workers, domains, statuses, sleeps, bytes, buffers and
failures. The one further hypothesis is `Sequential(conf)` in four theorems about
`RequestCtx`, on the configuration of the request (section 3).

`StreamProofs`, on `StreamAsync`: `StreamSafety` (`Spec => []SafetyInv`) and from it
`StreamTypes`, `StreamAccessControl` (`OnlyAllowedPass`), `StreamTimerOwnership`
(`TimerResumesOwner`), `StreamFibersRooted` (`SleepingFiberRooted`), and the step
simulation `StreamImplementsGate` (`Spec => ImplementsGate`).
`OnlyAllowedPass` is not inductive: a timer passes a session on
according to the status in its reentrant record, so one needs that the record
holds the session, the fiber and the status of the session it belongs to
(`TimerResumesOwner`), that a sleeping session is still in the access phase (or the record
could decide a second time), and that a script which raised has no timer left
(`HistoryConsistent`). `SafetyInv` is the conjunction with `TypeOK` and
`SleepingFiberRooted`, without which the count of root entries could go below zero.
What other sessions do to `ictx` never matters, because no conjunct speaks of `ictx`:
that is the point of saving and restoring. The refinement needs the same
invariant: a timer step of a session is a vote or a decision of that very
session, by `TimerResumesOwner`.

`StreamProofs`, on the composition: `UpstreamIsStream` (`USpec => Spec`), which carries all of
the above over to the composition, and `UpstreamChoice` (`LastChoiceReached`). The
invariant `UpstreamInv` ties the peer to the last assignment: its address lives in
the pool of the session whose script made it, because handler and timer handler
both leave that session in `ictx` (`SafetyInv` again); and only decided sessions
have ended, so a session that connects has its own pool.

`HttpAsyncProofs`: `TimersResumeOwners`, `HttpFibersRooted`, `RefusalsHold`
(`RefusedNeverServed`), `AnswersFinal` (`ClosedIsFinal`) and `EffectsAtHome`
(`EffectsStayHome`), from `HttpInv`. Its part `Local(r)` speaks of one request:
an armed timer means that the request is parked at the handler whose fiber and
status the record has, and a handler whose last word is a refusal is where the
request ended, or sleeps with the refusing status and no open body. That the
other requests keep it is one lemma (`OthersKept`): a step on behalf of r changes
nothing of theirs, since `post_fiber` pushes its request first. `HttpTyped`
(`TypeOK`) adds `RestOK`, the types that these need not know: the status word is
always one of those that `Nginx.return` stores or a script's end computes.

`RequestCtxProofs`: `BodyComesFirst` (`BodyBeforeScripts`), for every list of
handlers and plans. `BodyInv` adds that `read_request_body_done` is set only with
the body there and that a body being read has not arrived. For requests whose
handlers wait one after the other (`Sequential`), `RequestTyped` (`TypeOK`),
`ReferencesKept` (`ReferencesBalance`), `StartedOnce` (`ScriptsStartOnce`) and
`VariablesOwn` (`OwnVariables`) follow from `TurnInv`. None of the four is
inductive: where a callback puts the request depends on what nginx's write handler
is at that moment and on whether a subrequest is ending. `TurnInv` says that the
request is always in one of six situations: at work, asleep, in a subrequest,
reading its body, closing, closed. Each fixes the write handler, what is waited
for, and the reference count as a number (`Working` to `Closed`). With them go
`Progress` (the script the engine is at is the first that has not been started;
each handler before it has) and `Targets` (a `set_var_target` comes from a set block
that is passed or at hand, so a script that sleeps before all of them finds none).
The proof has one lemma per action, of the form: from which situation it starts
and into which it leads.

`AutoSslProofs`: `TypeCorrect`, `HandshakesAreOwn` (`OwnCertificate`),
`PairsMatch` (`StoredPairMatches`), `StrandedByCut` (`NotStranded`), `NeverAgain`
(`DeployedOnce`), `AccountsHold` (`AccountHolds`). `OwnInv` adds to the types that the certificates in redis, in the
hands of a worker and in a server configuration are of the domain they are kept for.
`DeployInv` adds, for a domain whose deployments have not overlapped, that at
most one worker is deploying it and that what it is about to write fits what it
has already written. `AccountInv` follows the account key and the authorization
through the same steps (`ClientHolds`): the uri in redis is that of an
authorization which the account in redis holds (`UriHolds`), so a worker that
goes on where another one was cut asks for the certificate with the right key.

`CodeConfProofs`: `ContextsStayOwned` (`ContextsOwned`), `NothingMisfreed`
(`NeverMisfreed`), from `ConfInv`: contexts are numbered as allocated, each has
one owner, and the main configuration's cleanup is the last, so the interpreter
is open at every other one (`MainLast`). `NearestRuns` (`NearestCode`): before merging a
block points to what its own directives named (`NearInv`), and what merging
computes down a chain of blocks is compared with the innermost block that has a
directive. Both are recursive functions over the tree of blocks; the lemmas
`MergedIs` to `MergedDecides` establish that they satisfy their equations and
agree, by a least counterexample: `NestAssumption` (every set of blocks has one
whose parent is outside the set) is what it means that blocks nest, and it takes
the place of induction. `NoneLeaks` (`NothingLeaks`) is from `LeakInv`: every
context on the heap belongs to a code object that a cleanup handler still to run
will free, or was lost by an `mruby_set` that did not compile (`Held`); this needs
that inherited code belongs to a block with `conf->state` set (`Owners`) and
that the cleanups of all such blocks are registered (`Pending`).

`BodyFilterProofs`: `HeaderFirst` (`HeaderBeforeBody`), where `HeaderInv` says in which
phases of the filter the header has left; and `FilterTyped` (`TypeOK`), `WholeBody`
(`ScriptSeesWholeBody`), `BodyIsEnded` (`NothingKeptBack`), `PassedUnchanged`
(`UnfilteredUnchanged`), `LengthAnnounced` (`SoleFilterLength`), from `FilterInv`: while
the filter reads, it has collected exactly the bytes given so far and passed none;
once the script has run, what it left is what was sent, with its length. The step
that reads a chain is a fold over buffers, so what the fold computes has to be
proved for chains of any length. `Iteration` derives the means from the principle
that a set of natural numbers has a least element: a function defined by recursion
exists and satisfies its equation (`Recursion`, `SubsetRecursion`), and the fold of
the community modules, which picks the largest index first, goes through the
prefixes of the sequence (`AtPrefixes`).

`HeaderListProofs`: `ListLinked` (`WellLinked`), `NilTakesAll` (`NilRemovesAll`),
`SetIsRead` (`SetReadBack`) and `OneTaken` (`Spec => DeleteTakesOne`), for names,
values and `Begins` as any set and relation, parts of any size, any number of
headers and operations. `WellLinked` is not inductive. That deleting cuts one
element out of what the loops read also needs that no two parts lie over the same
cells, or shrinking one would be felt in another, and a push must write behind
everything the chain holds. `Linked(l, s)` says this of a sequence `s` of parts: the
next pointers lead once through `s` (`IsChain`), parts that share a block lie in it
one after the other over cells that were written, and `headers->last` is the end of
`s` or outside it. The second case is the one in which a pushed header may be lost; the
list stays linked even then. The
invariant `IInv` is that some `s` links the list, with `NilRemovesAll` and
`SetReadBack`. The argument: `ChainIs` shows that `Chain` computes `s`; `DelCut`, that
each of the four ways of deleting takes one matching header out of the contents
(`Cut`), by relating the parts before and after; `NoMatchNone`, that without a match
there is no header of the name; `PushIs`, that a
push keeps the list linked and, when `last` is the end of `s`, appends the header to
the contents; and a repeated deletion ends with none
of the name, since every round shortens the contents by one. The walk along the
next pointers, the contents and the repeated deletion are recursive functions and
folds over lists of any length: each induction is one of `Iteration`.

Only model-checked: all liveness (`EverySessionProceeds`, `EveryRequestCloses`,
`RequestFreed`), which is outside the prover as it rests on fairness. Every
invariant and action property of the passing runs is also proved.

## 5. Findings

The four runs that expect a violation each contrast a statement of the repository
with what the code does; `findings` in `PROJECT.json` quotes both.

1. `stream/async.c:101`: an exception raised after a sleep stays pending and
   refuses another session.
2. `http/async.c:132`: the 500 of a script that raises after a sleep is
   overwritten.
3. `http/request.c:333`: a header set after the only element of the
   first part was deleted is not in the list.
4. `http/module.c:531-560`: merging hands down the code of the output filters but
   not their handlers, so a filter in `server` does not run in its locations.

Seen while modelling, without a run of its own. The properties of the passing runs
are stated so that they do not speak of these cases, never so that they call them
right; where a document of the repository says otherwise it is quoted.

Handlers and sleeps:

- A stream session whose script ends with anything but `DECLINED`, or raises,
  after a sleep is neither passed on nor closed (`stream/async.c:127`).
- An access handler that ends with `NGX_OK` after a sleep ends the request
  without an answer (`http/async.c:166`), where the phase engine would go on.
- Each sleep adds a root entry and the end of a script removes one
  (`http/async.c:211`, `stream/async.c:175`): a fiber that sleeps n times keeps
  n - 1 entries, and one whose request is terminated keeps all.
- A script that calls `rputs` and then raises, without any sleep, is answered with
  200 and the partial body: `finalize_rputs` sends a chain that `Nginx.return` has
  not closed and sets the status to 200 (`http/core.c:84`), while the message
  logged says "return 500 HTTP status code to client" (`http/core.c:41`).

Waiting for several things (`RequestCtx`):

- When an access or `post_read` handler ends with `NGX_OK` after `sub_request`,
  nobody steps over it (`http/async.c:310`; `post_fiber` does so for `DECLINED`
  only): nginx runs the posted parent again at the same handler, whose script starts
  anew. So does that of a rewrite handler which sleeps and then makes a subrequest.
  `docs/class_and_method/README.md:1294` says of `sub_request` "It's currently
  supported in the `set`, `rewrite` and `access` handlers."
- `ctx->set_var_target` is set by every `mruby_set` and never reset, so a handler
  that sleeps behind one has its own result assigned to the variable when it ends
  (`http/async.c:119`), although only "'mruby_set' and 'mruby_set_code' are called
  at one of the rewrite phases to set a nginx variable"
  (`docs/directives/README.md:362`).
- A late body in a rewrite or content handler: the `NGX_AGAIN` the handler
  returns (`http/module.c:754`) makes the phase checker finalize the request.
- A fiber that waits again after a subrequest has `sub_request_done` finalize the
  parent with `NGX_DONE`, which gives up a reference that is not its own
  (`http/async.c:305`); the model counts these in `dropped`. After the second time
  the count, a bit field of 16 bits, goes below zero and wraps; the third time the
  request is freed while its fourth subrequest is in flight. `Sequential` therefore
  stops at three subrequests in a row.
- A rewrite handler that made a subrequest and ended with `DECLINED`, followed by
  an access handler that sleeps: the request is finalized while it sleeps.
- Two `mruby_set` in one block of which the first sleeps: its value goes to the
  variable of the second, the last to set `set_var_target`. `sub_request` in an
  `mruby_set`: ndk ignores the `AGAIN`, and the request goes on without the value.
- `last_response` is the one of an earlier subrequest when the last one had no
  buffer (`http/async.c:293`).

Filters, configuration, headers:

- With a header filter as well as a body filter the header leaves before the
  body script and announces the length of the old body (`http/module.c:1779`).
- A stream directive given twice loses the first code's context; so does an
  `mruby_set` that does not compile (`http/module.c:1472`; `lost` in `CodeConf`).
- `mruby_add_handler` compiles its script for each request, and nothing frees the
  compiler context when the script sleeps (`http/module.c:1555`).
- `delete` compares as many bytes as the name given has and takes the first match
  (`http/request.c:312`): `delete("Accept")` takes `Accept-Encoding` when that comes
  first, and leaves `Accept`, where `docs/class_and_method/README.md:1057` says
  "Delete the field from the http request headers." An assignment to a header
  that is there repeats the deletion until `[]` finds none of the name, and takes
  with it what matches before.
- `nalloc` is decremented when the last element of the last part is deleted
  (`http/request.c:368`), although it is the capacity of every further part.

Upstreams and certificates:

- The peer of an upstream is shared by all sessions of the worker and its address
  is allocated from the pool of the assigning session (`stream/connection.c:118`,
  `http/upstream.c:162`); once that session has ended, others that connect read
  freed memory. Its name points into a Ruby string.
- Two workers that deploy one domain at the same time can store the certificate
  of one and the key of the other. The pair is then complete, so no later
  handshake deploys again, and each is refused.
- A token stored without its uri, by a failure between the two writes, makes every
  later deployment fail at the missing uri; nothing removes the token.
- Verification is requested before the token is stored
  (`mrb_auto_ssl_client.rb:55` and `:57`): if the server looks first, the
  authorization becomes invalid, and nothing asks for another one.
- Registering an account key that is already registered, after a failure between
  the registration and the first write, may raise at each further handshake.

## 6. Not modelled

- Accessors and one-shot calls into nginx (`Connection` and request attributes,
  `redirect`, `add_listener`, logging, `Nginx::Var`) and the Ruby wrappers: they keep no
  state. Log handlers and a sleep in a content handler, which is not documented.
- A stream session that is destroyed while it sleeps: nothing in the module deletes
  its timer, and what the timer then finds is freed memory.
- Handshake scripts that do not create `Nginx::SSL`: they use what the last
  handshake left in the server configuration, possibly allocated from a pool that
  is gone. A pending exception left by another handler, which a handshake script
  would meet, is also left out, and a call that fails is taken to have had no
  effect on redis or the ACME server. `ACME::Dehydrated` runs a shell script.
- `Nginx::Upstream`: it writes the peer of an http upstream the way the stream
  side does, and is not composed with the request; its keepalive settings are
  plain assignments.
- `rputs` data, response bodies of subrequests, and header values: data that no
  property tells apart.
- Writes outside an allocation (`Fits` in `HeaderList` stops there).
- Vendored code: mruby (compiler, vm, core classes) and `ngx_devel_kit` are
  third-party and far larger than the module itself; they are modelled only from their use (GC
  roots, the pending exception, compiler contexts, ndk's set blocks). Of the
  module's own code in `src/http`, `src/stream` and `mrbgems/auto-ssl` the map
  names the parts that keep state.

## 7. What is left

`Nginx::Upstream` composed with `HttpAsync`, as `StreamUpstream` is with
`StreamAsync`.
