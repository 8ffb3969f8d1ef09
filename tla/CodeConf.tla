------------------------------ MODULE CodeConf ------------------------------
(***************************************************************************)
(* The life of the scripts named in the configuration: directives create   *)
(* and compile a code object (ngx_mrb_code_t) in the block they stand in,  *)
(* merging lets nested blocks share the code objects of the enclosing one, *)
(* requests recompile what is not cached, and when the configuration's     *)
(* pool is destroyed every block frees the compiler context of each code   *)
(* it points to, its own or inherited, before the interpreter is closed.   *)
(*                                                                         *)
(* One module describes both sides, which share merging and cleanup.  The  *)
(* http side refuses a duplicated directive, recompiles, and frees a main  *)
(* script once it has run; the stream side replaces the code and keeps it. *)
(* Two slots of a block stand for all its directives that are merged:      *)
(* "handler" for the phase handlers and "filter" for the output filters.   *)
(* The codes of mruby_set are kept in a list that is not merged, and those *)
(* of a server, its context code and its handshake handler, apart.         *)
(***************************************************************************)
EXTENDS Naturals, Sequences, FiniteSets

CONSTANTS
    Sides,        \* the modules looked at: "http", "stream"
    Blocks,       \* configuration blocks
    Main,         \* the main configuration, which owns the interpreter
    Parent,       \* Parent[b]: the block around b; Main for the outermost
    MaxContexts   \* bound: compiler contexts allocated

ASSUME ConfAssumption ==
    /\ Sides \subseteq {"http", "stream"}
    /\ Main \notin Blocks
    /\ Parent \in [Blocks -> Blocks \cup {Main}]
    /\ MaxContexts \in Nat

\* Blocks nest: no block is inside itself, so any set of blocks has one that
\* no other one of the set is directly around.
ASSUME NestAssumption ==
    \A S \in SUBSET Blocks : S # {} => \E b \in S : Parent[b] \notin S

Slots == {"handler", "filter"}
MainSlots == {"init", "init_worker", "exit_worker"}
Unset == 0                         \* NGX_CONF_UNSET_PTR, NULL
Codes == 1 .. MaxContexts          \* code objects, numbered as created

VARIABLES
    stage,      \* parsing, configured, serving, destroying, destroyed, exited
    mrb,        \* the interpreter: open, closed
    cleanups,   \* cleanup handlers of the pool, the last one added first
    state,      \* blocks whose conf->state is that of the main configuration
    code,       \* code[b][slot]: the code object a block points to
    config_code,\* config_code[b]: server_config_inline_code of a server
    ssl_code,   \* ssl_code[b]: ssl_handshake_code of a server
    set_code_list, \* set_code_list[b]: the codes of the mruby_set of a block
    filter_handler, \* blocks whose filter handler is set
    main_code,  \* main_code[m]: init_code, init_worker_code, exit_worker_code
    ctx,        \* ctx[k]: the compiler context of code k, NULL when freed
    cache,      \* codes that are never recompiled
    made,       \* contexts allocated so far
    heap,       \* contexts allocated and not freed
    misfreed,   \* history: a freed context, or one of a closed interpreter, was freed
    lost,       \* history: contexts of mruby_set directives that did not compile
    defined,    \* defined[b][slot], history: the code its own directive named
    side        \* which of the two modules this is

contexts == <<ctx, made, heap, misfreed>>
server_confs == <<config_code, ssl_code>>
set_confs == <<set_code_list, lost>>
loc_confs == <<state, code, filter_handler, defined, set_confs>>
confs == <<loc_confs, server_confs, main_code, cache>>
vars == <<stage, mrb, cleanups, side, contexts, confs>>

-----------------------------------------------------------------------------
EmptyConf == [s \in Slots |-> Unset]

Init ==
    /\ stage = "parsing" /\ mrb = "open"
    /\ cleanups = <<Main>>
    /\ state = {}
    /\ code = [b \in Blocks |-> EmptyConf]
    /\ config_code = [b \in Blocks |-> Unset]
    /\ ssl_code = [b \in Blocks |-> Unset]
    /\ set_code_list = [b \in Blocks |-> {}]
    /\ lost = {}
    /\ filter_handler = {}
    /\ main_code = [m \in MainSlots |-> Unset]
    /\ ctx = [k \in Codes |-> Unset]
    /\ cache = {}
    /\ made = 0 /\ heap = {}
    /\ misfreed = FALSE
    /\ defined = code
    /\ side \in Sides

\* http { server { ... } }, stream { server { } }: stream blocks nest no deeper.
IsServer(b) == Parent[b] # Main /\ Parent[Parent[b]] = Main
BlocksOf(sd) ==
    IF sd = "http" THEN Blocks ELSE {b \in Blocks : Parent[b] = Main \/ IsServer(b)}

Created == {cleanups[i] : i \in DOMAIN cleanups}

\* create_loc_conf, create_srv_conf: an empty conf with a cleanup handler.
AddedLast(b) == Append(cleanups, b)
AddedFirst(b) == <<b>> \o cleanups
CreateConf(b) ==
    /\ stage = "parsing"
    /\ b \in BlocksOf(side) \ Created /\ Parent[b] \in Created
    /\ cleanups' = AddedFirst(b)
    /\ UNCHANGED <<stage, mrb, side, contexts, confs>>

\* MRBC_CONTEXT_FREE on a set of code pointers: it skips unset pointers and
\* freed contexts, and resets the context pointer of what it frees.
FreeKeepsPointer(ks) ==
    /\ misfreed' = (misfreed \/ \E k \in ks :
         ctx[k] # Unset /\ (ctx[k] \notin heap \/ mrb # "open"))
    /\ heap' = heap \ {ctx[k] : k \in ks}
    /\ UNCHANGED <<ctx, made>>
Free(ks) ==
    /\ misfreed' = (misfreed \/ \E k \in ks :
         ctx[k] # Unset /\ (ctx[k] \notin heap \/ mrb # "open"))
    /\ heap' = heap \ {ctx[k] : k \in ks}
    /\ ctx' = [k \in Codes |-> IF k \in ks THEN Unset ELSE ctx[k]]
    /\ UNCHANGED made

\* A failure refuses the configuration, whose pool is then destroyed.
RefusedUnless(ok) == stage' = IF ok THEN "parsing" ELSE "destroying"

-----------------------------------------------------------------------------
(* Directives of the http side.                                            *)

\* Code objects are numbered by the first context allocated for them.
NewCode == made + 1
Results == {"ok", "syntax", "missing"}

\* The context is allocated before a missing file or an error is found.
Compile(k) ==
    /\ made < MaxContexts
    /\ made' = made + 1
    /\ heap' = heap \cup {made'}
    /\ ctx' = [ctx EXCEPT ![k] = made']
    /\ UNCHANGED misfreed

InitializeCode(res, cached) ==
    /\ Compile(NewCode)
    /\ cache' = IF cached THEN cache \cup {NewCode} ELSE cache
    /\ RefusedUnless(res = "ok")

\* A directive of block b, with or without cache.
Directive(b, s, cached, res) ==
    /\ side = "http"
    /\ stage = "parsing" /\ b \in Created /\ code[b][s] = Unset
    /\ InitializeCode(res, cached)
    /\ code' = [code EXCEPT ![b][s] = NewCode]
    /\ state' = state \cup {b}
    /\ filter_handler' = IF s = "filter" /\ res = "ok" THEN filter_handler \cup {b}
                         ELSE filter_handler
    /\ defined' = [defined EXCEPT ![b][s] = NewCode]
    /\ UNCHANGED <<mrb, cleanups, side, server_confs, set_confs, main_code>>

\* mruby_set: a block may have several.  The code enters the block's list
\* only when it compiles; nothing else points to it.
ListedWhenCompiled(b, ok) ==
    /\ set_code_list' = IF ok THEN [set_code_list EXCEPT ![b] = @ \cup {NewCode}]
                        ELSE set_code_list
    /\ lost' = IF ok THEN lost ELSE lost \cup {made'}

SetDirective(b, cached, res) ==
    /\ side = "http"
    /\ stage = "parsing" /\ b \in Created
    /\ InitializeCode(res, cached)
    /\ ListedWhenCompiled(b, res = "ok")
    /\ state' = state \cup {b}
    /\ UNCHANGED <<mrb, cleanups, side, code, filter_handler, defined, server_confs, main_code>>

\* The handshake handler of a server.
SslDirective(b, cached, res) ==
    /\ side = "http"
    /\ stage = "parsing" /\ b \in Created /\ IsServer(b) /\ ssl_code[b] = Unset
    /\ InitializeCode(res, cached)
    /\ ssl_code' = [ssl_code EXCEPT ![b] = NewCode]
    /\ UNCHANGED <<mrb, cleanups, side, loc_confs, config_code, main_code>>

MainDirective(m, res) ==
    /\ side = "http"
    /\ stage = "parsing" /\ main_code[m] = Unset
    /\ InitializeCode(res, FALSE)
    /\ main_code' = [main_code EXCEPT ![m] = NewCode]
    /\ UNCHANGED <<mrb, cleanups, side, loc_confs, server_confs>>

\* Inline code of a server that runs while it is parsed; its context is
\* freed when it has run, and is left to the cleanup if it does not compile.
ServerConfig(b, res, ok) ==
    /\ side = "http" /\ res # "missing"
    /\ stage = "parsing" /\ b \in Created /\ IsServer(b) /\ config_code[b] = Unset
    /\ \/ res # "ok" /\ Compile(NewCode)
       \/ /\ res = "ok" /\ made < MaxContexts
          /\ made' = made + 1
          /\ UNCHANGED <<ctx, heap, misfreed>>
    /\ config_code' = [config_code EXCEPT ![b] = NewCode]
    /\ RefusedUnless(res = "ok" /\ ok)
    /\ UNCHANGED <<mrb, cleanups, side, loc_confs, ssl_code, main_code, cache>>

\* "is duplicated": the configuration is refused.
Duplicate ==
    /\ side = "http" /\ stage = "parsing"
    /\ \/ \E b \in Blocks : config_code[b] # Unset \/ ssl_code[b] # Unset
       \/ \E b \in Blocks : \E s \in Slots : code[b][s] # Unset
       \/ \E m \in MainSlots : main_code[m] # Unset
    /\ stage' = "destroying"
    /\ UNCHANGED <<mrb, cleanups, side, contexts, confs>>

-----------------------------------------------------------------------------
(* Directives of the stream side, which replace what an earlier one set.   *)

\* The file is opened before the context is allocated.
StreamCompile(k, res) ==
    IF res = "missing" THEN made < MaxContexts /\ UNCHANGED contexts ELSE Compile(k)

StreamDirective(b, res) ==
    /\ side = "stream"
    /\ stage = "parsing" /\ b \in Created \ {Main}
    /\ StreamCompile(NewCode, res)
    /\ code' = [code EXCEPT ![b]["handler"] = NewCode]
    /\ state' = state \cup {b}
    /\ defined' = [defined EXCEPT ![b]["handler"] = NewCode]
    /\ RefusedUnless(res = "ok")
    /\ UNCHANGED <<mrb, cleanups, side, server_confs, set_confs, filter_handler, main_code,
                   cache>>

StreamMainDirective(m, res) ==
    /\ side = "stream" /\ stage = "parsing"
    /\ StreamCompile(NewCode, res)
    /\ main_code' = [main_code EXCEPT ![m] = NewCode]
    /\ RefusedUnless(res = "ok")
    /\ UNCHANGED <<mrb, cleanups, side, loc_confs, server_confs, cache>>

\* Inline code of a server that is compiled, freed and run at once.
StreamServerContext(b, ok) ==
    /\ side = "stream"
    /\ stage = "parsing" /\ b \in Created /\ IsServer(b)
    /\ made < MaxContexts /\ made' = made + 1
    /\ RefusedUnless(ok)
    /\ UNCHANGED <<mrb, cleanups, side, ctx, heap, misfreed, confs>>

-----------------------------------------------------------------------------
(* The end of the configuration, and the worker.                           *)

\* Merging goes from the outermost blocks inwards.  Neither the state nor
\* the filter handler is merged.
Overridden(b, s, merged) ==
    IF Parent[b] # Main /\ merged[Parent[b]][s] # Unset
    THEN merged[Parent[b]][s] ELSE code[b][s]
Inherited(b, s, merged) ==
    IF code[b][s] = Unset /\ Parent[b] # Main THEN merged[Parent[b]][s]
    ELSE code[b][s]
Merged ==
    LET merged[b \in Blocks] == [s \in Slots |-> Inherited(b, s, merged)]
    IN  merged

\* A script of the main configuration runs; the http side then frees its
\* context, which it never needs again.
RunMain(m) ==
    IF main_code[m] \in Codes /\ side = "http"
    THEN Free({main_code[m]})
    ELSE UNCHANGED contexts

\* A script that raises: nginx refuses the http configuration, but exits
\* when a module or a process cannot be initialized, cleaning up nothing.
Configured(ok) ==
    /\ side = "http"
    /\ stage = "parsing" /\ Blocks \subseteq Created
    /\ code' = Merged
    /\ RunMain("init")
    /\ stage' = IF main_code["init"] = Unset \/ ok THEN "configured" ELSE "destroying"
    /\ UNCHANGED <<mrb, cleanups, side, state, filter_handler, defined, set_confs,
                   server_confs, main_code, cache>>

\* "no ssl configured for the server": merging stops at the first server with
\* a handshake handler and no certificate, with part of the rest merged.
SslNotConfigured(done) ==
    /\ side = "http"
    /\ stage = "parsing" /\ Blocks \subseteq Created
    /\ \E b \in Blocks \ done : ssl_code[b] # Unset
    /\ code' = [b \in Blocks |-> IF b \in done THEN Merged[b] ELSE code[b]]
    /\ stage' = "destroying"
    /\ UNCHANGED <<mrb, cleanups, side, contexts, state, filter_handler, defined, set_confs,
                   server_confs, main_code, cache>>

StreamConfigured(ok) ==
    /\ side = "stream"
    /\ stage = "parsing" /\ BlocksOf(side) \subseteq Created
    /\ code' = Merged
    /\ RunMain("init")
    /\ stage' = IF main_code["init"] = Unset \/ ok THEN "configured" ELSE "exited"
    /\ UNCHANGED <<mrb, cleanups, side, state, filter_handler, defined, set_confs,
                   server_confs, main_code, cache>>

\* A worker starts on its copy of all this.
StartWorker(ok) ==
    /\ stage = "configured"
    /\ RunMain("init_worker")
    /\ stage' = IF main_code["init_worker"] = Unset \/ ok THEN "serving" ELSE "exited"
    /\ UNCHANGED <<mrb, cleanups, side, confs>>

\* File code k that is not cached is compiled again when it is to run, into
\* a new context, which is freed when the script is over, but not when the
\* compilation failed or the script sleeps.
Recompiled(k, over) ==
    /\ k \notin cache /\ made < MaxContexts
    /\ made' = made + 1
    /\ misfreed' = (misfreed \/ (ctx[k] # Unset /\ ctx[k] \notin heap))
    /\ heap' = (heap \ {ctx[k]}) \cup (IF over THEN {} ELSE {made'})
    /\ ctx' = [ctx EXCEPT ![k] = IF over THEN Unset ELSE made']

\* A request runs a handler, a filter or an mruby_set of block b.
Recompile(b, over) ==
    /\ stage = "serving" /\ side = "http"
    /\ \E k \in ({code[b][s] : s \in Slots} \cup set_code_list[b]) \cap Codes :
          Recompiled(k, over)
    /\ UNCHANGED <<stage, mrb, cleanups, side, confs>>

\* A handshake with server b: the context is freed after each one, that of
\* cached and inline code, which is still to run, too.
Handshake(b, over) ==
    /\ stage = "serving" /\ side = "http" /\ ssl_code[b] \in Codes
    /\ \/ Recompiled(ssl_code[b], over)
       \/ ssl_code[b] \in cache /\ Free({ssl_code[b]})
    /\ UNCHANGED <<stage, mrb, cleanups, side, confs>>

\* The worker exits: its exit script runs, then the pool is destroyed.
Shutdown ==
    /\ stage = "serving"
    /\ RunMain("exit_worker")
    /\ stage' = "destroying"
    /\ UNCHANGED <<mrb, cleanups, side, confs>>

\* The master, which runs no worker scripts, drops it: reload or exit.
Drop ==
    /\ stage = "configured"
    /\ stage' = "destroying"
    /\ UNCHANGED <<mrb, cleanups, side, contexts, confs>>

-----------------------------------------------------------------------------
(* Cleanup handlers, the most recently added first.                        *)

\* What a block frees.  A location configuration without a directive of its
\* own has no interpreter in its state and frees nothing.
HandlerOnly(b) == {code[b]["handler"]} \cap Codes
Pointers(b) ==
    ((IF b \in state THEN {code[b][s] : s \in Slots} \cup set_code_list[b] ELSE {})
       \cup {config_code[b], ssl_code[b]})
    \cap Codes

CleanupConf(b) ==
    /\ stage = "destroying" /\ cleanups # <<>> /\ Head(cleanups) = b
    /\ Free(Pointers(b))
    /\ cleanups' = Tail(cleanups)
    /\ UNCHANGED <<stage, mrb, side, confs>>

\* The main configuration frees its own scripts and closes the interpreter.
CleanupMain ==
    /\ stage = "destroying" /\ cleanups # <<>> /\ Head(cleanups) = Main
    /\ Free({main_code[m] : m \in MainSlots} \cap Codes)
    /\ mrb' = "closed"
    /\ cleanups' = Tail(cleanups)
    /\ UNCHANGED <<stage, side, confs>>

Destroyed ==
    /\ stage = "destroying" /\ cleanups = <<>>
    /\ stage' = "destroyed"
    /\ UNCHANGED <<mrb, cleanups, side, contexts, confs>>

HttpDirective ==
    \/ Duplicate
    \/ \E res \in Results :
         \/ \E m \in MainSlots : MainDirective(m, res)
         \/ \E b \in Blocks, flag \in BOOLEAN :
              \/ ServerConfig(b, res, flag)
              \/ SetDirective(b, flag, res) \/ SslDirective(b, flag, res)
              \/ \E s \in Slots : Directive(b, s, flag, res)

StreamDirectives ==
    \/ \E res \in Results :
         \/ \E m \in MainSlots : StreamMainDirective(m, res)
         \/ \E b \in Blocks : StreamDirective(b, res)
    \/ \E b \in Blocks, ok \in BOOLEAN : StreamServerContext(b, ok)

Next ==
    \/ HttpDirective \/ StreamDirectives
    \/ \E b \in Blocks :
         \/ CreateConf(b) \/ CleanupConf(b)
         \/ \E over \in BOOLEAN : Recompile(b, over) \/ Handshake(b, over)
    \/ \E done \in SUBSET Blocks : SslNotConfigured(done)
    \/ \E ok \in BOOLEAN : Configured(ok) \/ StreamConfigured(ok) \/ StartWorker(ok)
    \/ Shutdown \/ Drop \/ CleanupMain \/ Destroyed

Spec == Init /\ [][Next]_vars

-----------------------------------------------------------------------------
(* Properties.                                                             *)

\* No code object is left with a pointer to a context that is gone, and no
\* two share one: what is freed through one block is NULL in all of them.
ContextsOwned ==
    \A k \in Codes : ctx[k] # Unset =>
        /\ ctx[k] \in heap
        /\ \A l \in Codes : ctx[l] = ctx[k] => l = k

\* However blocks share code objects, no context is freed twice, and none
\* after mrb_close, which relies on the order in which the pool runs the
\* cleanup handlers.
NeverMisfreed == ~misfreed

\* On the http side, when the pool is gone, so are all contexts, although
\* blocks that only inherit do not free anything, but for those of mruby_set
\* directives that did not compile, which no block points to.  (The stream
\* side loses the context of a directive that is given twice.)
NothingLeaks ==
    side = "http" /\ stage = "destroyed" => heap = lost /\ mrb = "closed"

\* The block that decides for b: the innermost one around b with a directive.
Deciding(b, s) ==
    LET innermost[c \in Blocks] ==
          IF defined[c][s] # Unset \/ Parent[c] = Main THEN c
          ELSE innermost[Parent[c]]
    IN  innermost[b]

\* While serving, each block points, for every directive, to the code of the
\* innermost block around it that has the directive, however deep the blocks
\* nest and whichever of them were given the directive.
NearestCode ==
    stage = "serving" => \A b \in Blocks, s \in Slots :
        code[b][s] = defined[Deciding(b, s)][s]

\* What the block runs: a filter is passed over unless its handler is set.
Effective(b, s) ==
    IF s = "filter" /\ b \notin filter_handler THEN Unset ELSE code[b][s]

\* The filter directives are documented with the context "server, location":
\* a filter given in a server runs in those of its locations that have none
\* of their own.  It does not: merge_loc_conf hands down the code of a filter
\* but not the handler without which the filter passes everything on.
FiltersInherited ==
    stage = "serving" => \A b \in Blocks :
        IsServer(Deciding(b, "filter")) =>
            Effective(b, "filter") = defined[Deciding(b, "filter")]["filter"]
=============================================================================
