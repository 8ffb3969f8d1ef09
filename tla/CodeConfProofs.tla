--------------------------- MODULE CodeConfProofs ---------------------------
(***************************************************************************)
(* Proofs about CodeConf, for any tree of blocks and any number of codes:  *)
(* no compiler context is used after it is freed, freed twice, freed after *)
(* the interpreter is closed, or left when the pool is gone, and each      *)
(* block runs the code of the block that decides for it.                   *)
(***************************************************************************)
EXTENDS CodeConf, Integers, TLAPS

USE ConfAssumption DEF ConfAssumption

\* Contexts are numbered in the order of their allocation.
Numbered ==
    /\ made \in Nat
    /\ heap \subseteq 1 .. made
    /\ ctx \in [Codes -> 0 .. made]

\* The main configuration was created first, so its cleanup handler, which
\* closes the interpreter, is the last one and runs when no other is left.
MainLast ==
    /\ cleanups \in Seq(Blocks \cup {Main})
    /\ \A i \in 1 .. Len(cleanups) : cleanups[i] = Main => i = Len(cleanups)
    /\ mrb = "open" \/ (cleanups = <<>> /\ stage \in {"destroying", "destroyed"})

\* The inductive invariant.
ConfInv ==
    /\ Numbered
    /\ ContextsOwned
    /\ NeverMisfreed
    /\ MainLast

-----------------------------------------------------------------------------
(* What the operations on contexts preserve.                               *)

\* A context is freed through whichever code object holds it, and no other
\* code object is left pointing to it.
LEMMA FreeOwned ==
    ASSUME Numbered, ContextsOwned, NeverMisfreed, mrb = "open",
           NEW ks \in SUBSET Codes, Free(ks)
    PROVE  (Numbered /\ ContextsOwned /\ NeverMisfreed)'
<1> USE DEF Free, Unset
<1>1. Numbered'
  <2>1. made' = made /\ made \in Nat /\ heap' \subseteq 1 .. made
    BY DEF Numbered
  <2>2. \A k \in Codes : ctx[k] \in 0 .. made /\ 0 \in 0 .. made
    BY DEF Numbered
  <2>3. ctx' \in [Codes -> 0 .. made]
    BY <2>2
  <2> QED
    BY <2>1, <2>3 DEF Numbered
<1>2. NeverMisfreed'
  BY DEF NeverMisfreed, ContextsOwned
<1>3. ContextsOwned'
  <2> SUFFICES ASSUME NEW k \in Codes, ctx'[k] # Unset
               PROVE  /\ ctx'[k] \in heap'
                      /\ \A l \in Codes : ctx'[l] = ctx'[k] => l = k
    BY DEF ContextsOwned
  <2>1. k \notin ks /\ ctx'[k] = ctx[k]
    OBVIOUS
  <2>2. ctx[k] \in heap /\ \A l \in Codes : ctx[l] = ctx[k] => l = k
    BY <2>1 DEF ContextsOwned
  <2>3. \A l \in ks : ctx[l] # ctx[k]
    BY <2>1, <2>2
  <2>4. ctx'[k] \in heap'
    BY <2>1, <2>2, <2>3
  <2>5. \A l \in Codes : ctx'[l] = ctx'[k] => l = k
    BY <2>1, <2>2
  <2> QED
    BY <2>4, <2>5
<1> QED
  BY <1>1, <1>2, <1>3

\* A new context belongs to the code object it is compiled for.
LEMMA CompileOwned ==
    ASSUME Numbered, ContextsOwned, NeverMisfreed, NEW k \in Codes, Compile(k)
    PROVE  (Numbered /\ ContextsOwned /\ NeverMisfreed)'
<1> USE DEF Compile, Unset
<1>0. made' \in Nat /\ made' = made + 1 /\ made' \notin heap
  BY DEF Numbered
<1>1. Numbered'
  BY <1>0 DEF Numbered
<1>2. NeverMisfreed'
  BY DEF NeverMisfreed
<1>3. ContextsOwned'
  <2> SUFFICES ASSUME NEW j \in Codes, ctx'[j] # Unset
               PROVE  /\ ctx'[j] \in heap'
                      /\ \A l \in Codes : ctx'[l] = ctx'[j] => l = j
    BY DEF ContextsOwned
  <2>1. \A l \in Codes : ctx[l] # made'
    BY <1>0 DEF Numbered
  <2>2. \A l \in Codes : ctx'[l] = IF l = k THEN made' ELSE ctx[l]
    BY DEF Numbered
  <2>3. CASE j = k
    BY <2>1, <2>2, <2>3
  <2>4. CASE j # k
    BY <2>1, <2>2, <2>4 DEF ContextsOwned
  <2> QED
    BY <2>3, <2>4
<1> QED
  BY <1>1, <1>2, <1>3

\* Recompiling exchanges the context of one code object.
LEMMA RecompileOwned ==
    ASSUME Numbered, ContextsOwned, NeverMisfreed, NEW k \in Codes,
           NEW over \in BOOLEAN, Recompiled(k, over)
    PROVE  (Numbered /\ ContextsOwned /\ NeverMisfreed)'
<1> USE DEF Recompiled, Unset
<1>0. made' \in Nat /\ made' = made + 1 /\ made' \notin heap /\ made' # 0
  BY DEF Numbered
<1>1. Numbered'
  <2>0. heap \subseteq 1 .. made' /\ made' \in 1 .. made'
    BY <1>0 DEF Numbered
  <2>1. heap' \subseteq 1 .. made'
    BY <2>0
  <2>2. \A l \in Codes : ctx[l] \in 0 .. made'
    BY <1>0 DEF Numbered
  <2>3. (IF over THEN Unset ELSE made') \in 0 .. made'
    BY <1>0
  <2>4. ctx' \in [Codes -> 0 .. made']
    BY <2>2, <2>3 DEF Numbered
  <2> QED
    BY <1>0, <2>1, <2>4 DEF Numbered
<1>2. NeverMisfreed'
  BY DEF NeverMisfreed, ContextsOwned
<1>3. ContextsOwned'
  <2> SUFFICES ASSUME NEW j \in Codes, ctx'[j] # Unset
               PROVE  /\ ctx'[j] \in heap'
                      /\ \A l \in Codes : ctx'[l] = ctx'[j] => l = j
    BY DEF ContextsOwned
  <2>1. \A l \in Codes : ctx[l] # made'
    BY <1>0 DEF Numbered
  <2>2. \A l \in Codes :
           ctx'[l] = IF l = k THEN (IF over THEN 0 ELSE made') ELSE ctx[l]
    BY DEF Numbered
  <2>3. CASE j = k
    BY <2>1, <2>2, <2>3
  <2>4. CASE j # k
    <3>1. ctx[j] # Unset /\ ctx'[j] = ctx[j]
      BY <2>2, <2>4
    <3>2. ctx[j] \in heap /\ \A l \in Codes : ctx[l] = ctx[j] => l = j
      BY <3>1 DEF ContextsOwned
    <3>3. ctx[j] # ctx[k]
      BY <2>4, <3>2
    <3> QED
      BY <2>1, <2>2, <3>1, <3>2, <3>3
  <2> QED
    BY <2>3, <2>4
<1> QED
  BY <1>1, <1>2, <1>3

\* Contexts that are not touched stay owned.
LEMMA UntouchedOwned ==
    ASSUME Numbered, ContextsOwned, NeverMisfreed,
           UNCHANGED <<ctx, heap, misfreed>>, made' \in {made, made + 1}
    PROVE  (Numbered /\ ContextsOwned /\ NeverMisfreed)'
BY DEF Numbered, ContextsOwned, NeverMisfreed

\* The run of a main script at most frees its context.
LEMMA RunMainOwned ==
    ASSUME Numbered, ContextsOwned, NeverMisfreed, mrb = "open",
           NEW m \in MainSlots, RunMain(m)
    PROVE  (Numbered /\ ContextsOwned /\ NeverMisfreed)'
<1>1. CASE main_code[m] \in Codes /\ side = "http"
  BY <1>1, FreeOwned DEF RunMain
<1>2. CASE ~(main_code[m] \in Codes /\ side = "http")
  BY <1>2, UntouchedOwned DEF RunMain, contexts
<1> QED
  BY <1>1, <1>2
-----------------------------------------------------------------------------
(* The order of the cleanup handlers.                                      *)

\* Configuring and serving leave the cleanup handlers alone.
LEMMA MainStaysLast ==
    ASSUME MainLast, UNCHANGED <<mrb, cleanups>>,
           stage' \in {"destroying", "destroyed"} \/ mrb = "open"
    PROVE  MainLast'
BY DEF MainLast

\* Before the pool is destroyed the interpreter is open.
LEMMA OpenWhileUsed ==
    ASSUME MainLast, stage \notin {"destroying", "destroyed"}
    PROVE  mrb = "open"
BY DEF MainLast

\* A new block is cleaned up before the main configuration.
LEMMA CreateOrder ==
    ASSUME MainLast, NEW b \in Blocks, CreateConf(b)
    PROVE  MainLast'
<1> USE DEF CreateConf, AddedFirst
<1>1. cleanups \in Seq(Blocks \cup {Main}) /\ mrb = "open"
  BY DEF MainLast
<1>2. /\ cleanups' \in Seq(Blocks \cup {Main})
      /\ Len(cleanups') = Len(cleanups) + 1
      /\ cleanups'[1] = b
      /\ \A i \in 1 .. Len(cleanups) : cleanups'[i + 1] = cleanups[i]
  BY <1>1
<1>3. ASSUME NEW i \in 1 .. Len(cleanups'), cleanups'[i] = Main
      PROVE  i = Len(cleanups')
  <2>1. i # 1
    BY <1>2, <1>3
  <2>2. i - 1 \in 1 .. Len(cleanups) /\ i = (i - 1) + 1
    BY <1>1, <1>2, <2>1
  <2>3. cleanups[i - 1] = Main
    BY <1>2, <1>3, <2>2
  <2>4. i - 1 = Len(cleanups)
    BY <2>2, <2>3 DEF MainLast
  <2> QED
    BY <1>1, <1>2, <2>4
<1> QED
  BY <1>1, <1>2, <1>3 DEF MainLast

\* What is left after a cleanup handler has run.
LEMMA TailOrder ==
    ASSUME MainLast, cleanups # <<>>, cleanups' = Tail(cleanups)
    PROVE  /\ cleanups' \in Seq(Blocks \cup {Main})
           /\ \A i \in 1 .. Len(cleanups') :
                cleanups'[i] = Main => i = Len(cleanups')
           /\ Head(cleanups) = Main => cleanups' = <<>>
<1>1. /\ cleanups \in Seq(Blocks \cup {Main})
      /\ Len(cleanups) \in Nat /\ Len(cleanups) > 0
      /\ Head(cleanups) = cleanups[1]
  BY DEF MainLast
<1>2. /\ cleanups' \in Seq(Blocks \cup {Main})
      /\ Len(cleanups') = Len(cleanups) - 1
      /\ \A i \in 1 .. Len(cleanups') : cleanups'[i] = cleanups[i + 1]
  BY <1>1
<1>3. ASSUME NEW i \in 1 .. Len(cleanups'), cleanups'[i] = Main
      PROVE  i = Len(cleanups')
  <2>1. i + 1 \in 1 .. Len(cleanups) /\ cleanups[i + 1] = Main
    BY <1>1, <1>2, <1>3
  <2>2. i + 1 = Len(cleanups)
    BY <2>1 DEF MainLast
  <2>3. i \in Int /\ Len(cleanups) \in Int /\ Len(cleanups') = Len(cleanups) - 1
    BY <1>1, <1>2
  <2> QED
    BY <2>2, <2>3
<1>4. ASSUME Head(cleanups) = Main
      PROVE  cleanups' = <<>>
  <2>0. 1 \in 1 .. Len(cleanups) /\ cleanups[1] = Main
    BY <1>1, <1>4
  <2>1. Len(cleanups) = 1
    BY <2>0 DEF MainLast
  <2> QED
    BY <1>1, <1>2, <2>1
<1> QED
  BY <1>2, <1>3, <1>4
-----------------------------------------------------------------------------
(* The actions.                                                            *)

\* A directive compiles into a code object of its own, or refuses the
\* configuration before it allocates anything.
LEMMA DirectiveStep ==
    ASSUME ConfInv, HttpDirective \/ StreamDirectives
    PROVE  ConfInv'
<1>s. stage = "parsing" /\ UNCHANGED <<mrb, cleanups>>
  <2>1. CASE HttpDirective
    <3>1. Duplicate => stage = "parsing" /\ UNCHANGED <<mrb, cleanups>>
      BY DEF Duplicate
    <3>2. \A m, res : MainDirective(m, res) =>
             stage = "parsing" /\ UNCHANGED <<mrb, cleanups>>
      BY DEF MainDirective
    <3>3. \A b, flag, res :
             ServerConfig(b, res, flag) \/ SetDirective(b, flag, res)
               \/ SslDirective(b, flag, res)
             => stage = "parsing" /\ UNCHANGED <<mrb, cleanups>>
      BY DEF ServerConfig, SetDirective, SslDirective
    <3>4. \A b, s, flag, res : Directive(b, s, flag, res) =>
             stage = "parsing" /\ UNCHANGED <<mrb, cleanups>>
      BY DEF Directive
    <3> QED
      BY <2>1, <3>1, <3>2, <3>3, <3>4 DEF HttpDirective
  <2>2. CASE StreamDirectives
    BY <2>2 DEF StreamDirectives, StreamMainDirective, StreamDirective,
                StreamServerContext
  <2> QED
    BY <2>1, <2>2
<1>m. MainLast'
  BY <1>s, OpenWhileUsed, MainStaysLast DEF ConfInv
<1>c. Compile(NewCode) => (Numbered /\ ContextsOwned /\ NeverMisfreed)'
  <2>1. made < MaxContexts /\ made \in Nat => NewCode \in Codes
    BY DEF NewCode, Codes
  <2> QED
    BY <2>1, CompileOwned DEF ConfInv, Numbered, Compile
<1>u. UNCHANGED <<ctx, heap, misfreed>> /\ made' \in {made, made + 1}
        => (Numbered /\ ContextsOwned /\ NeverMisfreed)'
  BY UntouchedOwned DEF ConfInv
<1>1. \/ Compile(NewCode)
      \/ UNCHANGED <<ctx, heap, misfreed>> /\ made' \in {made, made + 1}
  <2>1. CASE HttpDirective
    BY <2>1 DEF HttpDirective, Duplicate, MainDirective, ServerConfig,
                SetDirective, SslDirective, Directive, InitializeCode, contexts
  <2>2. CASE StreamDirectives
    BY <2>2 DEF StreamDirectives, StreamMainDirective, StreamDirective,
                StreamServerContext, StreamCompile, contexts
  <2> QED
    BY <2>1, <2>2
<1> QED
  BY <1>m, <1>c, <1>u, <1>1 DEF ConfInv

\* The end of the configuration, the start of a worker and its end run main
\* scripts while the interpreter is open.
LEMMA ScriptStep ==
    ASSUME ConfInv, NEW ok \in BOOLEAN,
           Configured(ok) \/ StreamConfigured(ok) \/ StartWorker(ok) \/ Shutdown
    PROVE  ConfInv'
<1>1. stage \notin {"destroying", "destroyed"} /\ UNCHANGED <<mrb, cleanups>>
  BY DEF Configured, StreamConfigured, StartWorker, Shutdown
<1>2. mrb = "open"
  BY <1>1, OpenWhileUsed DEF ConfInv
<1>3. MainLast'
  BY <1>1, <1>2, MainStaysLast DEF ConfInv
<1>4. \E m \in MainSlots : RunMain(m)
  BY DEF Configured, StreamConfigured, StartWorker, Shutdown, MainSlots
<1> QED
  BY <1>2, <1>3, <1>4, RunMainOwned DEF ConfInv

\* Requests and handshakes recompile, or free what they have run.
LEMMA ServingStep ==
    ASSUME ConfInv, NEW b \in Blocks, NEW over \in BOOLEAN,
           Recompile(b, over) \/ Handshake(b, over)
    PROVE  ConfInv'
<1>1. stage = "serving" /\ UNCHANGED <<mrb, cleanups>>
  BY DEF Recompile, Handshake
<1>2. mrb = "open"
  BY <1>1, OpenWhileUsed DEF ConfInv
<1>3. MainLast'
  BY <1>1, <1>2, MainStaysLast DEF ConfInv
<1>4. \E k \in Codes : Recompiled(k, over) \/ Free({k})
  BY DEF Recompile, Handshake
<1>5. ASSUME NEW k \in Codes, Recompiled(k, over)
      PROVE  (Numbered /\ ContextsOwned /\ NeverMisfreed)'
  BY <1>5, RecompileOwned DEF ConfInv
<1>6. ASSUME NEW k \in Codes, Free({k})
      PROVE  (Numbered /\ ContextsOwned /\ NeverMisfreed)'
  BY <1>2, <1>6, FreeOwned DEF ConfInv
<1> QED
  BY <1>3, <1>4, <1>5, <1>6 DEF ConfInv

\* A block is cleaned up while the handler of the main configuration, and
\* so the interpreter, is still there; the main configuration comes last.
LEMMA CleanupStep ==
    ASSUME ConfInv, CleanupMain \/ \E b \in Blocks : CleanupConf(b)
    PROVE  ConfInv'
<1>1. stage = "destroying" /\ stage' = stage
      /\ cleanups # <<>> /\ cleanups' = Tail(cleanups)
  BY DEF CleanupMain, CleanupConf
<1>2. mrb = "open"
  BY <1>1 DEF ConfInv, MainLast
<1>3. MainLast'
  <2>1. mrb' = "open" \/ cleanups' = <<>>
    BY <1>1, <1>2, TailOrder DEF ConfInv, CleanupMain, CleanupConf
  <2> QED
    BY <1>1, <2>1, TailOrder DEF ConfInv, MainLast
<1>4. \E ks \in SUBSET Codes : Free(ks)
  BY DEF CleanupMain, CleanupConf, Pointers
<1> QED
  BY <1>2, <1>3, <1>4, FreeOwned DEF ConfInv

\* Steps that touch no context.
LEMMA OtherStep ==
    ASSUME ConfInv,
           \/ Drop \/ Destroyed
           \/ \E done \in SUBSET Blocks : SslNotConfigured(done)
           \/ \E b \in Blocks : CreateConf(b)
    PROVE  ConfInv'
<1>1. UNCHANGED contexts
  BY DEF Drop, Destroyed, SslNotConfigured, CreateConf
<1>2. (Numbered /\ ContextsOwned /\ NeverMisfreed)'
  BY <1>1, UntouchedOwned DEF ConfInv, contexts
<1>3. MainLast'
  <2>1. CASE \E b \in Blocks : CreateConf(b)
    BY <2>1, CreateOrder DEF ConfInv
  <2>2. CASE ~ \E b \in Blocks : CreateConf(b)
    <3>1. UNCHANGED <<mrb, cleanups>> /\ stage' \in {"destroying", "destroyed"}
      BY <2>2 DEF Drop, Destroyed, SslNotConfigured
    <3> QED
      BY <3>1, MainStaysLast DEF ConfInv
  <2> QED
    BY <2>1, <2>2
<1> QED
  BY <1>2, <1>3 DEF ConfInv

-----------------------------------------------------------------------------
\* An interpreter without codes satisfies the invariant.
LEMMA ConfStart == Init => ConfInv
<1> SUFFICES ASSUME Init PROVE ConfInv
  OBVIOUS
<1>1. Numbered /\ ContextsOwned /\ NeverMisfreed
  BY DEF Init, Numbered, ContextsOwned, NeverMisfreed, Unset
<1>2. MainLast
  BY DEF Init, MainLast
<1> QED
  BY <1>1, <1>2 DEF ConfInv

\* The inductive invariant: contexts have one owner, and the interpreter is
\* open as long as a cleanup handler is left.
THEOREM ConfSafety == Spec => []ConfInv
<1>1. ConfInv /\ [Next]_vars => ConfInv'
  <2> SUFFICES ASSUME ConfInv, [Next]_vars PROVE ConfInv'
    OBVIOUS
  <2>1. CASE UNCHANGED vars
    BY <2>1 DEF vars, contexts, confs, ConfInv, Numbered, ContextsOwned,
                NeverMisfreed, MainLast
  <2>2. CASE Next
    BY <2>2, DirectiveStep, ScriptStep, ServingStep, CleanupStep, OtherStep DEF Next
  <2> QED
    BY <2>1, <2>2
<1> QED
  BY <1>1, ConfStart, PTL DEF Spec

\* No code object keeps a pointer to a freed context, and no two share one,
\* however blocks inherit code and requests recompile it.
THEOREM ContextsStayOwned == Spec => []ContextsOwned
<1>1. ConfInv => ContextsOwned
  BY DEF ConfInv
<1> QED
  BY <1>1, ConfSafety, PTL

\* No context is freed twice or after mrb_close, in any tree of blocks and
\* at whatever point the configuration is given up.
THEOREM NothingMisfreed == Spec => []NeverMisfreed
<1>1. ConfInv => NeverMisfreed
  BY DEF ConfInv
<1> QED
  BY <1>1, ConfSafety, PTL

-----------------------------------------------------------------------------
(* What merging computes.                                                  *)

\* The block that decides: going outwards from any block, the first one that
\* stops is found, since blocks nest.
LEMMA FirstAround ==
    ASSUME NEW stop \in [Blocks -> BOOLEAN],
           \A b \in Blocks : Parent[b] = Main => stop[b]
    PROVE  \E d \in [Blocks -> Blocks] :
              \A b \in Blocks : d[b] = IF stop[b] THEN b ELSE d[Parent[b]]
<1> DEFINE Pairs == Blocks \X Blocks
           Closed(R) == /\ \A b \in Blocks : stop[b] => <<b, b>> \in R
                        /\ \A b, d \in Blocks :
                             ~stop[b] /\ <<Parent[b], d>> \in R => <<b, d>> \in R
           Least == {p \in Pairs : \A R \in SUBSET Pairs : Closed(R) => p \in R}
<1>1. Closed(Least)
  <2>1. ASSUME NEW b \in Blocks, stop[b]
        PROVE  <<b, b>> \in Least
    BY <2>1
  <2>2. ASSUME NEW b \in Blocks, NEW d \in Blocks, ~stop[b], <<Parent[b], d>> \in Least
        PROVE  <<b, d>> \in Least
    <3>1. ASSUME NEW R \in SUBSET Pairs, Closed(R)
          PROVE  <<b, d>> \in R
      <4>1. <<Parent[b], d>> \in R
        BY <2>2, <3>1
      <4> QED
        BY <2>2, <3>1, <4>1
    <3> QED
      BY <3>1
  <2> QED
    BY <2>1, <2>2
<1>2. \A b \in Blocks : \E d \in Blocks : <<b, d>> \in Least
  <2> DEFINE None == {b \in Blocks : \A d \in Blocks : <<b, d>> \notin Least}
  <2>1. SUFFICES ASSUME None # {} PROVE FALSE
    OBVIOUS
  <2>2. PICK b \in None : Parent[b] \notin None
    BY <2>1, NestAssumption
  <2>3. ~stop[b]
    BY <1>1, <2>2
  <2>4. Parent[b] \in Blocks
    BY <2>2, <2>3
  <2>5. PICK d \in Blocks : <<Parent[b], d>> \in Least
    BY <2>2, <2>4
  <2> QED
    BY <1>1, <2>2, <2>3, <2>5
<1>3. \A b, d, e \in Blocks : <<b, d>> \in Least /\ <<b, e>> \in Least => d = e
  <2> DEFINE Twice == {b \in Blocks : \E d, e \in Blocks :
                         d # e /\ <<b, d>> \in Least /\ <<b, e>> \in Least}
  <2>1. SUFFICES ASSUME Twice # {} PROVE FALSE
    OBVIOUS
  <2>2. PICK b \in Twice : Parent[b] \notin Twice
    BY <2>1, NestAssumption
  <2>3. PICK o \in Blocks :
           /\ stop[b] => o = b
           /\ ~stop[b] => \A d \in Blocks : <<Parent[b], d>> \in Least => d = o
    <3>1. CASE stop[b]
      BY <2>2, <3>1
    <3>2. CASE ~stop[b]
      <4>1. Parent[b] \in Blocks
        BY <2>2, <3>2
      <4>2. PICK d \in Blocks : <<Parent[b], d>> \in Least
        BY <1>2, <4>1
      <4>3. \A e \in Blocks : <<Parent[b], e>> \in Least => e = d
        BY <2>2, <4>1, <4>2
      <4> QED
        BY <3>2, <4>3
    <3> QED
      BY <3>1, <3>2
  <2> DEFINE Kept == {p \in Least : p[1] = b => p[2] = o}
  <2>4. Kept \in SUBSET Pairs
    OBVIOUS
  <2>5. \A c, d \in Blocks : <<c, d>> \in Kept <=> <<c, d>> \in Least /\ (c = b => d = o)
    BY Zenon
  <2>6. Closed(Kept)
    <3>1. ASSUME NEW c \in Blocks, stop[c]
          PROVE  <<c, c>> \in Kept
      BY <1>1, <2>3, <2>5, <3>1
    <3>2. ASSUME NEW c \in Blocks, NEW d \in Blocks, ~stop[c], <<Parent[c], d>> \in Kept
          PROVE  <<c, d>> \in Kept
      <4>1. <<Parent[c], d>> \in Least
        BY <3>2
      <4>2. <<c, d>> \in Least
        BY <1>1, <3>2, <4>1
      <4>3. c = b => d = o
        BY <2>3, <3>2, <4>1
      <4> QED
        BY <2>5, <4>2, <4>3
    <3> QED
      BY <3>1, <3>2
  <2>7. \A d \in Blocks : <<b, d>> \in Least => d = o
    BY <2>2, <2>4, <2>5, <2>6
  <2> QED
    BY <2>2, <2>7
<1> DEFINE d == [b \in Blocks |-> CHOOSE e \in Blocks : <<b, e>> \in Least]
<1>4. \A b \in Blocks : d[b] \in Blocks /\ <<b, d[b]>> \in Least
  BY <1>2
<1>5. d \in [Blocks -> Blocks]
  BY <1>2
<1> HIDE DEF d, Least
<1>6. ASSUME NEW b \in Blocks
      PROVE  d[b] = IF stop[b] THEN b ELSE d[Parent[b]]
  <2>1. CASE stop[b]
    BY <1>1, <1>3, <1>4, <2>1
  <2>2. CASE ~stop[b]
    <3>1. Parent[b] \in Blocks
      BY <2>2
    <3>2. <<b, d[Parent[b]]>> \in Least
      BY <1>1, <1>4, <2>2, <3>1
    <3> QED
      BY <1>3, <1>4, <2>2, <3>1, <3>2
  <2> QED
    BY <2>1, <2>2
<1> QED
  BY <1>5, <1>6

\* The functions that go outwards from a block are determined by what they
\* are where they stop.
LEMMA SameAround ==
    ASSUME NEW stop \in [Blocks -> BOOLEAN], NEW f, NEW g,
           \A b \in Blocks : Parent[b] = Main => stop[b],
           \A b \in Blocks : stop[b] => f[b] = g[b],
           \A b \in Blocks : ~stop[b] => f[b] = f[Parent[b]] /\ g[b] = g[Parent[b]]
    PROVE  \A b \in Blocks : f[b] = g[b]
<1> DEFINE Differ == {b \in Blocks : f[b] # g[b]}
<1>1. SUFFICES ASSUME Differ # {} PROVE FALSE
  OBVIOUS
<1>2. PICK b \in Differ : Parent[b] \notin Differ
  BY <1>1, NestAssumption
<1>3. ~stop[b] /\ Parent[b] \in Blocks
  BY <1>2
<1> QED
  BY <1>2, <1>3

\* Merging gives a block its own code, or what its parent was given.
LEMMA MergedIs ==
    /\ Merged = [b \in Blocks |-> [s \in Slots |-> Inherited(b, s, Merged)]]
    /\ \A b \in Blocks, s \in Slots : Merged[b][s] = Inherited(b, s, Merged)
<1> DEFINE Step(f) == [b \in Blocks |-> [s \in Slots |-> Inherited(b, s, f)]]
           Stop(s) == [b \in Blocks |-> code[b][s] # Unset \/ Parent[b] = Main]
           From(s, d) == \A b \in Blocks : d[b] = IF Stop(s)[b] THEN b ELSE d[Parent[b]]
           dec == [s \in Slots |-> CHOOSE d \in [Blocks -> Blocks] : From(s, d)]
           f0 == [b \in Blocks |-> [s \in Slots |-> code[dec[s][b]][s]]]
<1>1. ASSUME NEW s \in Slots
      PROVE  dec[s] \in [Blocks -> Blocks] /\ From(s, dec[s])
  <2>1. \E d \in [Blocks -> Blocks] : From(s, d)
    BY FirstAround
  <2> QED
    BY <2>1
<1> HIDE DEF dec
<1>2. ASSUME NEW b \in Blocks, NEW s \in Slots
      PROVE  f0[b][s] = Inherited(b, s, f0)
  <2>0. dec[s][b] = IF Stop(s)[b] THEN b ELSE dec[s][Parent[b]]
    BY <1>1
  <2>1. CASE Stop(s)[b]
    BY <2>0, <2>1 DEF Inherited
  <2>2. CASE ~Stop(s)[b]
    <3>1. Parent[b] \in Blocks /\ code[b][s] = Unset /\ Parent[b] # Main
      BY <2>2
    <3>2. f0[b][s] = code[dec[s][Parent[b]]][s]
      BY <2>0, <2>2
    <3>3. f0[Parent[b]][s] = code[dec[s][Parent[b]]][s]
      BY <3>1
    <3> QED
      BY <3>1, <3>2, <3>3 DEF Inherited
  <2> QED
    BY <2>1, <2>2
<1> DEFINE W == [b \in Blocks |-> [s \in Slots |-> Inherited(b, s, f0)]]
<1>3. f0 = W
  <2>1. \A b \in Blocks : f0[b] = [s \in Slots |-> Inherited(b, s, f0)]
    BY <1>2
  <2> QED
    BY <2>1
<1> HIDE DEF f0
<1>4. \E f : f = Step(f)
  BY <1>3
<1>5. Merged = CHOOSE f : f = Step(f)
  BY DEF Merged
<1>6. Merged = Step(Merged)
  BY <1>4, <1>5
<1> QED
  BY <1>6

\* A block with code keeps it, and what any other is given is the code of
\* some block.
LEMMA MergedFrom ==
    ASSUME NEW s \in Slots
    PROVE  /\ \A b \in Blocks : code[b][s] # Unset => Merged[b][s] = code[b][s]
           /\ \A b \in Blocks : \E c \in Blocks : Merged[b][s] = code[c][s]
<1>1. \A b \in Blocks : Merged[b][s] = Inherited(b, s, Merged)
  BY MergedIs
<1>2. \A b \in Blocks : code[b][s] # Unset => Merged[b][s] = code[b][s]
  BY <1>1 DEF Inherited
<1> DEFINE Other == {b \in Blocks : \A c \in Blocks : Merged[b][s] # code[c][s]}
<1>3. Other = {}
  <2>1. SUFFICES ASSUME Other # {} PROVE FALSE
    OBVIOUS
  <2>2. PICK b \in Other : Parent[b] \notin Other
    BY <2>1, NestAssumption
  <2>3. Merged[b][s] # code[b][s]
    BY <2>2
  <2>4. Parent[b] \in Blocks /\ Merged[b][s] = Merged[Parent[b]][s]
    BY <1>1, <2>2, <2>3 DEF Inherited
  <2> QED
    BY <2>2, <2>4
<1> QED
  BY <1>2, <1>3

\* The deciding block of b is b itself or that of its parent.
LEMMA DecidingIs ==
    ASSUME NEW s \in Slots, NEW b \in Blocks
    PROVE  Deciding(b, s) = IF defined[b][s] # Unset \/ Parent[b] = Main THEN b
                            ELSE Deciding(Parent[b], s)
<1> DEFINE stop == [c \in Blocks |-> defined[c][s] # Unset \/ Parent[c] = Main]
           Step(f) == [c \in Blocks |-> IF defined[c][s] # Unset \/ Parent[c] = Main
                                        THEN c ELSE f[Parent[c]]]
<1>1. PICK d \in [Blocks -> Blocks] :
         \A c \in Blocks : d[c] = IF stop[c] THEN c ELSE d[Parent[c]]
  BY FirstAround
<1>2. d = Step(d)
  BY <1>1
<1> DEFINE inner == CHOOSE f : f = Step(f)
<1>3. inner = Step(inner)
  BY <1>2
<1>4. \A c : Deciding(c, s) = inner[c]
  BY DEF Deciding
<1> HIDE DEF inner
<1>5. inner[b] = IF defined[b][s] # Unset \/ Parent[b] = Main THEN b ELSE inner[Parent[b]]
  BY <1>3
<1> QED
  BY <1>4, <1>5

\* Merging what the directives named gives each block the code of the block
\* that decides for it.
LEMMA MergedDecides ==
    ASSUME NEW s \in Slots, code = defined
    PROVE  \A b \in Blocks : Merged[b][s] = defined[Deciding(b, s)][s]
<1> DEFINE stop == [c \in Blocks |-> defined[c][s] # Unset \/ Parent[c] = Main]
           f == [b \in Blocks |-> Merged[b][s]]
           g == [b \in Blocks |-> defined[Deciding(b, s)][s]]
<1>1. stop \in [Blocks -> BOOLEAN] /\ \A b \in Blocks : Parent[b] = Main => stop[b]
  OBVIOUS
<1>2. \A b \in Blocks : Merged[b][s] = Inherited(b, s, Merged)
  BY MergedIs
<1>3. ASSUME NEW b \in Blocks, stop[b]
      PROVE  f[b] = g[b]
  <2>1. Deciding(b, s) = b
    BY <1>3, DecidingIs
  <2>2. Merged[b][s] = code[b][s]
    BY <1>2, <1>3 DEF Inherited
  <2> QED
    BY <2>1, <2>2
<1>4. ASSUME NEW b \in Blocks, ~stop[b]
      PROVE  f[b] = f[Parent[b]] /\ g[b] = g[Parent[b]]
  <2>1. Parent[b] \in Blocks /\ Parent[b] # Main /\ code[b][s] = Unset
    BY <1>4
  <2>2. Deciding(b, s) = Deciding(Parent[b], s)
    BY <1>4, DecidingIs
  <2>3. Merged[b][s] = Merged[Parent[b]][s]
    BY <1>2, <2>1 DEF Inherited
  <2> QED
    BY <2>1, <2>2, <2>3
<1> HIDE DEF stop
<1>5. \A b \in Blocks : f[b] = g[b]
  <2> HIDE DEF f, g
  <2> QED
    BY <1>1, <1>3, <1>4, SameAround
<1> QED
  BY <1>5

-----------------------------------------------------------------------------
(* The code that a block points to.                                        *)

\* What NearestCode says of a state in which requests are served.
Nearest ==
    \A b \in Blocks, s \in Slots : code[b][s] = defined[Deciding(b, s)][s]

\* Until it is merged a block points to what its own directives named.
NearInv ==
    /\ {code, defined} \subseteq [Blocks -> [Slots -> Nat]]
    /\ stage = "parsing" => code = defined
    /\ stage \in {"configured", "serving"} => Nearest

\* Steps that leave the codes of blocks alone and do not end the parsing.
LEMMA NearKept ==
    ASSUME NearInv, UNCHANGED <<code, defined>>,
           stage' = "parsing" => stage = "parsing",
           stage' \in {"configured", "serving"} => stage \in {"configured", "serving"}
    PROVE  NearInv'
<1>1. Nearest' <=> Nearest
  BY DEF Nearest, Deciding
<1> QED
  BY <1>1 DEF NearInv

\* What is merged are code objects again.
LEMMA MergedType ==
    ASSUME NearInv
    PROVE  Merged \in [Blocks -> [Slots -> Nat]]
<1>1. \A b \in Blocks, s \in Slots : code[b][s] \in Nat
  BY DEF NearInv
<1>2. \A b \in Blocks, s \in Slots : Merged[b][s] \in Nat
  BY <1>1, MergedFrom
<1>3. \A b \in Blocks, s \in Slots : Inherited(b, s, Merged) \in Nat
  BY <1>2, MergedIs
<1>4. \A b \in Blocks : [s \in Slots |-> Inherited(b, s, Merged)] \in [Slots -> Nat]
  BY <1>3
<1> QED
  BY <1>4, MergedIs

\* A directive names the code its block points to.
LEMMA DirectiveNear ==
    ASSUME NearInv, Numbered, HttpDirective \/ StreamDirectives
    PROVE  NearInv'
<1>0. NewCode \in Nat
  BY DEF Numbered, NewCode
<1>1. ASSUME stage = "parsing", stage' \in {"parsing", "destroying"},
             UNCHANGED <<code, defined>>
      PROVE  NearInv'
  BY <1>1, NearKept
<1>2. ASSUME NEW b \in Blocks, NEW s \in Slots, stage = "parsing",
             stage' \in {"parsing", "destroying"},
             code' = [code EXCEPT ![b][s] = NewCode],
             defined' = [defined EXCEPT ![b][s] = NewCode]
      PROVE  NearInv'
  <2>1. code \in [Blocks -> [Slots -> Nat]] /\ defined = code
    BY <1>2 DEF NearInv
  <2>2. code' \in [Blocks -> [Slots -> Nat]] /\ defined' = code'
    BY <1>0, <1>2, <2>1
  <2> QED
    BY <1>2, <2>2 DEF NearInv
<1>3. CASE Duplicate
  BY <1>1, <1>3 DEF Duplicate, confs, loc_confs
<1>4. ASSUME NEW m, NEW res, MainDirective(m, res)
      PROVE  NearInv'
  BY <1>1, <1>4 DEF MainDirective, InitializeCode, RefusedUnless, loc_confs
<1>5. ASSUME NEW b, NEW flag, NEW res, 
             ServerConfig(b, res, flag) \/ SetDirective(b, flag, res)
               \/ SslDirective(b, flag, res)
      PROVE  NearInv'
  BY <1>1, <1>5 DEF ServerConfig, SetDirective, SslDirective, InitializeCode,
                    RefusedUnless, loc_confs
<1>6. ASSUME NEW b \in Blocks, NEW s \in Slots, NEW flag, NEW res, Directive(b, s, flag, res)
      PROVE  NearInv'
  <2>1. /\ stage = "parsing" /\ stage' \in {"parsing", "destroying"}
        /\ code' = [code EXCEPT ![b][s] = NewCode]
        /\ defined' = [defined EXCEPT ![b][s] = NewCode]
    BY <1>6 DEF Directive, InitializeCode, RefusedUnless
  <2> QED
    BY <1>2, <2>1
<1>7. ASSUME NEW m, NEW res, StreamMainDirective(m, res)
      PROVE  NearInv'
  BY <1>1, <1>7 DEF StreamMainDirective, RefusedUnless, loc_confs
<1>8. ASSUME NEW b \in Blocks, NEW res, StreamDirective(b, res)
      PROVE  NearInv'
  <2>1. /\ stage = "parsing" /\ stage' \in {"parsing", "destroying"}
        /\ code' = [code EXCEPT ![b]["handler"] = NewCode]
        /\ defined' = [defined EXCEPT ![b]["handler"] = NewCode]
    BY <1>8 DEF StreamDirective, RefusedUnless
  <2>2. "handler" \in Slots
    BY DEF Slots
  <2> QED
    BY <1>2, <2>1, <2>2
<1>9. ASSUME NEW b, NEW ok, StreamServerContext(b, ok)
      PROVE  NearInv'
  BY <1>1, <1>9 DEF StreamServerContext, RefusedUnless, confs, loc_confs
<1> QED
  BY <1>3, <1>4, <1>5, <1>6, <1>7, <1>8, <1>9 DEF HttpDirective, StreamDirectives

\* Merging makes the code of each block that of the block that decides.
LEMMA MergeNear ==
    ASSUME NearInv, NEW ok, Configured(ok) \/ StreamConfigured(ok)
    PROVE  NearInv'
<1>1. /\ stage = "parsing" /\ code' = Merged
      /\ UNCHANGED defined /\ stage' # "parsing"
  BY DEF Configured, StreamConfigured
<1>2. code = defined
  BY <1>1 DEF NearInv
<1>3. Nearest'
  <2> SUFFICES ASSUME NEW b \in Blocks, NEW s \in Slots
               PROVE  code'[b][s] = defined'[Deciding(b, s)'][s]
    BY DEF Nearest
  <2>1. Deciding(b, s)' = Deciding(b, s)
    BY <1>1 DEF Deciding
  <2>2. code'[b][s] = defined[Deciding(b, s)][s]
    BY <1>1, <1>2, MergedDecides
  <2> QED
    BY <1>1, <2>1, <2>2
<1>4. code' \in [Blocks -> [Slots -> Nat]]
  BY <1>1, MergedType
<1> QED
  BY <1>1, <1>3, <1>4 DEF NearInv

\* A configuration that is given up half merged serves nothing.
LEMMA SslNear ==
    ASSUME NearInv, NEW done, SslNotConfigured(done)
    PROVE  NearInv'
<1>1. \A b \in Blocks : Merged[b] \in [Slots -> Nat] /\ code[b] \in [Slots -> Nat]
  BY MergedType DEF NearInv
<1>2. code' \in [Blocks -> [Slots -> Nat]]
  BY <1>1 DEF SslNotConfigured
<1> QED
  BY <1>2 DEF NearInv, SslNotConfigured

\* While serving, each block points, for every directive, to the code of the
\* innermost block around it that has the directive, for any nesting of
\* blocks: merge_loc_conf passes the codes from block to block.
THEOREM NearestRuns == Spec => []NearestCode
<1>1. Init => NearInv
  <2> SUFFICES ASSUME Init PROVE NearInv
    OBVIOUS
  <2>1. code \in [Blocks -> [Slots -> Nat]] /\ defined = code
    BY DEF Init, EmptyConf, Slots, Unset
  <2> QED
    BY <2>1 DEF Init, NearInv
<1>2. NearInv /\ ConfInv /\ [Next]_vars => NearInv'
  <2> SUFFICES ASSUME NearInv, ConfInv, [Next]_vars PROVE NearInv'
    OBVIOUS
  <2>1. CASE UNCHANGED vars
    BY <2>1, NearKept DEF vars, confs, loc_confs
  <2>2. CASE HttpDirective \/ StreamDirectives
    BY <2>2, DirectiveNear DEF ConfInv
  <2>3. CASE \E ok \in BOOLEAN : Configured(ok) \/ StreamConfigured(ok)
    BY <2>3, MergeNear
  <2>4. CASE \E done \in SUBSET Blocks : SslNotConfigured(done)
    BY <2>4, SslNear
  <2>5. CASE \/ Shutdown \/ Drop \/ CleanupMain \/ Destroyed
             \/ \E ok \in BOOLEAN : StartWorker(ok)
    BY <2>5, NearKept DEF Shutdown, Drop, CleanupMain, Destroyed, StartWorker, confs, loc_confs
  <2>6. CASE \E b \in Blocks :
               \/ CreateConf(b) \/ CleanupConf(b)
               \/ \E over \in BOOLEAN : Recompile(b, over) \/ Handshake(b, over)
    BY <2>6, NearKept DEF CreateConf, CleanupConf, Recompile, Handshake, confs, loc_confs
  <2> QED
    BY <2>1, <2>2, <2>3, <2>4, <2>5, <2>6 DEF Next
<1>3. NearInv => NearestCode
  BY DEF NearInv, Nearest, NearestCode
<1> QED
  BY <1>1, <1>2, <1>3, ConfSafety, PTL DEF Spec

-----------------------------------------------------------------------------
(* Nothing leaks on the http side.                                         *)

\* The code objects that anything points to.
Named ==
    {k \in Codes :
       \/ \E m \in MainSlots : main_code[m] = k
       \/ \E b \in Blocks :
            \/ \E s \in Slots : code[b][s] = k
            \/ k \in set_code_list[b]
            \/ config_code[b] = k \/ ssl_code[b] = k}

\* Those that a cleanup handler still to run will free.
Reached ==
    {k \in Codes :
       \/ Main \in Created /\ \E m \in MainSlots : main_code[m] = k
       \/ \E b \in Blocks \cap Created : k \in Pointers(b)}

\* Directives name the code objects made so far; later ones are unused.
Numbers ==
    /\ code \in [Blocks -> [Slots -> 0 .. made]]
    /\ set_code_list \in [Blocks -> SUBSET (1 .. made)]
    /\ config_code \in [Blocks -> 0 .. made]
    /\ ssl_code \in [Blocks -> 0 .. made]
    /\ main_code \in [MainSlots -> 0 .. made]
    /\ \A k \in Codes : k > made => ctx[k] = Unset

\* The code a block inherits is that of a block which frees it.
Owners ==
    /\ \A b \in Blocks, s \in Slots :
         code[b][s] # Unset => \E c \in state : code[c][s] = code[b][s]
    /\ state \subseteq Blocks
    /\ \A b \in Blocks : set_code_list[b] # {} => b \in state

\* Until the pool is destroyed, the cleanup handlers of all these blocks,
\* and that of the main configuration, are to run.
Pending ==
    /\ stage \in {"parsing", "configured", "serving"} =>
         /\ state \subseteq Created
         /\ \A b \in Blocks : ssl_code[b] # Unset => b \in Created
    /\ Main \in Created \/ mrb = "closed"
    /\ stage = "destroyed" => cleanups = <<>>

\* Every context is one that a cleanup handler will free, or one of an
\* mruby_set directive that did not compile, which nothing points to.
Held ==
    /\ \A h \in heap \ lost : \E k \in Reached : ctx[k] = h
    /\ lost \subseteq heap
    /\ \A k \in Named : ctx[k] \notin lost

\* The invariant behind NothingLeaks.
LeakInv == side = "http" => Numbers /\ Owners /\ Pending /\ Held

\* What a cleanup handler will free is pointed to.
LEMMA ReachedNamed == Reached \subseteq Named
BY DEF Reached, Named, Pointers

\* Freeing codes that something points to.
LEMMA FreeHeld ==
    ASSUME Numbers, Held, Numbered, NEW ks \in SUBSET Codes, ks \subseteq Named,
           Free(ks), lost' = lost, Named' \subseteq Named,
           Reached \subseteq Reached' \cup ks
    PROVE  Held'
<1> USE DEF Free
<1>1. \A k \in Codes : ctx'[k] = IF k \in ks THEN Unset ELSE ctx[k]
  OBVIOUS
<1>2. ASSUME NEW h \in heap' \ lost'
      PROVE  \E k \in Reached' : ctx'[k] = h
  <2>1. PICK k \in Reached : ctx[k] = h
    BY <1>2 DEF Held
  <2>2. k \notin ks /\ k \in Codes
    BY <1>2, <2>1 DEF Reached
  <2> QED
    BY <1>1, <2>1, <2>2
<1>3. lost' \subseteq heap'
  <2>1. \A k \in ks : ctx[k] \notin lost
    BY DEF Held
  <2> QED
    BY <2>1 DEF Held
<1>4. ASSUME NEW k \in Named'
      PROVE  ctx'[k] \notin lost'
  <2>1. k \in Codes /\ ctx[k] \notin lost
    BY DEF Held, Named
  <2>2. Unset \notin lost
    BY DEF Held, Numbered, Unset
  <2> QED
    BY <1>1, <2>1, <2>2
<1> QED
  BY <1>2, <1>3, <1>4 DEF Held

\* A new code object that a cleanup handler will free.
LEMMA CompileHeld ==
    ASSUME Numbers, Held, Numbered, Compile(NewCode), lost' = lost,
           Named' \subseteq Named \cup {NewCode}, Reached \cup {NewCode} \subseteq Reached'
    PROVE  Held'
<1>1. /\ made \in Nat /\ made' = made + 1 /\ NewCode = made'
      /\ heap' = heap \cup {made'} /\ NewCode \in Codes
  BY DEF Compile, NewCode, Numbered, Codes
<1>2. ctx'[NewCode] = made' /\ \A k \in Codes : k # NewCode => ctx'[k] = ctx[k]
  BY <1>1 DEF Compile, Numbered
<1>3. NewCode \notin Reached
  BY <1>1 DEF Numbers, Reached, Pointers, MainSlots, Slots
<1>4. ASSUME NEW h \in heap' \ lost'
      PROVE  \E k \in Reached' : ctx'[k] = h
  <2>1. CASE h = made'
    BY <1>1, <1>2, <2>1
  <2>2. CASE h # made'
    <3>1. PICK k \in Reached : ctx[k] = h
      BY <1>1, <1>4, <2>2 DEF Held
    <3>2. k \in Codes /\ k # NewCode
      BY <1>3 DEF Reached
    <3> QED
      BY <1>2, <3>1, <3>2
  <2> QED
    BY <2>1, <2>2
<1>5. lost' \subseteq heap'
  BY <1>1 DEF Held
<1>6. made' \notin lost
  BY <1>1 DEF Held, Numbered
<1>7. ASSUME NEW k \in Named'
      PROVE  ctx'[k] \notin lost'
  BY <1>2, <1>6 DEF Held, Named
<1> QED
  BY <1>4, <1>5, <1>7 DEF Held

\* A new code object that nothing will point to.
LEMMA LostHeld ==
    ASSUME Numbers, Held, Numbered, Compile(NewCode), lost' = lost \cup {made'},
           Named' \subseteq Named, Reached \subseteq Reached'
    PROVE  Held'
<1>1. /\ made \in Nat /\ made' = made + 1 /\ NewCode = made'
      /\ heap' = heap \cup {made'} /\ NewCode \in Codes
  BY DEF Compile, NewCode, Numbered, Codes
<1>2. \A k \in Codes : k # NewCode => ctx'[k] = ctx[k]
  BY <1>1 DEF Compile, Numbered
<1>3. NewCode \notin Named
  BY <1>1 DEF Numbers, Named, MainSlots, Slots
<1>4. ASSUME NEW h \in heap' \ lost'
      PROVE  \E k \in Reached' : ctx'[k] = h
  <2>1. PICK k \in Reached : ctx[k] = h
    BY <1>1, <1>4 DEF Held
  <2>2. k \in Codes /\ k # NewCode
    BY <1>3, ReachedNamed DEF Reached
  <2> QED
    BY <1>2, <2>1, <2>2
<1>5. lost' \subseteq heap'
  BY <1>1 DEF Held
<1>6. ASSUME NEW k \in Named'
      PROVE  ctx'[k] \notin lost'
  <2>1. k \in Named /\ k \in Codes /\ k # NewCode
    BY <1>3 DEF Named
  <2>2. ctx'[k] = ctx[k] /\ ctx[k] \notin lost
    BY <1>2, <2>1 DEF Held
  <2>3. ctx[k] # made'
    BY <1>1, <2>1 DEF Numbered
  <2> QED
    BY <2>2, <2>3
<1> QED
  BY <1>4, <1>5, <1>6 DEF Held

\* A code object is compiled again.
LEMMA RecompiledHeld ==
    ASSUME Held, Numbered, ContextsOwned, NEW k \in Reached, NEW over \in BOOLEAN,
           Recompiled(k, over), lost' = lost, Named' = Named, Reached' = Reached
    PROVE  Held'
<1>0. k \in Codes /\ k \in Named
  BY ReachedNamed DEF Reached
<1>1. /\ made \in Nat /\ made' = made + 1
      /\ heap' = (heap \ {ctx[k]}) \cup (IF over THEN {} ELSE {made'})
      /\ ctx'[k] = IF over THEN Unset ELSE made'
      /\ \A l \in Codes : l # k => ctx'[l] = ctx[l]
  BY <1>0 DEF Recompiled, Numbered
<1>2. ctx[k] \notin lost /\ made' \notin lost /\ Unset \notin lost
  BY <1>0, <1>1 DEF Held, Numbered, Unset
<1>3. ASSUME NEW h \in heap' \ lost'
      PROVE  \E l \in Reached' : ctx'[l] = h
  <2>1. CASE h \in heap /\ h # ctx[k]
    <3>1. PICK l \in Reached : ctx[l] = h
      BY <1>3, <2>1 DEF Held
    <3>2. l # k /\ l \in Codes
      BY <2>1, <3>1 DEF Reached
    <3> QED
      BY <1>1, <3>1, <3>2
  <2>2. CASE ~over /\ h = made'
    BY <1>1, <2>2
  <2> QED
    BY <1>1, <1>3, <2>1, <2>2
<1>4. lost' \subseteq heap'
  BY <1>1, <1>2 DEF Held
<1>5. ASSUME NEW l \in Named'
      PROVE  ctx'[l] \notin lost'
  <2>1. l \in Codes /\ ctx[l] \notin lost
    BY DEF Held, Named
  <2> QED
    BY <1>1, <1>2, <2>1
<1> QED
  BY <1>3, <1>4, <1>5 DEF Held

\* Nothing is allocated or freed.
LEMMA QuietHeld ==
    ASSUME Held, UNCHANGED <<ctx, heap, lost>>, Reached \subseteq Reached',
           \A k \in Named' : ctx[k] \notin lost
    PROVE  Held'
BY DEF Held

\* Compiling into the next code object leaves the later ones unused.
LEMMA CompileLater ==
    ASSUME Numbers, Numbered, Compile(NewCode)
    PROVE  /\ made' = made + 1 /\ made \in Nat /\ NewCode = made + 1
           /\ \A k \in Codes : k > made' => ctx'[k] = Unset
BY DEF Numbers, Numbered, Compile, NewCode, Codes

\* Pointers stay below the number of contexts.
LEMMA LaterNumbers ==
    ASSUME Numbers, made \in Nat, made' = made + 1
    PROVE  /\ code \in [Blocks -> [Slots -> 0 .. made']]
           /\ set_code_list \in [Blocks -> SUBSET (1 .. made')]
           /\ config_code \in [Blocks -> 0 .. made']
           /\ ssl_code \in [Blocks -> 0 .. made']
           /\ main_code \in [MainSlots -> 0 .. made']
<1>1. 0 .. made \subseteq 0 .. made' /\ 1 .. made \subseteq 1 .. made'
  OBVIOUS
<1>2. code \in [Blocks -> [Slots -> 0 .. made']]
  <2>1. \A b \in Blocks : code[b] \in [Slots -> 0 .. made']
    BY <1>1 DEF Numbers
  <2> QED
    BY <2>1 DEF Numbers
<1>3. set_code_list \in [Blocks -> SUBSET (1 .. made')]
  <2>1. \A b \in Blocks : set_code_list[b] \in SUBSET (1 .. made')
    BY <1>1 DEF Numbers
  <2> QED
    BY <2>1 DEF Numbers
<1> QED
  BY <1>1, <1>2, <1>3 DEF Numbers

\* The cleanup handlers of a state that is to be served are all to run.
LEMMA PendingKept ==
    ASSUME Pending, UNCHANGED <<mrb, cleanups, state, ssl_code>>,
           stage' \in {"parsing", "configured", "serving"} =>
             stage \in {"parsing", "configured", "serving"},
           stage' # "destroyed"
    PROVE  Pending'
BY DEF Pending, Created

\* A phase handler or an output filter.
LEMMA DirectiveLeak ==
    ASSUME LeakInv, ConfInv, NEW b \in Blocks, NEW s \in Slots, NEW flag, NEW res,
           Directive(b, s, flag, res)
    PROVE  LeakInv'
<1>1. Numbers /\ Owners /\ Pending /\ Held /\ Numbered
  BY DEF LeakInv, ConfInv, Directive
<1>2. /\ Compile(NewCode) /\ code' = [code EXCEPT ![b][s] = NewCode]
      /\ state' = state \cup {b} /\ b \in Created /\ code[b][s] = Unset
      /\ UNCHANGED <<mrb, cleanups, config_code, ssl_code, set_code_list, lost, main_code>>
      /\ stage = "parsing" /\ stage' \in {"parsing", "destroying"}
  BY DEF Directive, InitializeCode, RefusedUnless, server_confs, set_confs
<1>3. /\ made' = made + 1 /\ made \in Nat /\ NewCode = made + 1
      /\ \A k \in Codes : k > made' => ctx'[k] = Unset
  BY <1>1, <1>2, CompileLater
<1>4. code \in [Blocks -> [Slots -> 0 .. made']] /\ NewCode \in 0 .. made' /\ NewCode # Unset
  BY <1>1, <1>3, LaterNumbers DEF Unset
<1>5. \A c \in Blocks, t \in Slots :
         code'[c][t] = IF c = b /\ t = s THEN NewCode ELSE code[c][t]
  BY <1>2, <1>4
<1>6. Numbers'
  <2>1. code' \in [Blocks -> [Slots -> 0 .. made']]
    BY <1>2, <1>4
  <2> QED
    BY <1>1, <1>2, <1>3, <2>1, LaterNumbers DEF Numbers
<1>7. Owners'
  <2>1. ASSUME NEW c \in Blocks, NEW t \in Slots, code'[c][t] # Unset
        PROVE  \E o \in state' : code'[o][t] = code'[c][t]
    <3>1. CASE c = b /\ t = s
      BY <1>2, <3>1
    <3>2. CASE ~(c = b /\ t = s)
      <4>1. code'[c][t] = code[c][t]
        BY <1>5, <3>2
      <4>2. PICK o \in state : code[o][t] = code[c][t]
        BY <1>1, <2>1, <4>1 DEF Owners
      <4>3. o \in Blocks /\ ~(o = b /\ t = s)
        BY <1>1, <1>2, <2>1, <4>1, <4>2 DEF Owners
      <4> QED
        BY <1>2, <1>5, <4>1, <4>2, <4>3
    <3> QED
      BY <3>1, <3>2
  <2> QED
    BY <1>1, <1>2, <2>1 DEF Owners
<1>8. Created' = Created
  BY <1>2 DEF Created
<1>9. Pending'
  BY <1>1, <1>2, <1>8 DEF Pending
<1>10. Named' \subseteq Named \cup {NewCode}
  BY <1>2, <1>5 DEF Named
<1>11. Reached \subseteq Reached'
  <2>1. \A c \in Blocks : Pointers(c) \subseteq Pointers(c)'
    <3>1. \A c \in Blocks, t \in Slots : code[c][t] # Unset => code'[c][t] = code[c][t]
      BY <1>2, <1>5
    <3>2. Unset \notin Codes
      BY DEF Unset, Codes
    <3> QED
      BY <1>2, <3>1, <3>2 DEF Pointers
  <2> QED
    BY <1>2, <1>8, <2>1 DEF Reached
<1>12. NewCode \in Reached'
  <2>1. NewCode \in Codes
    BY <1>2, <1>3 DEF Compile, Codes
  <2>2. NewCode \in Pointers(b)'
    BY <1>2, <1>5, <2>1 DEF Pointers
  <2> QED
    BY <1>2, <1>8, <2>1, <2>2 DEF Reached
<1>13. Held'
  BY <1>1, <1>2, <1>10, <1>11, <1>12, CompileHeld
<1> QED
  BY <1>6, <1>7, <1>9, <1>13 DEF LeakInv

\* A step that leaves the codes of phase handlers and filters alone.
LEMMA OwnersKept ==
    ASSUME Owners, UNCHANGED <<code, state, set_code_list>>
    PROVE  Owners'
BY DEF Owners

\* mruby_set: the context of a script that does not compile is lost.
LEMMA SetLeak ==
    ASSUME LeakInv, ConfInv, NEW b \in Blocks, NEW flag, NEW res,
           SetDirective(b, flag, res)
    PROVE  LeakInv'
<1>1. Numbers /\ Owners /\ Pending /\ Held /\ Numbered
  BY DEF LeakInv, ConfInv, SetDirective
<1>2. /\ Compile(NewCode) /\ ListedWhenCompiled(b, res = "ok")
      /\ state' = state \cup {b} /\ b \in Created
      /\ UNCHANGED <<mrb, cleanups, code, config_code, ssl_code, main_code>>
      /\ stage = "parsing" /\ stage' \in {"parsing", "destroying"}
  BY DEF SetDirective, InitializeCode, RefusedUnless, server_confs
<1>3. /\ made' = made + 1 /\ made \in Nat /\ NewCode = made + 1
      /\ \A k \in Codes : k > made' => ctx'[k] = Unset
  BY <1>1, <1>2, CompileLater
<1>4. set_code_list \in [Blocks -> SUBSET (1 .. made')] /\ NewCode \in 1 .. made'
  BY <1>1, <1>3, LaterNumbers
<1>5. \A c \in Blocks : set_code_list'[c] =
         IF c = b /\ res = "ok" THEN set_code_list[c] \cup {NewCode} ELSE set_code_list[c]
  BY <1>2, <1>4 DEF ListedWhenCompiled
<1>6. Numbers'
  <2>1. set_code_list' \in [Blocks -> SUBSET (1 .. made')]
    <3>1. set_code_list[b] \cup {NewCode} \in SUBSET (1 .. made')
      BY <1>4
    <3> QED
      BY <1>2, <1>4, <3>1 DEF ListedWhenCompiled
  <2> QED
    BY <1>1, <1>2, <1>3, <2>1, LaterNumbers DEF Numbers
<1>7. Owners'
  <2>1. \A c \in Blocks : set_code_list'[c] # {} => c \in state'
    BY <1>1, <1>2, <1>5 DEF Owners
  <2> QED
    BY <1>1, <1>2, <2>1 DEF Owners
<1>8. Created' = Created
  BY <1>2 DEF Created
<1>9. Pending'
  BY <1>1, <1>2, <1>8 DEF Pending
<1>10. Reached \subseteq Reached'
  <2>1. \A c \in Blocks : set_code_list[c] \subseteq set_code_list'[c]
    BY <1>5
  <2>2. \A c \in Blocks : Pointers(c) \subseteq Pointers(c)'
    BY <1>2, <2>1 DEF Pointers
  <2> QED
    BY <1>2, <1>8, <2>2 DEF Reached
<1>11. CASE res = "ok"
  <2>1. Named' \subseteq Named \cup {NewCode}
    BY <1>2, <1>5 DEF Named
  <2>2. NewCode \in Codes
    BY <1>2, <1>3 DEF Compile, Codes
  <2>3. NewCode \in Pointers(b)'
    BY <1>2, <1>5, <1>11, <2>2 DEF Pointers
  <2>4. NewCode \in Reached'
    BY <1>2, <1>8, <2>2, <2>3 DEF Reached
  <2>5. lost' = lost
    BY <1>2, <1>11 DEF ListedWhenCompiled
  <2>6. Held'
    BY <1>1, <1>2, <1>10, <2>1, <2>4, <2>5, CompileHeld
  <2> QED
    BY <1>6, <1>7, <1>9, <2>6 DEF LeakInv
<1>12. CASE res # "ok"
  <2>1. Named' \subseteq Named
    BY <1>2, <1>5, <1>12 DEF Named
  <2>2. lost' = lost \cup {made'}
    BY <1>2, <1>12 DEF ListedWhenCompiled
  <2>3. Held'
    BY <1>1, <1>2, <1>10, <2>1, <2>2, LostHeld
  <2> QED
    BY <1>6, <1>7, <1>9, <2>3 DEF LeakInv
<1> QED
  BY <1>11, <1>12

\* The handshake handler and the context code of a server.
LEMMA ServerLeak ==
    ASSUME LeakInv, ConfInv, NEW b \in Blocks, NEW flag, NEW res,
           SslDirective(b, flag, res) \/ ServerConfig(b, res, flag)
    PROVE  LeakInv'
<1>1. Numbers /\ Owners /\ Pending /\ Held /\ Numbered
  BY DEF LeakInv, ConfInv, SslDirective, ServerConfig
<1>2. /\ UNCHANGED <<mrb, cleanups, state, code, set_code_list, lost, main_code>>
      /\ b \in Created
      /\ stage = "parsing" /\ stage' \in {"parsing", "destroying"}
      /\ \/ Compile(NewCode)
         \/ made < MaxContexts /\ made' = made + 1 /\ UNCHANGED <<ctx, heap>>
  BY DEF SslDirective, ServerConfig, InitializeCode, RefusedUnless, loc_confs, set_confs
<1>3. \/ /\ ssl_code[b] = Unset /\ ssl_code' = [ssl_code EXCEPT ![b] = NewCode]
         /\ config_code' = config_code
      \/ /\ config_code[b] = Unset /\ config_code' = [config_code EXCEPT ![b] = NewCode]
         /\ ssl_code' = ssl_code
  BY DEF SslDirective, ServerConfig
<1>4. /\ made' = made + 1 /\ made \in Nat /\ NewCode = made + 1 /\ NewCode \in Codes
      /\ \A k \in Codes : k > made' => ctx'[k] = Unset
  <2>1. CASE Compile(NewCode)
    BY <1>1, <2>1, CompileLater DEF Compile, Codes
  <2>2. CASE made < MaxContexts /\ made' = made + 1 /\ UNCHANGED <<ctx, heap>>
    BY <1>1, <2>2 DEF Numbers, Numbered, NewCode, Codes
  <2> QED
    BY <1>2, <2>1, <2>2
<1>5. /\ ssl_code \in [Blocks -> 0 .. made'] /\ config_code \in [Blocks -> 0 .. made']
      /\ NewCode \in 0 .. made' /\ NewCode # Unset
  BY <1>1, <1>4, LaterNumbers DEF Unset
<1>6. Numbers'
  <2>1. ssl_code' \in [Blocks -> 0 .. made'] /\ config_code' \in [Blocks -> 0 .. made']
    BY <1>3, <1>5
  <2> QED
    BY <1>1, <1>2, <1>4, <2>1, LaterNumbers DEF Numbers
<1>7. Owners'
  BY <1>1, <1>2, OwnersKept
<1>8. Created' = Created
  BY <1>2 DEF Created
<1>9. Pending'
  <2>1. \A c \in Blocks : ssl_code'[c] # Unset => c = b \/ ssl_code[c] # Unset
    BY <1>3, <1>5
  <2> QED
    BY <1>1, <1>2, <1>8, <2>1 DEF Pending
<1>10. /\ \A c \in Blocks : ssl_code'[c] \in {ssl_code[c], NewCode}
                            /\ config_code'[c] \in {config_code[c], NewCode}
       /\ \A c \in Blocks : (ssl_code[c] # Unset => ssl_code'[c] = ssl_code[c])
                            /\ (config_code[c] # Unset => config_code'[c] = config_code[c])
       /\ NewCode \in {ssl_code'[b], config_code'[b]}
  BY <1>3, <1>5
<1>11. Named' \subseteq Named \cup {NewCode}
  BY <1>2, <1>10 DEF Named
<1>12. Reached \subseteq Reached'
  <2>1. Unset \notin Codes
    BY DEF Unset, Codes
  <2>2. \A c \in Blocks : Pointers(c) \subseteq Pointers(c)'
    BY <1>2, <1>10, <2>1 DEF Pointers
  <2> QED
    BY <1>2, <1>8, <2>2 DEF Reached
<1>13. NewCode \in Reached'
  <2>1. NewCode \in Pointers(b)'
    BY <1>4, <1>10 DEF Pointers
  <2> QED
    BY <1>2, <1>4, <1>8, <2>1 DEF Reached
<1>14. Held'
  <2>1. CASE Compile(NewCode)
    BY <1>1, <1>2, <1>11, <1>12, <1>13, <2>1, CompileHeld
  <2>2. CASE UNCHANGED <<ctx, heap>>
    <3>1. ctx[NewCode] = Unset /\ Unset \notin lost
      BY <1>1, <1>4 DEF Numbers, Held, Numbered, Unset
    <3>2. \A k \in Named' : ctx[k] \notin lost
      BY <1>1, <1>11, <3>1 DEF Held
    <3> QED
      BY <1>1, <1>2, <1>12, <2>2, <3>2, QuietHeld
  <2> QED
    BY <1>2, <2>1, <2>2
<1> QED
  BY <1>6, <1>7, <1>9, <1>14 DEF LeakInv

\* The scripts of the main configuration.
LEMMA MainLeak ==
    ASSUME LeakInv, ConfInv, NEW m \in MainSlots, NEW res, MainDirective(m, res)
    PROVE  LeakInv'
<1>1. Numbers /\ Owners /\ Pending /\ Held /\ Numbered /\ mrb = "open"
  BY OpenWhileUsed DEF LeakInv, ConfInv, MainDirective
<1>2. /\ Compile(NewCode) /\ main_code' = [main_code EXCEPT ![m] = NewCode]
      /\ main_code[m] = Unset
      /\ UNCHANGED <<mrb, cleanups, state, code, config_code, ssl_code, set_code_list, lost>>
      /\ stage = "parsing" /\ stage' \in {"parsing", "destroying"}
  BY DEF MainDirective, InitializeCode, RefusedUnless, server_confs, loc_confs, set_confs
<1>3. /\ made' = made + 1 /\ made \in Nat /\ NewCode = made + 1
      /\ \A k \in Codes : k > made' => ctx'[k] = Unset
  BY <1>1, <1>2, CompileLater
<1>4. main_code \in [MainSlots -> 0 .. made'] /\ NewCode \in 0 .. made' /\ NewCode \in Codes
  BY <1>1, <1>2, <1>3, LaterNumbers DEF Codes, Compile
<1>5. Numbers'
  <2>1. main_code' \in [MainSlots -> 0 .. made']
    BY <1>2, <1>4
  <2> QED
    BY <1>1, <1>2, <1>3, <2>1, LaterNumbers DEF Numbers
<1>6. Owners' /\ Pending' /\ Created' = Created /\ Main \in Created
  BY <1>1, <1>2, OwnersKept, PendingKept DEF Created, Pending
<1>7. main_code'[m] = NewCode /\ \A n \in MainSlots : n # m => main_code'[n] = main_code[n]
  BY <1>2, <1>4
<1>8. Named' \subseteq Named \cup {NewCode}
  BY <1>2, <1>7 DEF Named
<1>9. Reached \cup {NewCode} \subseteq Reached'
  <2>1. Unset \notin Codes
    BY DEF Unset, Codes
  <2>2. \A c \in Blocks : Pointers(c)' = Pointers(c)
    BY <1>2 DEF Pointers
  <2> QED
    BY <1>2, <1>4, <1>6, <1>7, <2>1, <2>2 DEF Reached
<1>10. Held'
  BY <1>1, <1>2, <1>8, <1>9, CompileHeld
<1> QED
  BY <1>5, <1>6, <1>10 DEF LeakInv

\* Steps that leave contexts and pointers alone, and remove no cleanup handler.
LEMMA QuietLeak ==
    ASSUME LeakInv, UNCHANGED <<side, mrb, contexts, confs>>,
           Created \subseteq Created',
           stage' \in {"parsing", "configured", "serving"} =>
             stage \in {"parsing", "configured", "serving"},
           stage' = "destroyed" => cleanups' = <<>>
    PROVE  LeakInv'
<1> SUFFICES ASSUME side = "http"
             PROVE  Numbers' /\ Owners' /\ Pending' /\ Held'
  BY DEF LeakInv
<1>1. Numbers /\ Owners /\ Pending /\ Held
  BY DEF LeakInv
<1>2. UNCHANGED <<state, code, set_code_list, lost, config_code, ssl_code, main_code,
                  ctx, made, heap>>
  BY DEF contexts, confs, loc_confs, set_confs, server_confs
<1>3. Numbers' /\ Owners' /\ Named' = Named
  BY <1>1, <1>2 DEF Numbers, Owners, Named
<1>4. Pending'
  BY <1>1, <1>2 DEF Pending
<1>5. \A c \in Blocks : Pointers(c)' = Pointers(c)
  BY <1>2 DEF Pointers
<1>6. Reached \subseteq Reached'
  BY <1>2, <1>5 DEF Reached
<1>7. Held'
  BY <1>1, <1>2, <1>3, <1>6, QuietHeld DEF Held
<1> QED
  BY <1>3, <1>4, <1>7

\* Freeing keeps the numbering.
LEMMA FreeNumbers ==
    ASSUME Numbers, NEW ks \in SUBSET Codes, Free(ks),
           code' \in [Blocks -> [Slots -> 0 .. made]],
           UNCHANGED <<set_code_list, config_code, ssl_code, main_code>>
    PROVE  Numbers'
BY DEF Numbers, Free

\* A main script runs and its context is freed: other pointers keep theirs.
LEMMA RunMainHeld ==
    ASSUME Numbers, Held, Numbered, side = "http", NEW m \in MainSlots, RunMain(m),
           lost' = lost, Named' \subseteq Named, Reached \subseteq Reached',
           code' \in [Blocks -> [Slots -> 0 .. made]],
           UNCHANGED <<set_code_list, config_code, ssl_code, main_code>>
    PROVE  Numbers' /\ Held'
<1>1. CASE main_code[m] \in Codes
  <2>1. Free({main_code[m]}) /\ {main_code[m]} \in SUBSET Codes
    BY <1>1 DEF RunMain
  <2>2. {main_code[m]} \subseteq Named
    BY <1>1 DEF Named
  <2> QED
    BY <2>1, <2>2, FreeHeld, FreeNumbers
<1>2. CASE main_code[m] \notin Codes
  <2>1. UNCHANGED <<ctx, made, heap>>
    BY <1>2 DEF RunMain, contexts
  <2>2. Numbers'
    BY <2>1 DEF Numbers
  <2>3. \A k \in Named' : ctx[k] \notin lost
    BY DEF Held
  <2> QED
    BY <2>1, <2>2, <2>3, QuietHeld
<1> QED
  BY <1>1, <1>2

\* Merging all blocks, or some of them, before the rest is given up: the
\* blocks with code of their own keep it and so remain its owners.
LEMMA MergeOwners ==
    ASSUME Numbers, Owners, NEW done \in SUBSET Blocks,
           code' = [b \in Blocks |-> IF b \in done THEN Merged[b] ELSE code[b]],
           UNCHANGED <<state, set_code_list, config_code, ssl_code, main_code, cleanups>>
    PROVE  /\ code' \in [Blocks -> [Slots -> 0 .. made]]
           /\ Owners'
           /\ Named' \subseteq Named
           /\ Reached \subseteq Reached'
<1>1. \A b \in Blocks, s \in Slots :
        /\ code[b][s] # Unset => code'[b][s] = code[b][s]
        /\ \E c \in Blocks : code'[b][s] = code[c][s]
  <2> SUFFICES ASSUME NEW b \in Blocks, NEW s \in Slots
               PROVE  /\ code[b][s] # Unset => code'[b][s] = code[b][s]
                      /\ \E c \in Blocks : code'[b][s] = code[c][s]
    OBVIOUS
  <2>1. code'[b][s] = IF b \in done THEN Merged[b][s] ELSE code[b][s]
    OBVIOUS
  <2> QED
    BY <2>1, MergedFrom
<1>2. code' \in [Blocks -> [Slots -> 0 .. made]]
  <2>1. \A b \in Blocks, s \in Slots : code'[b][s] \in 0 .. made
    BY <1>1 DEF Numbers
  <2>2. \A b \in Blocks : Merged[b] = [s \in Slots |-> Inherited(b, s, Merged)]
    BY MergedIs
  <2>3. \A b \in Blocks : DOMAIN Merged[b] = Slots
        /\ Merged[b] = [s \in Slots |-> Merged[b][s]]
    BY <2>2
  <2>4. ASSUME NEW b \in Blocks PROVE code'[b] \in [Slots -> 0 .. made]
    <3>1. CASE b \in done
      BY <2>1, <2>3, <3>1
    <3>2. CASE b \notin done
      BY <3>2 DEF Numbers
    <3> QED
      BY <3>1, <3>2
  <2> QED
    BY <2>4
<1>3. Owners'
  <2>1. ASSUME NEW b \in Blocks, NEW s \in Slots, code'[b][s] # Unset
        PROVE  \E o \in state' : code'[o][s] = code'[b][s]
    <3>1. PICK c \in Blocks : code'[b][s] = code[c][s]
      BY <1>1
    <3>2. PICK o \in state : code[o][s] = code[c][s]
      BY <2>1, <3>1 DEF Owners
    <3>3. o \in Blocks /\ code[o][s] # Unset
      BY <2>1, <3>1, <3>2 DEF Owners
    <3> QED
      BY <1>1, <3>1, <3>2, <3>3
  <2> QED
    BY <2>1 DEF Owners
<1>4. Named' \subseteq Named
  <2>1. ASSUME NEW k \in Named' PROVE k \in Named
    <3>1. CASE \E b \in Blocks : \E s \in Slots : code'[b][s] = k
      BY <1>1, <3>1 DEF Named
    <3>2. CASE ~ \E b \in Blocks : \E s \in Slots : code'[b][s] = k
      BY <3>2 DEF Named
    <3> QED
      BY <3>1, <3>2
  <2> QED
    BY <2>1
<1>5. Reached \subseteq Reached'
  <2>1. Unset \notin Codes
    BY DEF Unset, Codes
  <2>2. \A c \in Blocks : Pointers(c) \subseteq Pointers(c)'
    BY <1>1, <2>1 DEF Pointers
  <2>3. Created' = Created
    BY DEF Created
  <2> QED
    BY <2>2, <2>3 DEF Reached
<1> QED
  BY <1>2, <1>3, <1>4, <1>5

\* The end of the configuration.
LEMMA MergeLeak ==
    ASSUME LeakInv, ConfInv,
           \/ \E ok \in BOOLEAN : Configured(ok)
           \/ \E done \in SUBSET Blocks : SslNotConfigured(done)
    PROVE  LeakInv'
<1>1. Numbers /\ Owners /\ Pending /\ Held /\ Numbered
  BY DEF LeakInv, ConfInv, Configured, SslNotConfigured
<1>2. /\ UNCHANGED <<mrb, cleanups, state, set_code_list, lost, config_code, ssl_code, main_code>>
      /\ side = "http" /\ stage = "parsing"
      /\ stage' \in {"configured", "destroying"}
      /\ RunMain("init") \/ UNCHANGED contexts
  BY DEF Configured, SslNotConfigured, server_confs, set_confs
<1>3. PICK done \in SUBSET Blocks :
         code' = [b \in Blocks |-> IF b \in done THEN Merged[b] ELSE code[b]]
  <2>1. CASE \E ok \in BOOLEAN : Configured(ok)
    <3>1. code' = Merged
      BY <2>1 DEF Configured
    <3>2. Merged = [b \in Blocks |-> IF b \in Blocks THEN Merged[b] ELSE code[b]]
      <4> DEFINE F(b) == [s \in Slots |-> Inherited(b, s, Merged)]
      <4>1. Merged = [b \in Blocks |-> F(b)]
        BY MergedIs
      <4> HIDE DEF F
      <4> QED
        BY <4>1
    <3> QED
      BY <3>1, <3>2
  <2>2. CASE \E done \in SUBSET Blocks : SslNotConfigured(done)
    BY <2>2 DEF SslNotConfigured
  <2> QED
    BY <2>1, <2>2
<1>4. /\ code' \in [Blocks -> [Slots -> 0 .. made]]
      /\ Owners' /\ Named' \subseteq Named /\ Reached \subseteq Reached'
  BY <1>1, <1>2, <1>3, MergeOwners
<1>5. Pending'
  BY <1>1, <1>2, PendingKept
<1>6. Numbers' /\ Held'
  <2>1. CASE RunMain("init")
    BY <1>1, <1>2, <1>4, <2>1, RunMainHeld DEF MainSlots
  <2>2. CASE UNCHANGED contexts
    <3>1. UNCHANGED <<ctx, made, heap>>
      BY <2>2 DEF contexts
    <3>2. Numbers'
      BY <1>1, <1>2, <1>4, <3>1 DEF Numbers
    <3>3. \A k \in Named' : ctx[k] \notin lost
      BY <1>1, <1>4 DEF Held
    <3> QED
      BY <1>1, <1>2, <1>4, <3>1, <3>2, <3>3, QuietHeld
  <2> QED
    BY <1>2, <2>1, <2>2
<1> QED
  BY <1>4, <1>5, <1>6 DEF LeakInv

\* The start of a worker and its end.
LEMMA WorkerLeak ==
    ASSUME LeakInv, ConfInv, side = "http", Shutdown \/ \E ok \in BOOLEAN : StartWorker(ok)
    PROVE  LeakInv'
<1>1. Numbers /\ Owners /\ Pending /\ Held /\ Numbered
  BY DEF LeakInv, ConfInv
<1>2. /\ UNCHANGED <<mrb, cleanups, state, code, set_code_list, lost, config_code, ssl_code,
                     main_code>>
      /\ stage \in {"configured", "serving"} /\ stage' # "destroyed"
  BY DEF Shutdown, StartWorker, confs, loc_confs, set_confs, server_confs
<1>3. PICK m \in MainSlots : RunMain(m)
  BY DEF Shutdown, StartWorker, MainSlots
<1>4. Owners' /\ Pending'
  BY <1>1, <1>2, OwnersKept, PendingKept
<1>5. Named' \subseteq Named /\ Reached \subseteq Reached'
  <2>1. \A c \in Blocks : Pointers(c)' = Pointers(c)
    BY <1>2 DEF Pointers
  <2>2. Created' = Created
    BY <1>2 DEF Created
  <2> QED
    BY <1>2, <2>1, <2>2 DEF Named, Reached
<1>6. Numbers' /\ Held'
  BY <1>1, <1>2, <1>3, <1>5, RunMainHeld DEF Numbers
<1> QED
  BY <1>4, <1>6 DEF LeakInv

\* Requests and handshakes recompile code that some block owns, or free it.
LEMMA ServeLeak ==
    ASSUME LeakInv, ConfInv, NEW b \in Blocks, NEW over \in BOOLEAN,
           Recompile(b, over) \/ Handshake(b, over)
    PROVE  LeakInv'
<1>1. Numbers /\ Owners /\ Pending /\ Held /\ Numbered /\ ContextsOwned
  BY DEF LeakInv, ConfInv, Recompile, Handshake
<1>2. /\ UNCHANGED <<mrb, cleanups, state, code, set_code_list, lost, config_code, ssl_code,
                     main_code>>
      /\ stage = "serving" /\ stage' = "serving"
  BY DEF Recompile, Handshake, confs, loc_confs, set_confs, server_confs
<1>3. Owners' /\ Pending'
  BY <1>1, <1>2, OwnersKept, PendingKept
<1>4. Named' = Named /\ Reached' = Reached
  <2>1. \A c \in Blocks : Pointers(c)' = Pointers(c)
    BY <1>2 DEF Pointers
  <2>2. Created' = Created
    BY <1>2 DEF Created
  <2> QED
    BY <1>2, <2>1, <2>2 DEF Named, Reached
<1>5. state \subseteq Created \cap Blocks
  BY <1>1, <1>2 DEF Pending, Owners
<1>6. PICK k \in Reached : Recompiled(k, over) \/ Free({k})
  <2>1. CASE Recompile(b, over)
    <3>1. PICK k \in Codes : /\ k \in {code[b][s] : s \in Slots} \cup set_code_list[b]
                             /\ Recompiled(k, over)
      BY <2>1 DEF Recompile
    <3>2. CASE k \in set_code_list[b]
      <4>1. b \in state /\ k \in Pointers(b)
        BY <1>1, <3>2 DEF Owners, Pointers
      <4> QED
        BY <1>5, <3>1, <4>1 DEF Reached
    <3>3. CASE k \in {code[b][s] : s \in Slots}
      <4>1. PICK s \in Slots : code[b][s] = k /\ k # Unset
        BY <3>3 DEF Codes, Unset
      <4>2. PICK o \in state : code[o][s] = k
        BY <1>1, <4>1 DEF Owners
      <4>3. k \in Pointers(o)
        BY <4>2 DEF Pointers
      <4> QED
        BY <1>5, <3>1, <4>2, <4>3 DEF Reached
    <3> QED
      BY <3>1, <3>2, <3>3
  <2>2. CASE Handshake(b, over)
    <3>1. ssl_code[b] \in Codes /\ (Recompiled(ssl_code[b], over) \/ Free({ssl_code[b]}))
      BY <2>2 DEF Handshake
    <3>2. b \in Created /\ ssl_code[b] \in Pointers(b)
      BY <1>1, <1>2, <3>1 DEF Pending, Pointers, Codes, Unset
    <3>3. ssl_code[b] \in Reached
      BY <3>1, <3>2 DEF Reached
    <3> QED
      BY <3>1, <3>3
  <2> QED
    BY <2>1, <2>2
<1>7. CASE Recompiled(k, over)
  <2>1. Held'
    BY <1>1, <1>2, <1>4, <1>6, <1>7, RecompiledHeld
  <2>2. /\ made' = made + 1 /\ made \in Nat /\ k \in Codes /\ k \in Nat
        /\ \A l \in Codes : l # k => ctx'[l] = ctx[l]
    BY <1>1, <1>7 DEF Recompiled, Numbered, Reached, Codes
  <2>3. \A l \in Codes : l > made' => ctx'[l] = Unset
    <3>1. k \in Named
      BY ReachedNamed
    <3>2. k \in 0 .. made
      BY <1>1, <3>1 DEF Named, Numbers, Slots, MainSlots
    <3>3. ASSUME NEW l \in Codes, l > made' PROVE ctx'[l] = Unset
      <4>1. l \in Nat /\ l # k /\ l > made
        BY <2>2, <3>2, <3>3 DEF Codes
      <4> QED
        BY <1>1, <2>2, <4>1 DEF Numbers
    <3> QED
      BY <3>3
  <2>4. Numbers'
    BY <1>1, <1>2, <2>2, <2>3, LaterNumbers DEF Numbers
  <2> QED
    BY <1>3, <2>1, <2>4 DEF LeakInv
<1>8. CASE Free({k})
  <2>1. {k} \in SUBSET Codes /\ {k} \subseteq Named
    BY ReachedNamed DEF Reached
  <2>2. Held'
    BY <1>1, <1>2, <1>4, <1>8, <2>1, FreeHeld
  <2>3. Numbers'
    BY <1>1, <1>2, <1>8, <2>1, FreeNumbers DEF Numbers
  <2> QED
    BY <1>3, <2>2, <2>3 DEF LeakInv
<1> QED
  BY <1>6, <1>7, <1>8

\* A cleanup handler that has run frees what only it was to free.
LEMMA CleanupLeak ==
    ASSUME LeakInv, ConfInv, side = "http",
           CleanupMain \/ \E b \in Blocks : CleanupConf(b)
    PROVE  LeakInv'
<1>1. Numbers /\ Owners /\ Pending /\ Held /\ Numbered
  BY DEF LeakInv, ConfInv
<1>2. /\ UNCHANGED <<state, code, set_code_list, lost, config_code, ssl_code, main_code>>
      /\ stage = "destroying" /\ stage' = "destroying"
      /\ cleanups # <<>> /\ cleanups' = Tail(cleanups)
  BY DEF CleanupMain, CleanupConf, confs, loc_confs, set_confs, server_confs
<1>3. Created \ {Head(cleanups)} \subseteq Created'
  <2>1. cleanups \in Seq(Blocks \cup {Main}) /\ Len(cleanups) \in Nat /\ Len(cleanups) > 0
    BY <1>2 DEF ConfInv, MainLast
  <2>2. /\ Head(cleanups) = cleanups[1] /\ DOMAIN cleanups = 1 .. Len(cleanups)
        /\ DOMAIN cleanups' = 1 .. Len(cleanups) - 1
        /\ \A i \in 1 .. Len(cleanups) - 1 : cleanups'[i] = cleanups[i + 1]
    BY <1>2, <2>1
  <2>3. ASSUME NEW i \in 1 .. Len(cleanups), cleanups[i] # cleanups[1]
        PROVE  \E j \in DOMAIN cleanups' : cleanups'[j] = cleanups[i]
    <3>1. i # 1
      BY <2>3
    <3>2. i - 1 \in 1 .. Len(cleanups) - 1 /\ (i - 1) + 1 = i
      BY <2>1, <3>1
    <3>3. cleanups'[i - 1] = cleanups[i]
      BY <2>2, <3>2
    <3> QED
      BY <2>2, <3>2, <3>3
  <2> QED
    BY <2>2, <2>3 DEF Created
<1>4. Owners' /\ Named' = Named
  BY <1>1, <1>2, OwnersKept DEF Named
<1>5. \A c \in Blocks : Pointers(c)' = Pointers(c)
  BY <1>2 DEF Pointers
<1>6. PICK ks \in SUBSET Codes :
         /\ Free(ks) /\ ks \subseteq Named /\ Reached \subseteq Reached' \cup ks
         /\ Main \in Created' \/ mrb' = "closed"
  <2>1. CASE CleanupMain
    <3> DEFINE ks == {main_code[m] : m \in MainSlots} \cap Codes
    <3>1. Free(ks) /\ Head(cleanups) = Main /\ mrb' = "closed"
      BY <2>1 DEF CleanupMain
    <3>2. ks \subseteq Named
      BY DEF Named
    <3>3. Reached \subseteq Reached' \cup ks
      BY <1>2, <1>3, <1>5, <3>1 DEF Reached
    <3> QED
      BY <3>1, <3>2, <3>3
  <2>2. ASSUME NEW b \in Blocks, CleanupConf(b)
        PROVE  \E ks \in SUBSET Codes :
                 /\ Free(ks) /\ ks \subseteq Named /\ Reached \subseteq Reached' \cup ks
                 /\ Main \in Created' \/ mrb' = "closed"
    <3>1. Free(Pointers(b)) /\ Head(cleanups) = b /\ mrb' = mrb
      BY <2>2 DEF CleanupConf
    <3>2. Pointers(b) \in SUBSET Codes /\ Pointers(b) \subseteq Named
      BY DEF Pointers, Named
    <3>3. Main \in Created' \/ mrb' = "closed"
      BY <1>1, <1>3, <3>1 DEF Pending
    <3>4. Reached \subseteq Reached' \cup Pointers(b)
      <4>1. ASSUME NEW k \in Reached, k \notin Pointers(b)
            PROVE  k \in Reached'
        <5>1. CASE Main \in Created /\ \E m \in MainSlots : main_code[m] = k
          BY <1>2, <1>3, <3>1, <5>1 DEF Reached
        <5>2. CASE \E c \in Blocks \cap Created : k \in Pointers(c)
          BY <1>3, <1>5, <3>1, <4>1, <5>2 DEF Reached
        <5> QED
          BY <5>1, <5>2 DEF Reached
      <4> QED
        BY <4>1
    <3> QED
      BY <3>1, <3>2, <3>3, <3>4
  <2> QED
    BY <2>1, <2>2
<1>7. Pending'
  BY <1>2, <1>6 DEF Pending
<1>8. Held'
  BY <1>1, <1>2, <1>4, <1>6, FreeHeld
<1>9. Numbers'
  BY <1>1, <1>2, <1>6, FreeNumbers DEF Numbers
<1> QED
  BY <1>4, <1>7, <1>8, <1>9 DEF LeakInv

\* A new block adds its cleanup handler.
LEMMA CreateLeak ==
    ASSUME LeakInv, ConfInv, NEW b \in Blocks, CreateConf(b)
    PROVE  LeakInv'
<1>1. cleanups \in Seq(Blocks \cup {Main}) /\ cleanups' = <<b>> \o cleanups
  BY DEF ConfInv, MainLast, CreateConf, AddedFirst
<1>2. /\ DOMAIN cleanups = 1 .. Len(cleanups) /\ Len(cleanups) \in Nat
      /\ DOMAIN cleanups' = 1 .. Len(cleanups) + 1
      /\ \A i \in 1 .. Len(cleanups) : cleanups'[i + 1] = cleanups[i]
  BY <1>1
<1>3. Created \subseteq Created'
  <2>1. ASSUME NEW i \in DOMAIN cleanups
        PROVE  \E j \in DOMAIN cleanups' : cleanups'[j] = cleanups[i]
    <3>1. i + 1 \in DOMAIN cleanups' /\ cleanups'[i + 1] = cleanups[i]
      BY <1>2
    <3> QED
      BY <3>1
  <2> QED
    BY <2>1 DEF Created
<1>4. UNCHANGED <<side, mrb, contexts, confs, stage>> /\ stage = "parsing"
  BY DEF CreateConf
<1> QED
  BY <1>3, <1>4, QuietLeak

\* On the http side, when the pool is gone no compiler context is left, but
\* for those of mruby_set directives that did not compile, and the
\* interpreter is closed: in any tree of blocks, whichever inherit from
\* others, and wherever the configuration is given up.
THEOREM NoneLeaks == Spec => []NothingLeaks
<1>1. Init => LeakInv
  <2> SUFFICES ASSUME Init PROVE LeakInv
    OBVIOUS
  <2>1. Numbers /\ Owners /\ Held
    BY DEF Init, EmptyConf, Numbers, Owners, Held, Named, Unset
  <2>2. Main \in Created
    BY DEF Init, Created
  <2> QED
    BY <2>1, <2>2 DEF Init, LeakInv, Pending
<1>2. LeakInv /\ ConfInv /\ [Next]_vars => LeakInv'
  <2> SUFFICES ASSUME LeakInv, ConfInv, [Next]_vars PROVE LeakInv'
    OBVIOUS
  <2>1. CASE UNCHANGED vars
    <3>1. UNCHANGED <<side, mrb, contexts, confs, stage, cleanups>>
      BY <2>1 DEF vars
    <3>2. stage = "destroyed" /\ side = "http" => cleanups = <<>>
      BY DEF LeakInv, Pending
    <3>3. CASE side = "http"
      BY <3>1, <3>2, <3>3, QuietLeak DEF Created
    <3> QED
      BY <3>1, <3>3 DEF LeakInv
  <2>2. CASE HttpDirective
    <3>1. CASE Duplicate
      <4>1. UNCHANGED <<side, mrb, contexts, confs, cleanups>> /\ stage' = "destroying"
        BY <3>1 DEF Duplicate
      <4> QED
        BY <4>1, QuietLeak DEF Created
    <3> QED
      BY <2>2, <3>1, MainLeak, ServerLeak, SetLeak, DirectiveLeak DEF HttpDirective
  <2>3. CASE StreamDirectives \/ \E ok \in BOOLEAN : StreamConfigured(ok)
    <3>1. side = "stream" /\ side' = side
      <4>1. StreamDirectives => side = "stream" /\ side' = side
        BY DEF StreamDirectives, StreamMainDirective, StreamDirective, StreamServerContext
      <4> QED
        BY <2>3, <4>1 DEF StreamConfigured
    <3> QED
      BY <3>1 DEF LeakInv
  <2>4. CASE \/ \E ok \in BOOLEAN : Configured(ok)
             \/ \E done \in SUBSET Blocks : SslNotConfigured(done)
    BY <2>4, MergeLeak
  <2>5. CASE Shutdown \/ \E ok \in BOOLEAN : StartWorker(ok)
    <3>1. side' = side
      BY <2>5 DEF Shutdown, StartWorker
    <3> QED
      BY <2>5, <3>1, WorkerLeak DEF LeakInv
  <2>6. CASE CleanupMain \/ \E b \in Blocks : CleanupConf(b)
    <3>1. side' = side
      BY <2>6 DEF CleanupMain, CleanupConf
    <3> QED
      BY <2>6, <3>1, CleanupLeak DEF LeakInv
  <2>7. CASE Drop \/ Destroyed
    <3>1. /\ UNCHANGED <<side, mrb, contexts, confs, cleanups>>
          /\ stage' = "destroying" \/ (stage' = "destroyed" /\ cleanups = <<>>)
      BY <2>7 DEF Drop, Destroyed
    <3> QED
      BY <3>1, QuietLeak DEF Created
  <2> QED
    BY <2>1, <2>2, <2>3, <2>4, <2>5, <2>6, <2>7, CreateLeak, ServeLeak DEF Next
<1>3. LeakInv => NothingLeaks
  <2> SUFFICES ASSUME LeakInv, side = "http", stage = "destroyed"
               PROVE  heap = lost /\ mrb = "closed"
    BY DEF NothingLeaks
  <2>1. cleanups = <<>> /\ Held /\ Pending
    BY DEF LeakInv, Pending
  <2>2. Created = {}
    BY <2>1 DEF Created
  <2>3. Reached = {}
    BY <2>2 DEF Reached
  <2> QED
    BY <2>1, <2>2, <2>3 DEF Held, Pending
<1> QED
  BY <1>1, <1>2, <1>3, ConfSafety, PTL DEF Spec
=============================================================================
