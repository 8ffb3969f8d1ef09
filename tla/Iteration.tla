------------------------------ MODULE Iteration ------------------------------
(***************************************************************************)
(* Induction over the natural numbers with the property given as a set,    *)
(* and what it says of iterated functions: the folds and the recursive     *)
(* functions of the models are what they are defined to be.                *)
(***************************************************************************)
EXTENDS Integers, SequencesExt, WellFoundedInduction, TLAPS

\* Every set of natural numbers has a least element.
LEMMA LeastElement ==
    ASSUME NEW T \in SUBSET Nat, T # {}
    PROVE  \E x \in T : \A y \in T : x <= y
<1>1. IsWellFoundedOn(OpToRel(<, Nat), Nat)
  BY NatLessThanWellFounded
<1>2. PICK x \in T : \A y \in T : ~(<<y, x>> \in OpToRel(<, Nat))
  BY <1>1, WFMin
<1>3. \A y \in T : ~(y < x)
  BY <1>2 DEF OpToRel
<1> QED
  BY <1>3

\* Induction: the set of numbers with a property is all of Nat.
LEMMA NatSet ==
    ASSUME NEW S \in SUBSET Nat, 0 \in S, \A n \in S : n + 1 \in S
    PROVE  S = Nat
<1>1. SUFFICES ASSUME Nat \ S # {} PROVE FALSE
  OBVIOUS
<1>2. PICK x \in Nat \ S : \A y \in Nat \ S : x <= y
  BY <1>1, LeastElement
<1>3. x - 1 \in S
  BY <1>2
<1> QED
  BY <1>2, <1>3

\* Induction up to a bound.
LEMMA UpTo ==
    ASSUME NEW k \in Nat, NEW S, 0 \in S,
           \A n \in 0 .. k - 1 : n \in S => n + 1 \in S
    PROVE  \A n \in 0 .. k : n \in S
<1> DEFINE Good == {n \in Nat : n <= k => n \in S}
<1>1. 0 \in Good /\ \A n \in Good : n + 1 \in Good
  OBVIOUS
<1>2. Good = Nat
  <2> HIDE DEF Good
  <2>1. Good \in SUBSET Nat
    BY DEF Good
  <2> QED
    BY <1>1, <2>1, NatSet
<1> QED
  BY <1>2

-----------------------------------------------------------------------------
\* A function that is to be f[0] = base, f[n] = step[<<f[n - 1], n>>], exists.
LEMMA Recursion ==
    ASSUME NEW S, NEW base \in S, NEW k \in Nat, NEW step \in [S \X (1 .. k) -> S]
    PROVE  \E f \in [0 .. k -> S] :
              f[0] = base /\ \A n \in 1 .. k : f[n] = step[<<f[n - 1], n>>]
<1> DEFINE Up(m, f) == f[0] = base /\ \A n \in 1 .. m : f[n] = step[<<f[n - 1], n>>]
           Good == {m \in 0 .. k : \E f \in [0 .. m -> S] : Up(m, f)}
<1>1. 0 \in Good
  <2> DEFINE f0 == [n \in 0 .. 0 |-> base]
  <2>1. f0 \in [0 .. 0 -> S] /\ Up(0, f0)
    OBVIOUS
  <2> HIDE DEF f0, Up
  <2>2. 0 \in 0 .. k
    OBVIOUS
  <2> QED
    BY <2>1, <2>2
<1>2. ASSUME NEW m \in 0 .. k - 1, m \in Good
      PROVE  m + 1 \in Good
  <2>1. PICK f \in [0 .. m -> S] : Up(m, f)
    BY <1>2
  <2> DEFINE g == [n \in 0 .. m + 1 |-> IF n = m + 1 THEN step[<<f[m], m + 1>>] ELSE f[n]]
  <2>2. g \in [0 .. m + 1 -> S]
    OBVIOUS
  <2>3. /\ g[m + 1] = step[<<f[m], m + 1>>]
        /\ \A n \in 0 .. m : g[n] = f[n]
    OBVIOUS
  <2> HIDE DEF g
  <2>4. g[0] = base
    BY <2>1, <2>3
  <2>5. ASSUME NEW n \in 1 .. m + 1
        PROVE  g[n] = step[<<g[n - 1], n>>]
    <3>1. CASE n = m + 1
      <4>1. n - 1 = m /\ g[m] = f[m]
        BY <2>3, <3>1
      <4> QED
        BY <2>3, <3>1, <4>1
    <3>2. CASE n \in 1 .. m
      <4>1. n - 1 \in 0 .. m /\ n \in 0 .. m
        BY <3>2
      <4>2. g[n - 1] = f[n - 1] /\ g[n] = f[n]
        BY <2>3, <4>1
      <4> QED
        BY <2>1, <3>2, <4>2
    <3> QED
      BY <3>1, <3>2
  <2>6. Up(m + 1, g)
    BY <2>4, <2>5
  <2> HIDE DEF Up
  <2> QED
    BY <2>2, <2>6
<1>3. k \in Good
  <2> HIDE DEF Good
  <2> QED
    BY <1>1, <1>2, UpTo
<1> QED
  BY <1>3

\* The largest element of a set of numbers up to m that has m.
LEMMA MaxIs ==
    ASSUME NEW m \in Nat, NEW s \in SUBSET (1 .. m), m \in s
    PROVE  Max(s) = m
<1>1. m \in s /\ \A y \in s : m >= y
  OBVIOUS
<1>2. \A x \in s : (\A y \in s : x >= y) => x = m
  OBVIOUS
<1> QED
  BY <1>1, <1>2 DEF Max

\* The prefixes of the domain of a sequence, as a fold takes them apart.
LEMMA PrefixSteps ==
    ASSUME NEW k \in Nat, NEW n \in 1 .. k
    PROVE  /\ 1 .. n \in SUBSET (1 .. k) /\ 1 .. n # {}
           /\ Max(1 .. n) = n /\ (1 .. n) \ {n} = 1 .. n - 1
<1>1. Max(1 .. n) = n
  BY MaxIs
<1> QED
  BY <1>1

\* A finite set of numbers has its largest element.
LEMMA MaxIn ==
    ASSUME NEW k \in Nat, NEW s \in SUBSET (1 .. k), s # {}
    PROVE  Max(s) \in s
<1> DEFINE T == {n \in Nat : \E x \in s : n = k - x}
<1>1. T \in SUBSET Nat /\ T # {}
  <2>1. PICK x \in s : TRUE
    OBVIOUS
  <2>2. k - x \in T
    OBVIOUS
  <2> QED
    BY <2>2
<1>2. PICK t \in T : \A u \in T : t <= u
  BY <1>1, LeastElement
<1>3. PICK x \in s : t = k - x
  OBVIOUS
<1>4. \A y \in s : k - y \in T
  OBVIOUS
<1>5. \A y \in s : x >= y
  BY <1>2, <1>3, <1>4
<1> QED
  BY <1>5 DEF Max

\* The function FoldLeft defines over the subsets of the domain of a sequence,
\* taking the largest index off.
IsFold(it, S, base, step, k) ==
    /\ it \in [SUBSET (1 .. k) -> S]
    /\ \A s \in SUBSET (1 .. k) :
          it[s] = IF s = {} THEN base ELSE step[<<it[s \ {Max(s)}], Max(s)>>]

\* It exists as well.
LEMMA SubsetRecursion ==
    ASSUME NEW S, NEW base \in S, NEW k \in Nat, NEW step \in [S \X (1 .. k) -> S]
    PROVE  \E it : IsFold(it, S, base, step, k)
<1> DEFINE Up(m, f) == \A s \in SUBSET (1 .. m) :
                 f[s] = IF s = {} THEN base ELSE step[<<f[s \ {Max(s)}], Max(s)>>]
           Good == {m \in 0 .. k : \E f \in [SUBSET (1 .. m) -> S] : Up(m, f)}
<1>1. 0 \in Good
  <2>0. 1 .. 0 = {}
    OBVIOUS
  <2> DEFINE f0 == [s \in SUBSET (1 .. 0) |-> base]
  <2>1. f0 \in [SUBSET (1 .. 0) -> S] /\ Up(0, f0)
    BY <2>0
  <2> HIDE DEF f0, Up
  <2>2. 0 \in 0 .. k
    OBVIOUS
  <2> QED
    BY <2>1, <2>2
<1>2. ASSUME NEW m \in 0 .. k - 1, m \in Good
      PROVE  m + 1 \in Good
  <2>1. PICK f \in [SUBSET (1 .. m) -> S] : Up(m, f)
    BY <1>2
  <2> DEFINE g == [s \in SUBSET (1 .. m + 1) |->
                      IF m + 1 \in s THEN step[<<f[s \ {m + 1}], m + 1>>] ELSE f[s]]
  <2>2. ASSUME NEW s \in SUBSET (1 .. m + 1)
        PROVE  IF m + 1 \in s THEN s \ {m + 1} \in SUBSET (1 .. m) ELSE s \in SUBSET (1 .. m)
    OBVIOUS
  <2>3. g \in [SUBSET (1 .. m + 1) -> S]
    BY <2>2
  <2>4. ASSUME NEW s \in SUBSET (1 .. m + 1)
        PROVE  g[s] = IF s = {} THEN base ELSE step[<<g[s \ {Max(s)}], Max(s)>>]
    <3>1. CASE m + 1 \in s
      <4>1. Max(s) = m + 1
        BY <3>1, MaxIs
      <4>2. g[s \ {m + 1}] = f[s \ {m + 1}]
        BY <3>1, <2>2
      <4> QED
        BY <3>1, <4>1, <4>2
    <3>2. CASE m + 1 \notin s
      <4>1. s \in SUBSET (1 .. m) /\ s \ {Max(s)} \in SUBSET (1 .. m)
        BY <3>2, <2>2
      <4>2. g[s] = f[s] /\ g[s \ {Max(s)}] = f[s \ {Max(s)}]
        BY <3>2, <4>1
      <4> QED
        BY <2>1, <4>1, <4>2
    <3> QED
      BY <3>1, <3>2
  <2>5. Up(m + 1, g)
    BY <2>4
  <2> HIDE DEF g, Up
  <2> QED
    BY <2>3, <2>5
<1>3. k \in Good
  <2> HIDE DEF Good
  <2> QED
    BY <1>1, <1>2, UpTo
<1> QED
  BY <1>3 DEF IsFold

\* What such a function has at the prefixes 1 .. n of the domain.
LEMMA AtPrefixes ==
    ASSUME NEW S, NEW base \in S, NEW k \in Nat, NEW step \in [S \X (1 .. k) -> S],
           NEW it, IsFold(it, S, base, step, k)
    PROVE  /\ it[{}] = base
           /\ \A n \in 1 .. k : it[1 .. n] = step[<<it[1 .. n - 1], n>>]
<1>1. {} \in SUBSET (1 .. k) /\ it[{}] = base
  BY DEF IsFold
<1>2. ASSUME NEW n \in 1 .. k
      PROVE  it[1 .. n] = step[<<it[1 .. n - 1], n>>]
  BY PrefixSteps DEF IsFold
<1>3. \A n \in 1 .. k : it[1 .. n] = step[<<it[1 .. n - 1], n>>]
  BY <1>2
<1> QED
  BY <1>1, <1>3
=============================================================================
