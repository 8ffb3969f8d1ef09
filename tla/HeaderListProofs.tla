-------------------------- MODULE HeaderListProofs --------------------------
(***************************************************************************)
(* Proofs about HeaderList, for any names, values and sizes of parts, any  *)
(* number of headers and any sequence of operations.                       *)
(*                                                                         *)
(* A list is Linked when its next pointers lead once through a sequence of *)
(* parts, the parts that share a block lie one after the other in it, over *)
(* cells that were written, and headers->last is the end of the sequence   *)
(* or outside of it.  Sequences of elements first, then the chain and what *)
(* it holds, each way of deleting, pushing, and last the theorems.         *)
(***************************************************************************)
EXTENDS HeaderList, Iteration, FiniteSetTheorems, SequenceTheorems

-----------------------------------------------------------------------------
(* Sequences without one of their elements.                                *)

\* Taking an element out of a sequence moves those behind it up by one.
LEMMA RemoveAtIs ==
    ASSUME NEW S, NEW s \in Seq(S), NEW i \in 1 .. Len(s)
    PROVE  /\ RemoveAt(s, i) \in Seq(S)
           /\ Len(RemoveAt(s, i)) = Len(s) - 1
           /\ \A k \in 1 .. Len(s) - 1 :
                RemoveAt(s, i)[k] = IF k < i THEN s[k] ELSE s[k + 1]
<1> DEFINE a == SubSeq(s, 1, i - 1)
           b == SubSeq(s, i + 1, Len(s))
<1>0. Len(s) \in Nat /\ i \in Nat
  OBVIOUS
<1>1. /\ a \in Seq(S) /\ Len(a) = i - 1
      /\ \A k \in 1 .. i - 1 : a[k] = s[k]
  <2>1. \A k \in 1 .. i - 1 : s[k] \in S
    OBVIOUS
  <2>2. /\ a \in Seq(S) /\ Len(a) = IF 1 <= i - 1 THEN i - 1 - 1 + 1 ELSE 0
        /\ \A k \in 1 .. i - 1 - 1 + 1 : a[k] = s[1 + k - 1]
    BY <2>1, <1>0, SubSeqProperties
  <2> QED
    BY <2>2, <1>0
<1>2. /\ b \in Seq(S) /\ Len(b) = Len(s) - i
      /\ \A k \in 1 .. Len(s) - i : b[k] = s[k + i]
  <2>1. \A k \in i + 1 .. Len(s) : s[k] \in S
    OBVIOUS
  <2>2. /\ b \in Seq(S) /\ Len(b) = IF i + 1 <= Len(s) THEN Len(s) - (i + 1) + 1 ELSE 0
        /\ \A k \in 1 .. Len(s) - (i + 1) + 1 : b[k] = s[i + 1 + k - 1]
    BY <2>1, <1>0, SubSeqProperties
  <2> QED
    BY <2>2, <1>0
<1>3. RemoveAt(s, i) = a \o b
  BY DEF RemoveAt
<1> HIDE DEF a, b
<1>4. /\ a \o b \in Seq(S)
      /\ Len(a \o b) = Len(a) + Len(b)
      /\ \A k \in 1 .. Len(a) + Len(b) : (a \o b)[k] =
              IF k <= Len(a) THEN a[k] ELSE b[k - Len(a)]
  BY <1>1, <1>2, ConcatProperties
<1>5. Len(a) + Len(b) = Len(s) - 1
  BY <1>0, <1>1, <1>2
<1>6. ASSUME NEW k \in 1 .. Len(s) - 1
      PROVE  (a \o b)[k] = IF k < i THEN s[k] ELSE s[k + 1]
  <2>1. CASE k < i
    <3>1. k <= Len(a) /\ k \in 1 .. i - 1
      BY <2>1, <1>0, <1>1
    <3> QED
      BY <3>1, <2>1, <1>1, <1>4, <1>5
  <2>2. CASE ~(k < i)
    <3>1. ~(k <= Len(a)) /\ k - Len(a) \in 1 .. Len(s) - i /\ (k - Len(a)) + i = k + 1
      BY <2>2, <1>0, <1>1
    <3>2. b[k - Len(a)] = s[k + 1]
      BY <3>1, <1>2
    <3> QED
      BY <3>1, <3>2, <2>2, <1>4, <1>5
  <2> QED
    BY <2>1, <2>2
<1> QED
  BY <1>3, <1>4, <1>5, <1>6

\* What is appended to a sequence does not move what is taken out of it.
LEMMA RemoveConcat ==
    ASSUME NEW S, NEW s \in Seq(S), NEW t \in Seq(S), NEW i \in 1 .. Len(s)
    PROVE  RemoveAt(s, i) \o t = RemoveAt(s \o t, i)
<1> DEFINE r == RemoveAt(s, i)
           u == s \o t
           v == RemoveAt(u, i)
           w == r \o t
<1>0. Len(s) \in Nat /\ i \in Nat /\ Len(t) \in Nat
  OBVIOUS
<1>1. /\ r \in Seq(S) /\ Len(r) = Len(s) - 1
      /\ \A k \in 1 .. Len(s) - 1 : r[k] = IF k < i THEN s[k] ELSE s[k + 1]
  BY RemoveAtIs
<1>2. /\ u \in Seq(S) /\ Len(u) = Len(s) + Len(t)
      /\ \A k \in 1 .. Len(s) + Len(t) : u[k] = IF k <= Len(s) THEN s[k] ELSE t[k - Len(s)]
  BY ConcatProperties
<1> HIDE DEF r, u
<1>3. i \in 1 .. Len(u)
  BY <1>0, <1>2
<1>4. /\ v \in Seq(S) /\ Len(v) = Len(u) - 1
      /\ \A k \in 1 .. Len(u) - 1 : v[k] = IF k < i THEN u[k] ELSE u[k + 1]
  BY <1>2, <1>3, RemoveAtIs
<1>5. /\ w \in Seq(S) /\ Len(w) = Len(r) + Len(t)
      /\ \A k \in 1 .. Len(r) + Len(t) : w[k] = IF k <= Len(r) THEN r[k] ELSE t[k - Len(r)]
  BY <1>1, ConcatProperties
<1> HIDE DEF v, w
<1>6. Len(w) = Len(s) + Len(t) - 1 /\ Len(v) = Len(s) + Len(t) - 1
  BY <1>0, <1>1, <1>2, <1>4, <1>5
<1>7. ASSUME NEW k \in 1 .. Len(s) + Len(t) - 1
      PROVE  w[k] = v[k]
  <2>1. w[k] = IF k <= Len(s) - 1 THEN r[k] ELSE t[k - (Len(s) - 1)]
    BY <1>0, <1>1, <1>5
  <2>2. v[k] = IF k < i THEN u[k] ELSE u[k + 1]
    BY <1>0, <1>2, <1>4
  <2>3. k \in 1 .. Len(s) + Len(t) /\ k + 1 \in 1 .. Len(s) + Len(t)
    BY <1>0
  <2>4. CASE k < i
    <3>1. k <= Len(s) - 1 /\ k <= Len(s) /\ k \in 1 .. Len(s) - 1
      BY <2>4, <1>0
    <3>2. r[k] = s[k] /\ u[k] = s[k]
      BY <2>3, <2>4, <3>1, <1>1, <1>2
    <3> QED
      BY <2>1, <2>2, <2>4, <3>1, <3>2
  <2>5. CASE ~(k < i) /\ k <= Len(s) - 1
    <3>1. k + 1 <= Len(s) /\ k \in 1 .. Len(s) - 1
      BY <2>5, <1>0
    <3>2. r[k] = s[k + 1] /\ u[k + 1] = s[k + 1]
      BY <2>3, <2>5, <3>1, <1>1, <1>2
    <3> QED
      BY <2>1, <2>2, <2>5, <3>2
  <2>6. CASE ~(k < i) /\ ~(k <= Len(s) - 1)
    <3>1. ~(k + 1 <= Len(s)) /\ (k + 1) - Len(s) = k - (Len(s) - 1)
      BY <2>6, <1>0
    <3>2. u[k + 1] = t[k - (Len(s) - 1)]
      BY <2>3, <3>1, <1>2
    <3> QED
      BY <2>1, <2>2, <2>6, <3>2
  <2> QED
    BY <2>4, <2>5, <2>6
<1>8. w = v
  BY <1>4, <1>5, <1>6, <1>7, SeqEqual
<1> QED
  BY <1>8 DEF w, v, r, u

\* Taking an element out of the second of two sequences.
LEMMA RemoveInTail ==
    ASSUME NEW S, NEW s \in Seq(S), NEW t \in Seq(S), NEW i \in 1 .. Len(t)
    PROVE  s \o RemoveAt(t, i) = RemoveAt(s \o t, Len(s) + i)
<1> DEFINE r == RemoveAt(t, i)
           u == s \o t
           v == RemoveAt(u, Len(s) + i)
           w == s \o r
<1>0. Len(s) \in Nat /\ i \in Nat /\ Len(t) \in Nat
  OBVIOUS
<1>1. /\ r \in Seq(S) /\ Len(r) = Len(t) - 1
      /\ \A k \in 1 .. Len(t) - 1 : r[k] = IF k < i THEN t[k] ELSE t[k + 1]
  BY RemoveAtIs
<1>2. /\ u \in Seq(S) /\ Len(u) = Len(s) + Len(t)
      /\ \A k \in 1 .. Len(s) + Len(t) : u[k] = IF k <= Len(s) THEN s[k] ELSE t[k - Len(s)]
  BY ConcatProperties
<1> HIDE DEF r, u
<1>3. Len(s) + i \in 1 .. Len(u)
  BY <1>0, <1>2
<1>4. /\ v \in Seq(S) /\ Len(v) = Len(u) - 1
      /\ \A k \in 1 .. Len(u) - 1 : v[k] = IF k < Len(s) + i THEN u[k] ELSE u[k + 1]
  BY <1>2, <1>3, RemoveAtIs
<1>5. /\ w \in Seq(S) /\ Len(w) = Len(s) + Len(r)
      /\ \A k \in 1 .. Len(s) + Len(r) : w[k] = IF k <= Len(s) THEN s[k] ELSE r[k - Len(s)]
  BY <1>1, ConcatProperties
<1> HIDE DEF v, w
<1>6. Len(w) = Len(s) + Len(t) - 1 /\ Len(v) = Len(s) + Len(t) - 1
  BY <1>0, <1>1, <1>2, <1>4, <1>5
<1>7. ASSUME NEW k \in 1 .. Len(s) + Len(t) - 1
      PROVE  w[k] = v[k]
  <2>1. w[k] = IF k <= Len(s) THEN s[k] ELSE r[k - Len(s)]
    BY <1>0, <1>1, <1>5
  <2>2. v[k] = IF k < Len(s) + i THEN u[k] ELSE u[k + 1]
    BY <1>0, <1>2, <1>4
  <2>3. k \in 1 .. Len(s) + Len(t) /\ k + 1 \in 1 .. Len(s) + Len(t)
    BY <1>0
  <2>4. CASE k <= Len(s)
    <3>1. k < Len(s) + i
      BY <2>4, <1>0
    <3>2. u[k] = s[k]
      BY <2>3, <2>4, <1>2
    <3> QED
      BY <2>1, <2>2, <2>4, <3>1, <3>2
  <2>5. CASE ~(k <= Len(s)) /\ k < Len(s) + i
    <3>1. k - Len(s) \in 1 .. Len(t) - 1 /\ k - Len(s) < i
      BY <2>5, <1>0
    <3>2. r[k - Len(s)] = t[k - Len(s)] /\ u[k] = t[k - Len(s)]
      BY <2>3, <2>5, <3>1, <1>1, <1>2
    <3> QED
      BY <2>1, <2>2, <2>5, <3>2
  <2>6. CASE ~(k <= Len(s)) /\ ~(k < Len(s) + i)
    <3>1. /\ k - Len(s) \in 1 .. Len(t) - 1 /\ ~(k - Len(s) < i)
          /\ ~(k + 1 <= Len(s)) /\ (k + 1) - Len(s) = (k - Len(s)) + 1
      BY <2>6, <1>0
    <3>2. r[k - Len(s)] = t[(k - Len(s)) + 1]
      BY <3>1, <1>1
    <3>3. u[k + 1] = t[(k - Len(s)) + 1]
      BY <2>3, <3>1, <1>2
    <3> QED
      BY <2>1, <2>2, <2>6, <3>2, <3>3
  <2> QED
    BY <2>4, <2>5, <2>6
<1>8. w = v
  BY <1>4, <1>5, <1>6, <1>7, SeqEqual
<1> QED
  BY <1>8 DEF w, v, r, u

-----------------------------------------------------------------------------
(* Sequences put together.                                                 *)

\* c is the sequence a followed by the sequence b.
Joined(a, b, c, S) ==
    /\ c \in Seq(S) /\ Len(a) \in Nat /\ Len(b) \in Nat
    /\ Len(c) = Len(a) + Len(b) /\ Len(a) <= Len(c)
    /\ \A x \in 1 .. Len(a) : x \in 1 .. Len(c) /\ c[x] = a[x]
    /\ \A i \in 1 .. Len(b) : Len(a) + i \in 1 .. Len(c) /\ c[Len(a) + i] = b[i]
    /\ \A x \in 1 .. Len(c) : x \in 1 .. Len(a) \/ \E i \in 1 .. Len(b) : x = Len(a) + i

\* Concatenation, element by element.
LEMMA ConcatIs ==
    ASSUME NEW S, NEW a \in Seq(S), NEW b \in Seq(S), NEW c, c = a \o b
    PROVE  Joined(a, b, c, S)
<1>1. /\ c \in Seq(S) /\ Len(c) = Len(a) + Len(b)
      /\ \A i \in 1 .. Len(a) + Len(b) : c[i] = IF i <= Len(a) THEN a[i] ELSE b[i - Len(a)]
  BY ConcatProperties
<1>2. Len(a) \in Nat /\ Len(b) \in Nat
  OBVIOUS
<1>3. ASSUME NEW x \in 1 .. Len(a)
      PROVE  x \in 1 .. Len(c) /\ c[x] = a[x]
  BY <1>1, <1>2
<1>4. ASSUME NEW i \in 1 .. Len(b)
      PROVE  Len(a) + i \in 1 .. Len(c) /\ c[Len(a) + i] = b[i]
  <2>1. Len(a) + i \in 1 .. Len(c) /\ ~(Len(a) + i <= Len(a)) /\ (Len(a) + i) - Len(a) = i
    BY <1>1, <1>2
  <2> QED
    BY <1>1, <2>1
<1>5. ASSUME NEW x \in 1 .. Len(c), x \notin 1 .. Len(a)
      PROVE  \E i \in 1 .. Len(b) : x = Len(a) + i
  <2>1. x - Len(a) \in 1 .. Len(b) /\ x = Len(a) + (x - Len(a))
    BY <1>1, <1>2, <1>5
  <2> QED
    BY <2>1
<1>6. Len(a) <= Len(c)
  BY <1>1, <1>2
<1> QED
  BY <1>1, <1>2, <1>3, <1>4, <1>5, <1>6 DEF Joined

\* The sequences e[1], ..., e[n] put together one after the other.
IsCat(pre, e, n, S) ==
    /\ pre \in [0 .. n -> Seq(S)]
    /\ pre[0] = <<>>
    /\ \A k \in 1 .. n : e[k] \in Seq(S) /\ pre[k] = pre[k - 1] \o e[k]

\* Up to the m-th, two sequences of sequences are the same.
SameUpTo(pre, post, m) == \A k \in 0 .. m : post[k] = pre[k]

\* Two lists of sequences that begin alike are put together alike.
LEMMA CatSame ==
    ASSUME NEW S, NEW n \in Nat, NEW n2 \in Nat, NEW e, NEW f, NEW pre, NEW post,
           IsCat(pre, e, n, S), IsCat(post, f, n2, S),
           NEW m \in Nat, m <= n, m <= n2, \A k \in 1 .. m : e[k] = f[k]
    PROVE  SameUpTo(pre, post, m)
<1> DEFINE Good == {k \in 0 .. m : post[k] = pre[k]}
<1>1. 0 \in Good
  BY DEF IsCat
<1>2. ASSUME NEW k \in 0 .. m - 1, k \in Good
      PROVE  k + 1 \in Good
  <2>1. k + 1 \in 1 .. m /\ k + 1 \in 1 .. n /\ k + 1 \in 1 .. n2 /\ (k + 1) - 1 = k
    OBVIOUS
  <2>2. pre[k + 1] = pre[k] \o e[k + 1] /\ post[k + 1] = post[k] \o f[k + 1]
    BY <2>1 DEF IsCat
  <2>3. post[k + 1] = pre[k + 1]
    BY <1>2, <2>1, <2>2
  <2> QED
    BY <2>1, <2>3
<1>3. \A k \in 0 .. m - 1 : k \in Good => k + 1 \in Good
  BY <1>2
<1> HIDE DEF Good
<1>4. \A k \in 0 .. m : k \in Good
  BY <1>1, <1>3, UpTo
<1> QED
  BY <1>4 DEF Good, SameUpTo

\* Element q is in the sequence a, and b is a without it.
Removed(a, b, q) == q \in 1 .. Len(a) /\ b = RemoveAt(a, q)

\* The sequences e[j + 1], ..., e[n] come again in f, d places on.
Moved(e, f, j, n, d) == \A k \in j + 1 .. n : f[k + d] = e[k]

\* An element taken out of the first j sequences is taken out of all of them,
\* if the others follow as before, moved by d places.
LEMMA CatRemove ==
    ASSUME NEW S, NEW n \in Nat, NEW d \in -1 .. 1, NEW n2 \in Nat, n2 = n + d,
           NEW e, NEW f, NEW pre, NEW post,
           IsCat(pre, e, n, S), IsCat(post, f, n2, S),
           NEW j \in 1 .. n, Moved(e, f, j, n, d),
           NEW q, NEW j2, j2 = j + d, Removed(pre[j], post[j2], q)
    PROVE  Removed(pre[n], post[n2], q)
<1> DEFINE Good == {k \in 0 .. n - j : /\ post[j + k + d] = RemoveAt(pre[j + k], q)
                                      /\ q \in 1 .. Len(pre[j + k])}
<1>0. n - j \in Nat
  OBVIOUS
<1>1. 0 \in Good
  <2>1. 0 \in 0 .. n - j /\ j + 0 = j /\ j + 0 + d = j + d
    OBVIOUS
  <2> QED
    BY <2>1 DEF Removed
<1>2. ASSUME NEW k \in 0 .. (n - j) - 1, k \in Good
      PROVE  k + 1 \in Good
  <2> DEFINE m == j + k
  <2>1. /\ m \in 0 .. n /\ m + 1 \in 1 .. n /\ m + 1 \in j + 1 .. n /\ (m + 1) - 1 = m
        /\ j + (k + 1) = m + 1 /\ k + 1 \in 0 .. n - j
    OBVIOUS
  <2>2. /\ (m + 1) + d \in 1 .. n2 /\ ((m + 1) + d) - 1 = m + d
        /\ j + (k + 1) + d = (m + 1) + d
    OBVIOUS
  <2>3. post[m + d] = RemoveAt(pre[m], q) /\ q \in 1 .. Len(pre[m])
    BY <1>2
  <2> HIDE DEF m
  <2>4. pre[m] \in Seq(S) /\ e[m + 1] \in Seq(S) /\ pre[m + 1] = pre[m] \o e[m + 1]
    BY <2>1 DEF IsCat
  <2>5. post[(m + 1) + d] = post[m + d] \o f[(m + 1) + d]
    BY <2>2 DEF IsCat
  <2>6. f[(m + 1) + d] = e[m + 1]
    BY <2>1 DEF Moved
  <2>7. post[(m + 1) + d] = RemoveAt(pre[m + 1], q)
    <3>1. RemoveAt(pre[m], q) \o e[m + 1] = RemoveAt(pre[m] \o e[m + 1], q)
      <4>1. PICK s \in Seq(S) : s = pre[m]
        BY <2>4
      <4>2. PICK t \in Seq(S) : t = e[m + 1]
        BY <2>4
      <4>3. q \in 1 .. Len(s)
        BY <2>3, <4>1
      <4>4. RemoveAt(s, q) \o t = RemoveAt(s \o t, q)
        BY <4>3, RemoveConcat
      <4> QED
        BY <4>1, <4>2, <4>4
    <3> QED
      BY <2>3, <2>4, <2>5, <2>6, <3>1
  <2>8. q \in 1 .. Len(pre[m + 1])
    <3>1. \A x \in 1 .. Len(pre[m]) : x \in 1 .. Len(pre[m + 1])
      <4>1. Joined(pre[m], e[m + 1], pre[m + 1], S)
        BY <2>4, ConcatIs
      <4> QED
        BY <4>1 DEF Joined
    <3> QED
      BY <2>3, <3>1
  <2> QED
    BY <2>1, <2>2, <2>7, <2>8
<1>3. \A k \in 0 .. (n - j) - 1 : k \in Good => k + 1 \in Good
  BY <1>2
<1>4. n - j \in 0 .. n - j /\ j + (n - j) = n /\ j + (n - j) + d = n2
  OBVIOUS
<1> HIDE DEF Good
<1>5. n - j \in Good
  BY <1>0, <1>1, <1>3, <1>4, UpTo
<1> QED
  BY <1>4, <1>5 DEF Good, Removed

\* An element of one of the sequences is where the sequences before it end.
ElementAt(pre, e, j, i, S) ==
    /\ pre[j - 1] \in Seq(S) /\ pre[j] = pre[j - 1] \o e[j]
    /\ Len(pre[j - 1]) + i \in 1 .. Len(pre[j])
    /\ pre[j][Len(pre[j - 1]) + i] = e[j][i]

\* That holds for every element.
LEMMA CatElement ==
    ASSUME NEW S, NEW n \in Nat, NEW e, NEW pre, IsCat(pre, e, n, S),
           NEW j \in 1 .. n, NEW i \in 1 .. Len(e[j])
    PROVE  ElementAt(pre, e, j, i, S)
<1>1. j - 1 \in 0 .. n
  OBVIOUS
<1>2. pre[j - 1] \in Seq(S) /\ e[j] \in Seq(S) /\ pre[j] = pre[j - 1] \o e[j]
  BY <1>1 DEF IsCat
<1>3. /\ \A x \in 1 .. Len(e[j]) : /\ Len(pre[j - 1]) + x \in 1 .. Len(pre[j])
                                   /\ pre[j][Len(pre[j - 1]) + x] = e[j][x]
  <2>1. Joined(pre[j - 1], e[j], pre[j], S)
    BY <1>2, ConcatIs
  <2> QED
    BY <2>1 DEF Joined
<1> QED
  BY <1>2, <1>3 DEF ElementAt

\* The sequence a begins like the sequence b.
IsBeginning(a, b) == Len(a) <= Len(b) /\ \A x \in 1 .. Len(a) : b[x] = a[x]

\* What the first m sequences make up is the beginning of all of them.
LEMMA CatBegins ==
    ASSUME NEW S, NEW n \in Nat, NEW e, NEW pre, IsCat(pre, e, n, S),
           NEW m \in 0 .. n
    PROVE  IsBeginning(pre[m], pre[n])
<1> DEFINE Good == {k \in 0 .. n - m : /\ Len(pre[m]) <= Len(pre[m + k])
                                      /\ \A x \in 1 .. Len(pre[m]) : pre[m + k][x] = pre[m][x]}
<1>0. n - m \in Nat /\ pre[m] \in Seq(S) /\ Len(pre[m]) \in Nat
  <2>1. pre[m] \in Seq(S)
    BY DEF IsCat
  <2> QED
    BY <2>1
<1>1. 0 \in Good
  <2>1. m + 0 = m /\ 0 \in 0 .. n - m
    OBVIOUS
  <2> QED
    BY <2>1, <1>0
<1>2. ASSUME NEW k \in 0 .. (n - m) - 1, k \in Good
      PROVE  k + 1 \in Good
  <2> DEFINE c == m + k
  <2>1. /\ c \in 0 .. n /\ c + 1 \in 1 .. n /\ (c + 1) - 1 = c /\ m + (k + 1) = c + 1
        /\ k + 1 \in 0 .. n - m
    OBVIOUS
  <2>2. Len(pre[m]) <= Len(pre[c]) /\ \A x \in 1 .. Len(pre[m]) : pre[c][x] = pre[m][x]
    BY <1>2
  <2> HIDE DEF c
  <2>3. pre[c] \in Seq(S) /\ e[c + 1] \in Seq(S) /\ pre[c + 1] = pre[c] \o e[c + 1]
    BY <2>1 DEF IsCat
  <2>4. /\ Len(pre[c]) <= Len(pre[c + 1]) /\ Len(pre[c]) \in Nat /\ Len(pre[c + 1]) \in Nat
        /\ \A x \in 1 .. Len(pre[c]) : pre[c + 1][x] = pre[c][x]
    <3>1. /\ Len(pre[c]) <= Len(pre[c + 1]) /\ Len(pre[c]) \in Nat /\ pre[c + 1] \in Seq(S)
          /\ \A x \in 1 .. Len(pre[c]) : pre[c + 1][x] = pre[c][x]
      <4>1. Joined(pre[c], e[c + 1], pre[c + 1], S)
        BY <2>3, ConcatIs
      <4> QED
        BY <4>1 DEF Joined
    <3> QED
      BY <3>1
  <2>5. \A u, v, w \in Nat : u <= v /\ v <= w => u <= w /\ \A x \in 1 .. u : x \in 1 .. v
    OBVIOUS
  <2>6. Len(pre[m]) <= Len(pre[c + 1]) /\ \A x \in 1 .. Len(pre[m]) : x \in 1 .. Len(pre[c])
    BY <1>0, <2>2, <2>4, <2>5, Zenon
  <2>7. ASSUME NEW x \in 1 .. Len(pre[m])
        PROVE  pre[c + 1][x] = pre[m][x]
    BY <2>2, <2>4, <2>6
  <2> QED
    BY <2>1, <2>6, <2>7
<1>3. \A k \in 0 .. (n - m) - 1 : k \in Good => k + 1 \in Good
  BY <1>2
<1>4. n - m \in 0 .. n - m /\ m + (n - m) = n
  BY <1>0
<1> HIDE DEF Good
<1>5. n - m \in Good
  BY <1>0, <1>1, <1>3, <1>4, UpTo
<1> QED
  BY <1>4, <1>5 DEF Good, IsBeginning

\* The element x is one of the sequences e[1], ..., e[n].
IsIn(x, e, n) == \E j \in 1 .. n : \E i \in 1 .. Len(e[j]) : x = e[j][i]

\* Every element of what is put together comes from one of the sequences.
LEMMA CatOrigin ==
    ASSUME NEW S, NEW n \in Nat, NEW e, NEW pre, IsCat(pre, e, n, S),
           NEW x \in 1 .. Len(pre[n])
    PROVE  IsIn(pre[n][x], e, n)
<1> DEFINE From(k) == \A y \in 1 .. Len(pre[k]) :
                         \E j \in 1 .. n : \E i \in 1 .. Len(e[j]) : pre[k][y] = e[j][i]
           Good == {k \in 0 .. n : From(k)}
<1>1. 0 \in Good
  BY DEF IsCat
<1>2. ASSUME NEW k \in 0 .. n - 1, k \in Good
      PROVE  k + 1 \in Good
  <2>1. k + 1 \in 1 .. n /\ (k + 1) - 1 = k /\ k \in 0 .. n /\ k + 1 \in 0 .. n
    OBVIOUS
  <2>2. pre[k] \in Seq(S) /\ e[k + 1] \in Seq(S) /\ pre[k + 1] = pre[k] \o e[k + 1]
    BY <2>1 DEF IsCat
  <2>3. /\ \A y \in 1 .. Len(pre[k]) : pre[k + 1][y] = pre[k][y]
        /\ \A i \in 1 .. Len(e[k + 1]) : pre[k + 1][Len(pre[k]) + i] = e[k + 1][i]
        /\ \A y \in 1 .. Len(pre[k + 1]) :
              y \in 1 .. Len(pre[k]) \/ \E i \in 1 .. Len(e[k + 1]) : y = Len(pre[k]) + i
    <3>1. Joined(pre[k], e[k + 1], pre[k + 1], S)
      BY <2>2, ConcatIs
    <3> QED
      BY <3>1 DEF Joined
  <2>5. ASSUME NEW y \in 1 .. Len(pre[k + 1])
        PROVE  \E j \in 1 .. n : \E i \in 1 .. Len(e[j]) : pre[k + 1][y] = e[j][i]
    <3>1. CASE y \in 1 .. Len(pre[k])
      BY <1>2, <2>3, <3>1
    <3>2. CASE \E i \in 1 .. Len(e[k + 1]) : y = Len(pre[k]) + i
      <4>1. PICK i \in 1 .. Len(e[k + 1]) : y = Len(pre[k]) + i
        BY <3>2
      <4>2. pre[k + 1][y] = e[k + 1][i]
        BY <2>3, <4>1
      <4> QED
        BY <2>1, <4>2
    <3> QED
      BY <2>3, <3>1, <3>2
  <2>6. From(k + 1)
    BY <2>5
  <2> HIDE DEF From
  <2> QED
    BY <2>1, <2>6
<1>3. \A k \in 0 .. n - 1 : k \in Good => k + 1 \in Good
  BY <1>2
<1>4. n \in 0 .. n
  OBVIOUS
<1> HIDE DEF Good
<1>5. n \in Good
  BY <1>1, <1>3, <1>4, UpTo
<1> QED
  BY <1>5 DEF Good, IsIn

-----------------------------------------------------------------------------
(* The chain of parts.                                                     *)

\* A part, as the list keeps it: what its pointers may be is said below.
Part == [block : Nat, off : Nat, nelts : Nat, next : Nat]

\* A cell of memory: a header, or not written.
Cell == Header \cup {<<>>}

\* The lists.
Lists == [part : Seq(Part), last : Nat, nalloc : Int, mem : Seq(Seq(Cell))]

\* The next pointers lead through the parts s, from the first to a Null.
IsChain(l, s) ==
    /\ s \in Seq(1 .. Len(l.part)) /\ Len(s) >= 1 /\ s[1] = First
    /\ \A i, j \in 1 .. Len(s) : s[i] = s[j] => i = j
    /\ \A i \in 1 .. Len(s) - 1 : l.part[s[i]].next = s[i + 1]
    /\ l.part[s[Len(s)]].next = Null

\* The beginnings of a sequence.
LEMMA PrefixIs ==
    ASSUME NEW S, NEW s \in Seq(S), NEW n \in 1 .. Len(s)
    PROVE  /\ SubSeq(s, 1, n) \in Seq(S) /\ Len(SubSeq(s, 1, n)) = n
           /\ SubSeq(s, 1, n)[n] = s[n]
           /\ n + 1 <= Len(s) => Append(SubSeq(s, 1, n), s[n + 1]) = SubSeq(s, 1, n + 1)
<1>0. Len(s) \in Nat /\ n \in Nat
  OBVIOUS
<1>1. ASSUME NEW m \in 1 .. Len(s)
      PROVE  /\ SubSeq(s, 1, m) \in Seq(S) /\ Len(SubSeq(s, 1, m)) = m
             /\ \A k \in 1 .. m : SubSeq(s, 1, m)[k] = s[k]
  <2>1. \A k \in 1 .. m : s[k] \in S
    OBVIOUS
  <2>2. m \in Int
    OBVIOUS
  <2>3. /\ SubSeq(s, 1, m) \in Seq(S)
        /\ Len(SubSeq(s, 1, m)) = IF 1 <= m THEN m - 1 + 1 ELSE 0
        /\ \A k \in 1 .. m - 1 + 1 : SubSeq(s, 1, m)[k] = s[1 + k - 1]
    BY <2>1, <2>2, SubSeqProperties
  <2> QED
    BY <2>3
<1>2. ASSUME n + 1 <= Len(s)
      PROVE  Append(SubSeq(s, 1, n), s[n + 1]) = SubSeq(s, 1, n + 1)
  <2> DEFINE a == SubSeq(s, 1, n)
             b == SubSeq(s, 1, n + 1)
             c == Append(a, s[n + 1])
  <2>1. n + 1 \in 1 .. Len(s)
    BY <1>2, <1>0
  <2>2. a \in Seq(S) /\ Len(a) = n /\ \A k \in 1 .. n : a[k] = s[k]
    BY <1>1
  <2>3. b \in Seq(S) /\ Len(b) = n + 1 /\ \A k \in 1 .. n + 1 : b[k] = s[k]
    BY <1>1, <2>1
  <2> HIDE DEF a, b
  <2>4. s[n + 1] \in S
    BY <2>1
  <2>5. c \in Seq(S) /\ Len(c) = n + 1 /\ \A k \in 1 .. n + 1 : c[k] = s[k]
    BY <2>2, <2>4
  <2> HIDE DEF c
  <2>6. c = b
    BY <2>3, <2>5, SeqEqual
  <2> QED
    BY <2>6 DEF a, b, c
<1> QED
  BY <1>1, <1>2

\* A sequence of different numbers up to k is at most k long.
LEMMA Pigeons ==
    ASSUME NEW k \in Nat, NEW s \in Seq(1 .. k),
           \A i, j \in 1 .. Len(s) : s[i] = s[j] => i = j
    PROVE  Len(s) <= k
<1>1. SUFFICES ASSUME k < Len(s) PROVE FALSE
  OBVIOUS
<1>2. Len(s) \in Nat /\ s \in [1 .. Len(s) -> 1 .. k]
  OBVIOUS
<1>3. /\ IsFiniteSet(1 .. k) /\ Cardinality(1 .. k) = k
      /\ IsFiniteSet(1 .. Len(s)) /\ Cardinality(1 .. Len(s)) = Len(s)
  <2>1. \A b \in Nat : IsFiniteSet(1 .. b) /\ Cardinality(1 .. b) = IF 1 > b THEN 0 ELSE b - 1 + 1
    BY FS_Interval
  <2>2. \A b \in Nat : (IF 1 > b THEN 0 ELSE b - 1 + 1) = b
    OBVIOUS
  <2> QED
    BY <1>2, <2>1, <2>2
<1>4. \E x, y \in 1 .. Len(s) : x # y /\ s[x] = s[y]
  <2> DEFINE A == 1 .. Len(s)
             B == 1 .. k
  <2>1. IsFiniteSet(A) /\ IsFiniteSet(B) /\ Cardinality(B) < Cardinality(A) /\ s \in [A -> B]
    BY <1>1, <1>2, <1>3
  <2> HIDE DEF A, B
  <2>2. \E x, y \in A : x # y /\ s[x] = s[y]
    BY <2>1, FS_PigeonHole
  <2> QED
    BY <2>2 DEF A
<1> QED
  BY <1>4

\* Chain follows the next pointers, and there is one way to do so.
LEMMA ChainIs ==
    ASSUME NEW l, Len(l.part) \in Nat, NEW s, IsChain(l, s)
    PROVE  Chain(l) = s
<1> DEFINE N == Len(l.part)
           Step(c) == IF l.part[Last(c)].next = Null THEN c
                      ELSE Append(c, l.part[Last(c)].next)
           Is(f) == f = [n \in 0 .. N |-> IF n = 0 THEN <<First>> ELSE Step(f[n - 1])]
           from == CHOOSE f : Is(f)
           upto(n) == IF n + 1 <= Len(s) THEN SubSeq(s, 1, n + 1) ELSE s
           g == [n \in 0 .. N |-> upto(n)]
<1>0. Chain(l) = from[N]
  BY DEF Chain
<1>1. /\ s \in Seq(1 .. N) /\ Len(s) \in Nat \ {0} /\ s[1] = First
      /\ \A i, j \in 1 .. Len(s) : s[i] = s[j] => i = j
      /\ \A i \in 1 .. Len(s) - 1 : l.part[s[i]].next = s[i + 1]
      /\ l.part[s[Len(s)]].next = Null
  BY DEF IsChain
<1>2. N \in Nat
  OBVIOUS
<1> HIDE DEF N
<1>3. Len(s) <= N
  BY <1>1, <1>2, Pigeons
<1>4. upto(0) = <<First>>
  <2>1. 1 \in 1 .. Len(s) /\ 0 + 1 = 1 /\ 1 <= Len(s)
    BY <1>1
  <2> DEFINE T == 1 .. N
             b == SubSeq(s, 1, 1)
             c == <<First>>
  <2>2. s \in Seq(T)
    BY <1>1
  <2> HIDE DEF T
  <2>3. b \in Seq(T) /\ Len(b) = 1 /\ b[1] = s[1]
    BY <2>1, <2>2, PrefixIs
  <2>4. s[1] \in T
    BY <2>1, <2>2
  <2>5. c \in Seq(T) /\ Len(c) = 1 /\ c[1] = s[1]
    BY <1>1, <2>4
  <2> HIDE DEF b, c
  <2>6. \A k \in 1 .. 1 : b[k] = c[k]
    BY <2>3, <2>5
  <2>7. b = c
    BY <2>3, <2>5, <2>6, SeqEqual
  <2>8. SubSeq(s, 1, 1) = <<First>>
    BY <2>7 DEF b, c
  <2> QED
    BY <2>1, <2>8
<1>5. ASSUME NEW n \in 1 .. N
      PROVE  upto(n) = Step(upto(n - 1))
  <2>0. n \in Nat /\ (n - 1) + 1 = n
    OBVIOUS
  <2>1. CASE n + 1 <= Len(s)
    <3>1. n \in 1 .. Len(s) /\ n <= Len(s) /\ n \in 1 .. Len(s) - 1 /\ n + 1 \in 1 .. Len(s)
      BY <1>1, <2>1
    <3>2. /\ Len(SubSeq(s, 1, n)) = n /\ SubSeq(s, 1, n)[n] = s[n]
          /\ Append(SubSeq(s, 1, n), s[n + 1]) = SubSeq(s, 1, n + 1)
      BY <1>1, <2>1, <3>1, PrefixIs
    <3>3. s[n + 1] \in 1 .. N /\ s[n + 1] # Null
      BY <1>1, <1>2, <3>1 DEF Null
    <3>4. l.part[Last(SubSeq(s, 1, n))].next = s[n + 1]
      BY <1>1, <3>1, <3>2 DEF Last
    <3>5. Step(SubSeq(s, 1, n)) = SubSeq(s, 1, n + 1)
      BY <3>2, <3>3, <3>4
    <3>6. upto(n - 1) = SubSeq(s, 1, n)
      BY <2>0, <3>1
    <3>7. upto(n) = SubSeq(s, 1, n + 1)
      BY <2>1
    <3> HIDE DEF upto, Step
    <3> QED
      BY <3>5, <3>6, <3>7
  <2>2. CASE ~(n + 1 <= Len(s))
    <3>1. upto(n) = s
      BY <2>2
    <3>2. upto(n - 1) = s
      <4>1. CASE n <= Len(s)
        <5>1. n = Len(s)
          BY <1>1, <2>0, <2>2, <4>1
        <5>2. SubSeq(s, 1, n) = s
          BY <1>1, <5>1, SubSeqFull
        <5> QED
          BY <2>0, <4>1, <5>2
      <4>2. CASE ~(n <= Len(s))
        BY <2>0, <4>2
      <4> QED
        BY <4>1, <4>2
    <3>3. Step(s) = s
      BY <1>1 DEF Last
    <3> HIDE DEF upto, Step
    <3> QED
      BY <3>1, <3>2, <3>3
  <2> QED
    BY <2>1, <2>2
<1> HIDE DEF upto, Step
<1>6. Is(g)
  <2>1. g[0] = upto(0)
    BY <1>2
  <2>2. \A n \in 1 .. N : g[n] = Step(g[n - 1])
    <3>1. SUFFICES ASSUME NEW n \in 1 .. N PROVE g[n] = Step(g[n - 1])
      OBVIOUS
    <3>2. n \in 0 .. N /\ n - 1 \in 0 .. N
      BY <1>2
    <3>3. g[n] = upto(n) /\ g[n - 1] = upto(n - 1)
      BY <3>2
    <3> QED
      BY <1>5, <3>3
  <2>3. g = [n \in 0 .. N |-> g[n]]
    OBVIOUS
  <2> HIDE DEF g
  <2>4. ASSUME NEW n \in 0 .. N
        PROVE  g[n] = IF n = 0 THEN <<First>> ELSE Step(g[n - 1])
    <3>1. n = 0 \/ n \in 1 .. N
      BY <1>2
    <3> QED
      BY <1>4, <2>1, <2>2, <3>1
  <2> QED
    BY <2>3, <2>4
<1>7. Is(from)
  BY <1>6
<1> HIDE DEF from, g
<1>8. /\ from[0] = <<First>>
      /\ \A n \in 1 .. N : from[n] = Step(from[n - 1])
  <2>1. \A n \in 0 .. N : from[n] = IF n = 0 THEN <<First>> ELSE Step(from[n - 1])
    BY <1>7
  <2> HIDE DEF Is
  <2>2. 0 \in 0 .. N /\ \A n \in 1 .. N : n \in 0 .. N /\ n # 0
    BY <1>2
  <2> QED
    BY <2>1, <2>2
<1> DEFINE Good == {n \in 0 .. N : from[n] = upto(n)}
<1>9. 0 \in Good
  BY <1>2, <1>4, <1>8
<1>10. ASSUME NEW n \in 0 .. N - 1, n \in Good
       PROVE  n + 1 \in Good
  <2>1. n + 1 \in 1 .. N /\ (n + 1) - 1 = n /\ n + 1 \in 0 .. N
    BY <1>2
  <2>2. from[n + 1] = Step(from[n]) /\ upto(n + 1) = Step(upto(n))
    BY <1>5, <1>8, <2>1
  <2> QED
    BY <1>10, <2>1, <2>2
<1>11. \A n \in 0 .. N : n \in Good
  <2>1. \A n \in 0 .. N - 1 : n \in Good => n + 1 \in Good
    BY <1>10
  <2> HIDE DEF Good
  <2> QED
    BY <1>2, <1>9, <2>1, UpTo
<1>12. from[N] = upto(N)
  BY <1>2, <1>11
<1>13. upto(N) = s
  BY <1>1, <1>2, <1>3 DEF upto
<1> QED
  BY <1>0, <1>12, <1>13

-----------------------------------------------------------------------------
(* What Contents and Get fold.                                             *)

\* FoldLeft goes through the chain from the first part: Contents is the
\* elements of the parts put together.
LEMMA ContentsIs ==
    ASSUME NEW l, Len(l.part) \in Nat, NEW s, IsChain(l, s), NEW S,
           \A k \in 1 .. Len(s) : Elts(l, s[k]) \in Seq(S)
    PROVE  \E pre : /\ IsCat(pre, [k \in 1 .. Len(s) |-> Elts(l, s[k])], Len(s), S)
                    /\ Contents(l) = pre[Len(s)]
<1> DEFINE k == Len(s)
           e == [i \in 1 .. k |-> Elts(l, s[i])]
           step == [x \in Seq(S) \X (1 .. k) |-> x[1] \o e[x[2]]]
           It(f) == f = [t \in SUBSET (1 .. k) |->
                           IF t = {} THEN <<>> ELSE f[t \ {Max(t)}] \o Elts(l, s[Max(t)])]
           fold == CHOOSE f : It(f)
<1>1. Chain(l) = s
  BY ChainIs
<1>2. k \in Nat /\ DOMAIN s = 1 .. k
  <2>1. s \in Seq(1 .. Len(l.part))
    BY DEF IsChain
  <2> QED
    BY <2>1
<1>3. Contents(l) = fold[1 .. k]
  BY <1>1, <1>2 DEF Contents, FoldLeft, MapThenFoldSet
<1> HIDE DEF k
<1>4. \A i \in 1 .. k : e[i] = Elts(l, s[i]) /\ e[i] \in Seq(S)
  BY DEF k
<1> HIDE DEF e
<1>5. step \in [Seq(S) \X (1 .. k) -> Seq(S)]
  <2>1. \A x \in Seq(S) \X (1 .. k) : x[1] \o e[x[2]] \in Seq(S)
    BY <1>4
  <2> QED
    BY <2>1
<1>6. \A v \in Seq(S), i \in 1 .. k : step[<<v, i>>] = v \o e[i]
  OBVIOUS
<1> HIDE DEF step
<1>7. <<>> \in Seq(S)
  OBVIOUS
<1>8. PICK it : IsFold(it, Seq(S), <<>>, step, k)
  BY <1>2, <1>5, <1>7, SubsetRecursion
<1>9. \A t \in SUBSET (1 .. k) : t # {} => Max(t) \in 1 .. k
  BY <1>2, MaxIn
<1>10. It(it)
  <2>1. it = [t \in SUBSET (1 .. k) |-> it[t]]
    BY <1>8 DEF IsFold
  <2>2. ASSUME NEW t \in SUBSET (1 .. k)
        PROVE  it[t] = IF t = {} THEN <<>> ELSE it[t \ {Max(t)}] \o Elts(l, s[Max(t)])
    <3>1. CASE t = {}
      BY <1>8, <3>1 DEF IsFold
    <3>2. CASE t # {}
      <4>1. Max(t) \in 1 .. k /\ t \ {Max(t)} \in SUBSET (1 .. k)
        BY <1>9, <3>2
      <4>2. it[t \ {Max(t)}] \in Seq(S)
        BY <1>8, <4>1 DEF IsFold
      <4>3. it[t] = step[<<it[t \ {Max(t)}], Max(t)>>]
        BY <1>8, <3>2 DEF IsFold
      <4>4. it[t] = it[t \ {Max(t)}] \o e[Max(t)]
        BY <1>6, <4>1, <4>2, <4>3, Zenon
      <4> QED
        BY <1>4, <3>2, <4>1, <4>4
    <3> QED
      BY <3>1, <3>2
  <2> QED
    BY <2>1, <2>2
<1>11. It(fold)
  BY <1>10, Zenon
<1> HIDE DEF fold
<1>12. ASSUME NEW t \in SUBSET (1 .. k)
       PROVE  fold[t] = IF t = {} THEN <<>> ELSE fold[t \ {Max(t)}] \o Elts(l, s[Max(t)])
  BY <1>11
<1> HIDE DEF It
<1>13. fold[1 .. 0] = <<>>
  <2>1. 1 .. 0 = {} /\ {} \in SUBSET (1 .. k)
    OBVIOUS
  <2> QED
    BY <1>12, <2>1
<1>14. ASSUME NEW n \in 1 .. k
       PROVE  fold[1 .. n] = fold[1 .. n - 1] \o e[n]
  <2>1. /\ 1 .. n \in SUBSET (1 .. k) /\ 1 .. n # {}
        /\ Max(1 .. n) = n /\ (1 .. n) \ {n} = 1 .. n - 1
    BY <1>2, PrefixSteps
  <2>2. fold[1 .. n] = fold[1 .. n - 1] \o Elts(l, s[n])
    BY <1>12, <2>1
  <2> QED
    BY <1>4, <2>2
<1> DEFINE pre == [n \in 0 .. k |-> fold[1 .. n]]
           Good == {n \in 0 .. k : fold[1 .. n] \in Seq(S)}
<1>15. \A n \in 0 .. k : n \in Good
  <2>1. 0 \in Good
    <3>1. 0 \in 0 .. k /\ fold[1 .. 0] \in Seq(S)
      BY <1>2, <1>7, <1>13
    <3> QED
      BY <3>1
  <2>2. ASSUME NEW n \in 0 .. k - 1, n \in Good
        PROVE  n + 1 \in Good
    <3>1. n + 1 \in 1 .. k /\ (n + 1) - 1 = n /\ n + 1 \in 0 .. k
      BY <1>2
    <3>2. fold[1 .. n + 1] = fold[1 .. n] \o e[n + 1]
      BY <1>14, <3>1
    <3>3. \A v, w \in Seq(S) : v \o w \in Seq(S)
      OBVIOUS
    <3>4. fold[1 .. n] \o e[n + 1] \in Seq(S)
      BY <1>4, <2>2, <3>1, <3>3
    <3> QED
      BY <3>1, <3>2, <3>4
  <2>3. \A n \in 0 .. k - 1 : n \in Good => n + 1 \in Good
    BY <2>2
  <2> HIDE DEF Good
  <2> QED
    BY <1>2, <2>1, <2>3, UpTo
<1>16. pre \in [0 .. k -> Seq(S)]
  BY <1>15
<1>17. pre[0] = <<>> /\ pre[k] = fold[1 .. k]
  BY <1>2, <1>13
<1>18. ASSUME NEW n \in 1 .. k
       PROVE  e[n] \in Seq(S) /\ pre[n] = pre[n - 1] \o e[n]
  <2>1. n \in 0 .. k /\ n - 1 \in 0 .. k
    BY <1>2
  <2>2. pre[n] = fold[1 .. n] /\ pre[n - 1] = fold[1 .. n - 1]
    BY <2>1
  <2> QED
    BY <1>4, <1>14, <2>2
<1> HIDE DEF pre
<1>19. IsCat(pre, e, k, S)
  BY <1>16, <1>17, <1>18 DEF IsCat
<1> QED
  BY <1>3, <1>17, <1>19 DEF e, k

\* The headers of a name are collected from the first on.
IsGet(g, c, key) ==
    /\ g \in [0 .. Len(c) -> Seq(Header)]
    /\ g[0] = <<>>
    /\ \A n \in 1 .. Len(c) : g[n] = IF c[n].key = key THEN Append(g[n - 1], c[n]) ELSE g[n - 1]

\* Get is that.
LEMMA GetFold ==
    ASSUME NEW l, NEW key, Contents(l) \in Seq(Header)
    PROVE  \E g : IsGet(g, Contents(l), key) /\ Get(l, key) = g[Len(Contents(l))]
<1> DEFINE c == Contents(l)
           k == Len(c)
           Took(v, i) == IF c[i].key = key THEN Append(v, c[i]) ELSE v
           step == [x \in Seq(Header) \X (1 .. k) |-> Took(x[1], x[2])]
           It(f) == f = [t \in SUBSET (1 .. k) |->
                           IF t = {} THEN <<>>
                           ELSE IF c[Max(t)].key = key THEN Append(f[t \ {Max(t)}], c[Max(t)])
                                ELSE f[t \ {Max(t)}]]
           fold == CHOOSE f : It(f)
<1>2. k \in Nat /\ DOMAIN c = 1 .. k /\ \A i \in 1 .. k : c[i] \in Header
  OBVIOUS
<1>3. Get(l, key) = fold[1 .. k]
  BY <1>2 DEF Get, FoldLeft, MapThenFoldSet
<1> HIDE DEF c, k
<1>4. \A v \in Seq(Header), i \in 1 .. k : Took(v, i) \in Seq(Header)
  BY <1>2
<1> HIDE DEF Took
<1>5. step \in [Seq(Header) \X (1 .. k) -> Seq(Header)]
  <2>1. \A x \in Seq(Header) \X (1 .. k) : Took(x[1], x[2]) \in Seq(Header)
    BY <1>4
  <2> QED
    BY <2>1
<1>6. \A v \in Seq(Header), i \in 1 .. k : step[<<v, i>>] = Took(v, i)
  OBVIOUS
<1> HIDE DEF step
<1>7. <<>> \in Seq(Header)
  OBVIOUS
<1>8. PICK it : IsFold(it, Seq(Header), <<>>, step, k)
  BY <1>2, <1>5, <1>7, SubsetRecursion
<1>9. \A t \in SUBSET (1 .. k) : t # {} => Max(t) \in 1 .. k
  BY <1>2, MaxIn
<1>10. It(it)
  <2>1. it = [t \in SUBSET (1 .. k) |-> it[t]]
    BY <1>8 DEF IsFold
  <2>2. ASSUME NEW t \in SUBSET (1 .. k)
        PROVE  it[t] = IF t = {} THEN <<>>
                       ELSE IF c[Max(t)].key = key THEN Append(it[t \ {Max(t)}], c[Max(t)])
                            ELSE it[t \ {Max(t)}]
    <3>1. CASE t = {}
      BY <1>8, <3>1 DEF IsFold
    <3>2. CASE t # {}
      <4>1. Max(t) \in 1 .. k /\ t \ {Max(t)} \in SUBSET (1 .. k)
        BY <1>9, <3>2
      <4>2. it[t \ {Max(t)}] \in Seq(Header)
        BY <1>8, <4>1 DEF IsFold
      <4>3. it[t] = step[<<it[t \ {Max(t)}], Max(t)>>]
        BY <1>8, <3>2, Zenon DEF IsFold
      <4>4. it[t] = Took(it[t \ {Max(t)}], Max(t))
        BY <1>6, <4>1, <4>2, <4>3
      <4> QED
        BY <3>2, <4>4 DEF Took
    <3> QED
      BY <3>1, <3>2
  <2> QED
    BY <2>1, <2>2
<1>11. It(fold)
  BY <1>10, Zenon
<1> HIDE DEF fold
<1>12. ASSUME NEW t \in SUBSET (1 .. k)
       PROVE  fold[t] = IF t = {} THEN <<>> ELSE Took(fold[t \ {Max(t)}], Max(t))
  BY <1>11 DEF Took
<1> HIDE DEF It
<1>13. fold[1 .. 0] = <<>>
  <2>1. 1 .. 0 = {} /\ {} \in SUBSET (1 .. k)
    OBVIOUS
  <2> QED
    BY <1>12, <2>1
<1>14. ASSUME NEW n \in 1 .. k
       PROVE  fold[1 .. n] = Took(fold[1 .. n - 1], n)
  <2>1. /\ 1 .. n \in SUBSET (1 .. k) /\ 1 .. n # {}
        /\ Max(1 .. n) = n /\ (1 .. n) \ {n} = 1 .. n - 1
    BY <1>2, PrefixSteps
  <2> QED
    BY <1>12, <2>1
<1> DEFINE g == [n \in 0 .. k |-> fold[1 .. n]]
           Good == {n \in 0 .. k : fold[1 .. n] \in Seq(Header)}
<1>15. \A n \in 0 .. k : n \in Good
  <2>1. 0 \in Good
    <3>1. 0 \in 0 .. k /\ fold[1 .. 0] \in Seq(Header)
      BY <1>2, <1>7, <1>13
    <3> QED
      BY <3>1
  <2>2. ASSUME NEW n \in 0 .. k - 1, n \in Good
        PROVE  n + 1 \in Good
    <3>1. n + 1 \in 1 .. k /\ (n + 1) - 1 = n /\ n + 1 \in 0 .. k
      BY <1>2
    <3>2. fold[1 .. n + 1] = Took(fold[1 .. n], n + 1)
      BY <1>14, <3>1
    <3> QED
      BY <1>4, <2>2, <3>1, <3>2
  <2>3. \A n \in 0 .. k - 1 : n \in Good => n + 1 \in Good
    BY <2>2
  <2> HIDE DEF Good
  <2> QED
    BY <1>2, <2>1, <2>3, UpTo
<1>16. g \in [0 .. k -> Seq(Header)]
  BY <1>15
<1>17. g[0] = <<>> /\ g[k] = fold[1 .. k]
  BY <1>2, <1>13
<1>18. ASSUME NEW n \in 1 .. k
       PROVE  g[n] = IF c[n].key = key THEN Append(g[n - 1], c[n]) ELSE g[n - 1]
  <2>1. n \in 0 .. k /\ n - 1 \in 0 .. k
    BY <1>2
  <2>2. g[n] = fold[1 .. n] /\ g[n - 1] = fold[1 .. n - 1]
    BY <2>1
  <2>3. g[n] = Took(g[n - 1], n)
    BY <1>14, <2>2
  <2> QED
    BY <2>3 DEF Took
<1> HIDE DEF g
<1>19. IsGet(g, c, key)
  BY <1>16, <1>17, <1>18 DEF IsGet, k
<1> QED
  BY <1>3, <1>17, <1>19 DEF c, k

-----------------------------------------------------------------------------
(* What Get finds.                                                         *)

\* Get finds nothing in a list that has no header of the name.
LEMMA GetNone ==
    ASSUME NEW g, NEW c \in Seq(Header), NEW key, IsGet(g, c, key),
           NEW m \in 0 .. Len(c), \A n \in 1 .. m : c[n].key # key
    PROVE  g[m] = <<>>
<1> DEFINE Good == {n \in 0 .. m : g[n] = <<>>}
<1>0. m \in Nat /\ Len(c) \in Nat
  OBVIOUS
<1>1. 0 \in Good
  BY <1>0 DEF IsGet
<1>2. ASSUME NEW n \in 0 .. m - 1, n \in Good
      PROVE  n + 1 \in Good
  <2>1. n + 1 \in 1 .. m /\ n + 1 \in 1 .. Len(c) /\ n + 1 \in 0 .. m /\ (n + 1) - 1 = n
    BY <1>0
  <2>2. g[n + 1] = g[n]
    BY <2>1 DEF IsGet
  <2> QED
    BY <1>2, <2>1, <2>2
<1>3. \A n \in 0 .. m - 1 : n \in Good => n + 1 \in Good
  BY <1>2
<1>4. m \in 0 .. m
  BY <1>0
<1> HIDE DEF Good
<1>5. m \in Good
  BY <1>0, <1>1, <1>3, <1>4, UpTo
<1> QED
  BY <1>5 DEF Good

\* What Get has found it keeps.
LEMMA GetSome ==
    ASSUME NEW g, NEW c \in Seq(Header), NEW key, IsGet(g, c, key),
           NEW x \in 1 .. Len(c), c[x].key = key
    PROVE  g[Len(c)] # <<>>
<1> DEFINE Good == {n \in 0 .. Len(c) - x : g[x + n] # <<>>}
           K == Len(c) - x
<1>0. x \in Nat /\ Len(c) \in Nat /\ K \in Nat
  OBVIOUS
<1>1. 0 \in Good
  <2>1. x - 1 \in 0 .. Len(c) /\ x + 0 = x /\ 0 \in 0 .. K /\ c[x] \in Header
    BY <1>0
  <2>2. g[x - 1] \in Seq(Header) /\ g[x] = Append(g[x - 1], c[x])
    BY <2>1 DEF IsGet
  <2>3. \A v \in Seq(Header), h \in Header : Append(v, h) # <<>>
    OBVIOUS
  <2>4. g[x] # <<>>
    BY <2>1, <2>2, <2>3
  <2> QED
    BY <2>1, <2>4
<1>2. ASSUME NEW n \in 0 .. K - 1, n \in Good
      PROVE  n + 1 \in Good
  <2>1. /\ x + (n + 1) \in 1 .. Len(c) /\ (x + (n + 1)) - 1 = x + n /\ n + 1 \in 0 .. K
        /\ x + n \in 0 .. Len(c)
    BY <1>0
  <2>2. g[x + n] # <<>> /\ g[x + n] \in Seq(Header) /\ c[x + (n + 1)] \in Header
    <3>1. g[x + n] # <<>>
      BY <1>2
    <3>2. g[x + n] \in Seq(Header)
      BY <2>1 DEF IsGet
    <3>3. c[x + (n + 1)] \in Header
      BY <2>1
    <3> QED
      BY <3>1, <3>2, <3>3
  <2>3. \/ g[x + (n + 1)] = Append(g[x + n], c[x + (n + 1)])
        \/ g[x + (n + 1)] = g[x + n]
    BY <2>1 DEF IsGet
  <2>4. \A v \in Seq(Header), h \in Header : Append(v, h) # <<>>
    OBVIOUS
  <2>5. g[x + (n + 1)] # <<>>
    BY <2>2, <2>3, <2>4
  <2> QED
    BY <2>1, <2>5
<1>3. \A n \in 0 .. K - 1 : n \in Good => n + 1 \in Good
  BY <1>2
<1>4. K \in 0 .. K /\ x + K = Len(c)
  BY <1>0
<1> HIDE DEF K
<1>5. K \in Good
  <2> HIDE DEF Good
  <2> QED
    BY <1>0, <1>1, <1>3, <1>4, UpTo
<1> QED
  BY <1>4, <1>5

\* Get is empty exactly when no header has the name.
LEMMA GetEmpty ==
    ASSUME NEW l, NEW key, Contents(l) \in Seq(Header)
    PROVE  Get(l, key) = <<>> <=> \A n \in 1 .. Len(Contents(l)) : Contents(l)[n].key # key
<1> DEFINE c == Contents(l)
<1>0. c \in Seq(Header) /\ Len(c) \in 0 .. Len(c)
  OBVIOUS
<1>1. PICK g : IsGet(g, c, key) /\ Get(l, key) = g[Len(c)]
  BY GetFold
<1> HIDE DEF c
<1>2. ASSUME \A n \in 1 .. Len(c) : c[n].key # key
      PROVE  g[Len(c)] = <<>>
  BY <1>0, <1>1, <1>2, GetNone
<1>3. ASSUME NEW n \in 1 .. Len(c), c[n].key = key
      PROVE  g[Len(c)] # <<>>
  BY <1>0, <1>1, <1>3, GetSome
<1>4. Get(l, key) = <<>> <=> \A n \in 1 .. Len(c) : c[n].key # key
  BY <1>1, <1>2, <1>3
<1> QED
  BY <1>4 DEF c

\* A header appended to a list without its name is the one that Get returns.
LEMMA GetOne ==
    ASSUME NEW l, NEW m, NEW h \in Header,
           Contents(l) \in Seq(Header), Get(l, h.key) = <<>>,
           Contents(m) = Append(Contents(l), h)
    PROVE  Get(m, h.key) = <<h>>
<1> DEFINE c == Contents(l)
           d == Contents(m)
           key == h.key
<1>1. /\ c \in Seq(Header) /\ d = Append(c, h)
      /\ \A n \in 1 .. Len(c) : c[n].key # key
  BY GetEmpty
<1>2. /\ d \in Seq(Header) /\ Len(d) = Len(c) + 1 /\ Len(c) \in Nat
      /\ d[Len(c) + 1] = h /\ \A n \in 1 .. Len(c) : d[n] = c[n]
  <2> HIDE DEF c, d
  <2> QED
    BY <1>1
<1>3. PICK g : IsGet(g, d, key) /\ Get(m, key) = g[Len(d)]
  BY <1>2, GetFold
<1> HIDE DEF c, d
<1>4. Len(c) \in 0 .. Len(d) /\ \A n \in 1 .. Len(c) : d[n].key # key
  BY <1>1, <1>2
<1>5. g[Len(c)] = <<>>
  BY <1>2, <1>3, <1>4, GetNone
<1>6. Len(c) + 1 \in 1 .. Len(d) /\ (Len(c) + 1) - 1 = Len(c)
  BY <1>2
<1>7. g[Len(c) + 1] = Append(<<>>, h)
  <2>1. g[Len(c) + 1] = Append(g[Len(c)], d[Len(c) + 1])
    BY <1>2, <1>3, <1>6 DEF IsGet
  <2> QED
    BY <1>2, <1>5, <2>1
<1>8. Append(<<>>, h) = <<h>>
  OBVIOUS
<1> QED
  BY <1>2, <1>3, <1>7, <1>8

-----------------------------------------------------------------------------
(* Linked lists.                                                           *)

\* The elements of part p were written.
InMem(l, p) ==
    /\ l.part[p].off + l.part[p].nelts <= Len(l.mem[l.part[p].block])
    /\ \A x \in 1 .. l.part[p].nelts : l.mem[l.part[p].block][l.part[p].off + x] \in Header

\* So were those of all parts of s.
Written(l, s) == \A k \in 1 .. Len(s) : InMem(l, s[k])

\* Of two parts of a block, the one that comes first lies first.
Apart(l, s) ==
    \A i, k \in 1 .. Len(s) :
        i < k /\ l.part[s[i]].block = l.part[s[k]].block =>
            l.part[s[i]].off + l.part[s[i]].nelts <= l.part[s[k]].off

\* Only a list of one part may be empty.
NoneEmpty(l, s) == Len(s) > 1 => \A k \in 1 .. Len(s) : l.part[s[k]].nelts > 0

\* headers->last is the last part, or none that the loops reach.
LastIsEnd(l, s) == l.last = s[Len(s)] \/ \A k \in 1 .. Len(s) : l.last # s[k]

\* Every part of the list, reached or not, has a block.
InBlocks(l) ==
    /\ l \in Lists /\ l.last \in 1 .. Len(l.part)
    /\ \A p \in 1 .. Len(l.part) : l.part[p].block \in 1 .. Len(l.mem)

\* The inductive invariant, for a list and its parts in order.
Linked(l, s) ==
    /\ InBlocks(l) /\ IsChain(l, s) /\ NoneEmpty(l, s) /\ LastIsEnd(l, s)
    /\ Written(l, s) /\ Apart(l, s)

\* The parts, and their fields.
LEMMA PartType ==
    ASSUME NEW l, InBlocks(l), NEW p \in 1 .. Len(l.part)
    PROVE  /\ l.part[p] \in Part
           /\ l.part[p].block \in Nat /\ l.part[p].off \in Nat
           /\ l.part[p].nelts \in Nat /\ l.part[p].next \in Nat
           /\ l.part[p].block \in 1 .. Len(l.mem)
           /\ l.mem[l.part[p].block] \in Seq(Cell)
<1>1. l \in Lists
  BY DEF InBlocks
<1>2. l.part \in Seq(Part) /\ l.mem \in Seq(Seq(Cell))
  BY <1>1 DEF Lists
<1>3. l.part[p] \in Part
  BY <1>2
<1>4. l.part[p].block \in 1 .. Len(l.mem)
  BY DEF InBlocks
<1>5. l.mem[l.part[p].block] \in Seq(Cell)
  BY <1>2, <1>4
<1> QED
  BY <1>3, <1>4, <1>5 DEF Part

\* The numbers of the parts of a chain.
LEMMA ChainType ==
    ASSUME NEW l, InBlocks(l), NEW s, IsChain(l, s)
    PROVE  /\ Len(l.part) \in Nat \ {0} /\ Len(s) \in Nat \ {0}
           /\ \A k \in 1 .. Len(s) : s[k] \in 1 .. Len(l.part) /\ s[k] # Null
           /\ 1 \in 1 .. Len(s) /\ Len(s) \in 1 .. Len(s) /\ s[1] = First
<1>1. l.part \in Seq(Part)
  BY DEF InBlocks, Lists
<1>2. s \in Seq(1 .. Len(l.part)) /\ Len(s) >= 1 /\ s[1] = First
  BY DEF IsChain
<1>3. Len(l.part) \in Nat /\ Len(s) \in Nat
  BY <1>1, <1>2
<1>4. \A k \in 1 .. Len(s) : s[k] \in 1 .. Len(l.part)
  BY <1>2
<1>5. 1 \in 1 .. Len(s)
  BY <1>2, <1>3
<1> QED
  BY <1>2, <1>3, <1>4, <1>5 DEF Null

\* A part that was written has headers for elements.
LEMMA EltsType ==
    ASSUME NEW l, InBlocks(l), NEW p \in 1 .. Len(l.part), InMem(l, p)
    PROVE  /\ Elts(l, p) \in Seq(Header) /\ Len(Elts(l, p)) = l.part[p].nelts
           /\ \A x \in 1 .. l.part[p].nelts :
                Elts(l, p)[x] = l.mem[l.part[p].block][l.part[p].off + x]
<1>1. l.part[p].nelts \in Nat
  BY PartType
<1>2. \A x \in 1 .. l.part[p].nelts : l.mem[l.part[p].block][l.part[p].off + x] \in Header
  BY DEF InMem
<1> DEFINE n == l.part[p].nelts
           c(x) == l.mem[l.part[p].block][l.part[p].off + x]
           f == [x \in 1 .. n |-> c(x)]
<1>3. Elts(l, p) = f
  BY DEF Elts
<1>4. n \in Nat /\ \A x \in 1 .. n : c(x) \in Header
  BY <1>1, <1>2
<1> HIDE DEF n, c
<1>5. f \in Seq(Header) /\ Len(f) = n /\ \A x \in 1 .. n : f[x] = c(x)
  BY <1>4
<1> HIDE DEF f
<1> QED
  BY <1>3, <1>5 DEF n, c

\* The elements of part p are the headers it lies over.
EltsAre(l, p) ==
    /\ Elts(l, p) \in Seq(Header) /\ Len(Elts(l, p)) = l.part[p].nelts
    /\ \A x \in 1 .. l.part[p].nelts :
         Elts(l, p)[x] = l.mem[l.part[p].block][l.part[p].off + x]

\* The same for a part that was written.
LEMMA EltsIs ==
    ASSUME NEW l, InBlocks(l), NEW p \in 1 .. Len(l.part), InMem(l, p)
    PROVE  EltsAre(l, p)
BY EltsType DEF EltsAre

-----------------------------------------------------------------------------
(* What a linked list holds, and a list with one header less.              *)

\* The elements of each part of s.
EltsOf(l, s) == [k \in 1 .. Len(s) |-> Elts(l, s[k])]

\* The parts hold nelts headers each.
AllHeaders(l, s) ==
    /\ Len(s) \in Nat \ {0}
    /\ \A k \in 1 .. Len(s) : /\ EltsOf(l, s)[k] = Elts(l, s[k])
                              /\ EltsOf(l, s)[k] \in Seq(Header)
                              /\ Len(EltsOf(l, s)[k]) = l.part[s[k]].nelts

\* What a list holds whose parts were written: their elements, all headers.
LEMMA ContentsOfParts ==
    ASSUME NEW l, NEW s, InBlocks(l), IsChain(l, s), Written(l, s)
    PROVE  /\ \E pre : IsCat(pre, EltsOf(l, s), Len(s), Header) /\ Contents(l) = pre[Len(s)]
           /\ Contents(l) \in Seq(Header)
           /\ AllHeaders(l, s)
<1>1. InBlocks(l) /\ IsChain(l, s) /\ Written(l, s)
  OBVIOUS
<1>2. /\ Len(l.part) \in Nat \ {0} /\ Len(s) \in Nat \ {0}
      /\ \A k \in 1 .. Len(s) : s[k] \in 1 .. Len(l.part)
  BY <1>1, ChainType
<1>3. \A k \in 1 .. Len(s) :
         Elts(l, s[k]) \in Seq(Header) /\ Len(Elts(l, s[k])) = l.part[s[k]].nelts
  <2>1. SUFFICES ASSUME NEW k \in 1 .. Len(s)
                 PROVE  Elts(l, s[k]) \in Seq(Header) /\ Len(Elts(l, s[k])) = l.part[s[k]].nelts
    OBVIOUS
  <2>2. PICK p \in 1 .. Len(l.part) : p = s[k]
    BY <1>2
  <2>3. InMem(l, p)
    BY <1>1, <2>2 DEF Written
  <2>4. Elts(l, p) \in Seq(Header) /\ Len(Elts(l, p)) = l.part[p].nelts
    BY <1>1, <2>3, EltsType
  <2> QED
    BY <2>2, <2>4
<1>4. PICK pre : /\ IsCat(pre, [k \in 1 .. Len(s) |-> Elts(l, s[k])], Len(s), Header)
                 /\ Contents(l) = pre[Len(s)]
  BY <1>1, <1>2, <1>3, ContentsIs
<1>5. IsCat(pre, EltsOf(l, s), Len(s), Header)
  BY <1>4 DEF EltsOf
<1>6. Len(s) \in 0 .. Len(s)
  BY <1>2
<1>7. Contents(l) \in Seq(Header)
  BY <1>4, <1>5, <1>6 DEF IsCat
<1>8. \A k \in 1 .. Len(s) : EltsOf(l, s)[k] = Elts(l, s[k])
  BY DEF EltsOf
<1> QED
  BY <1>2, <1>3, <1>4, <1>5, <1>7, <1>8 DEF AllHeaders

\* And what a linked list holds.
LEMMA ContentsOf ==
    ASSUME NEW l, NEW s, Linked(l, s)
    PROVE  /\ \E pre : IsCat(pre, EltsOf(l, s), Len(s), Header) /\ Contents(l) = pre[Len(s)]
           /\ Contents(l) \in Seq(Header)
           /\ AllHeaders(l, s)
<1>1. InBlocks(l) /\ IsChain(l, s) /\ Written(l, s)
  BY DEF Linked
<1> QED
  BY <1>1, ContentsOfParts

\* m is l without one header, that is h.
Cut(l, m, h) ==
    /\ \E t : Linked(m, t)
    /\ \E q \in 1 .. Len(Contents(l)) :
          /\ Contents(l)[q] = h
          /\ Contents(m) = RemoveAt(Contents(l), q)

\* The part at j loses its element i, goes, or becomes two; the others keep
\* their elements and their order, d places on.
CutAt(l, s, m, t, j, i, d) ==
    /\ Len(t) = Len(s) + d
    /\ j \in 1 .. Len(s) /\ i \in 1 .. Len(Elts(l, s[j]))
    /\ \A k \in 1 .. j - 1 : Elts(m, t[k]) = Elts(l, s[k])
    /\ \A k \in j + 1 .. Len(s) : Elts(m, t[k + d]) = Elts(l, s[k])
    /\ d = 0 => Elts(m, t[j]) = RemoveAt(Elts(l, s[j]), i)
    /\ d = -1 => Len(Elts(l, s[j])) = 1
    /\ d = 1 => Elts(m, t[j]) \o Elts(m, t[j + 1]) = RemoveAt(Elts(l, s[j]), i)

\* That takes the element out of the contents of the list.
LEMMA CutBy ==
    ASSUME NEW l, NEW s, Linked(l, s), NEW m, NEW t, Linked(m, t),
           NEW j, NEW i, NEW d \in -1 .. 1, CutAt(l, s, m, t, j, i, d)
    PROVE  Cut(l, m, Elts(l, s[j])[i])
<1> DEFINE e == EltsOf(l, s)
           f == EltsOf(m, t)
           n == Len(s)
<1>0. j \in 1 .. n /\ i \in 1 .. Len(Elts(l, s[j])) /\ Len(t) = n + d
  BY DEF CutAt
<1>1. PICK pre : IsCat(pre, e, n, Header) /\ Contents(l) = pre[n]
  BY ContentsOf
<1>2. PICK post : IsCat(post, f, Len(t), Header) /\ Contents(m) = post[Len(t)]
  BY ContentsOf
<1>3. /\ n \in Nat \ {0} /\ Len(t) \in Nat \ {0}
      /\ \A k \in 1 .. n : e[k] = Elts(l, s[k]) /\ e[k] \in Seq(Header)
      /\ \A k \in 1 .. Len(t) : f[k] = Elts(m, t[k]) /\ f[k] \in Seq(Header)
  <2>1. n \in Nat \ {0} /\ \A k \in 1 .. n : e[k] = Elts(l, s[k]) /\ e[k] \in Seq(Header)
    <3>1. AllHeaders(l, s)
      BY ContentsOf
    <3> QED
      BY <3>1 DEF AllHeaders
  <2>2. /\ Len(t) \in Nat \ {0}
        /\ \A k \in 1 .. Len(t) : f[k] = Elts(m, t[k]) /\ f[k] \in Seq(Header)
    <3>1. AllHeaders(m, t)
      BY ContentsOf
    <3> QED
      BY <3>1 DEF AllHeaders
  <2> QED
    BY <2>1, <2>2
<1> HIDE DEF e, f, n
<1>4. IsCat(post, f, n + d, Header) /\ Contents(m) = post[n + d]
  BY <1>0, <1>2
<1>5. n + d \in Nat /\ j \in Nat /\ j >= 1 /\ j <= n /\ j \in 1 .. n
  BY <1>0, <1>3
<1>6. \A k \in j + 1 .. n : f[k + d] = e[k]
  <2>1. SUFFICES ASSUME NEW k \in j + 1 .. n PROVE f[k + d] = e[k]
    OBVIOUS
  <2>2. k + d \in 1 .. Len(t) /\ k \in 1 .. n
    BY <1>0, <1>3, <1>5
  <2>3. Elts(m, t[k + d]) = Elts(l, s[k])
    BY DEF CutAt, n
  <2> QED
    BY <1>3, <2>2, <2>3
<1>7. \A k \in 0 .. j - 1 : post[k] = pre[k]
  <2>1. j - 1 \in Nat /\ j - 1 <= n /\ j - 1 <= n + d
    BY <1>3, <1>5
  <2>2. \A k \in 1 .. j - 1 : e[k] = f[k]
    <3>1. \A k \in 1 .. j - 1 : k \in 1 .. n /\ k \in 1 .. Len(t)
      BY <1>0, <1>3, <1>5
    <3>2. \A k \in 1 .. j - 1 : Elts(m, t[k]) = Elts(l, s[k])
      BY DEF CutAt
    <3> QED
      BY <1>3, <3>1, <3>2
  <2> QED
    <3>1. SameUpTo(pre, post, j - 1)
      BY <1>1, <1>3, <1>4, <1>5, <2>1, <2>2, CatSame
    <3> QED
      BY <3>1 DEF SameUpTo
<1> DEFINE a == pre[j - 1]
           x == e[j]
           q == Len(a) + i
<1>8. /\ a \in Seq(Header) /\ pre[j] = a \o x /\ q \in 1 .. Len(pre[j]) /\ pre[j][q] = x[i]
      /\ x \in Seq(Header) /\ i \in 1 .. Len(x) /\ post[j - 1] = a
  <2>1. i \in 1 .. Len(e[j])
    BY <1>0, <1>3
  <2>2. ElementAt(pre, e, j, i, Header)
    BY <1>1, <1>3, <1>5, <2>1, CatElement
  <2>3. j - 1 \in 0 .. j - 1
    BY <1>5
  <2> QED
    BY <1>3, <1>5, <1>7, <2>1, <2>2, <2>3 DEF ElementAt
<1>9. x = Elts(l, s[j])
  BY <1>3, <1>5
<1> HIDE DEF a, x, q
<1>10. RemoveAt(pre[j], q) = a \o RemoveAt(x, i)
  <2>1. a \o RemoveAt(x, i) = RemoveAt(a \o x, Len(a) + i)
    BY <1>8, RemoveInTail
  <2> QED
    BY <1>8, <2>1 DEF q
<1>11. post[j + d] = RemoveAt(pre[j], q)
  <2>1. CASE d = 0
    <3>1. j + d = j /\ j \in 1 .. Len(t)
      BY <1>0, <1>3, <1>5, <2>1
    <3>2. post[j] = post[j - 1] \o f[j]
      BY <1>2, <3>1 DEF IsCat
    <3>3. f[j] = RemoveAt(x, i)
      BY <1>3, <1>9, <2>1, <3>1 DEF CutAt
    <3> QED
      BY <1>8, <1>10, <3>1, <3>2, <3>3
  <2>2. CASE d = -1
    <3>1. j + d = j - 1 /\ Len(x) = 1 /\ i = 1
      <4>1. Len(x) = 1
        BY <1>9, <2>2 DEF CutAt
      <4> QED
        BY <1>5, <1>8, <2>2, <4>1
    <3>2. RemoveAt(x, i) = <<>>
      <4>1. RemoveAt(x, i) \in Seq(Header) /\ Len(RemoveAt(x, i)) = Len(x) - 1
        BY <1>8, RemoveAtIs
      <4> QED
        BY <3>1, <4>1
    <3>3. a \o <<>> = a
      BY <1>8
    <3> QED
      BY <1>8, <1>10, <3>1, <3>2, <3>3
  <2>3. CASE d = 1
    <3>1. j + d = j + 1 /\ j \in 1 .. Len(t) /\ j + 1 \in 1 .. Len(t) /\ (j + 1) - 1 = j
      BY <1>0, <1>3, <1>5, <2>3
    <3>2. post[j] = post[j - 1] \o f[j] /\ post[j + 1] = post[j] \o f[j + 1]
      BY <1>2, <3>1 DEF IsCat
    <3>3. f[j] \in Seq(Header) /\ f[j + 1] \in Seq(Header) /\ f[j] \o f[j + 1] = RemoveAt(x, i)
      BY <1>3, <1>9, <2>3, <3>1 DEF CutAt
    <3>5. (a \o f[j]) \o f[j + 1] = a \o (f[j] \o f[j + 1])
      <4> DEFINE u == f[j]
                 v == f[j + 1]
      <4>1. u \in Seq(Header) /\ v \in Seq(Header)
        BY <3>3
      <4> HIDE DEF u, v
      <4>2. \A b, c, w \in Seq(Header) : (b \o c) \o w = b \o (c \o w)
        BY ConcatAssociative
      <4>3. (a \o u) \o v = a \o (u \o v)
        BY <1>8, <4>1, <4>2, Zenon
      <4> QED
        BY <4>3 DEF u, v
    <3> QED
      BY <1>8, <1>10, <3>1, <3>2, <3>3, <3>5
  <2> QED
    BY <2>1, <2>2, <2>3
<1>12. q \in 1 .. Len(pre[n]) /\ post[n + d] = RemoveAt(pre[n], q)
  <2>1. Removed(pre[j], post[j + d], q)
    BY <1>8, <1>11 DEF Removed
  <2>2. Removed(pre[n], post[n + d], q)
    <3>1. Moved(e, f, j, n, d)
      BY <1>6 DEF Moved
    <3> QED
      BY <1>1, <1>3, <1>4, <1>5, <2>1, <3>1, CatRemove
  <2> QED
    BY <2>2 DEF Removed
<1>13. pre[n][q] = x[i]
  <2>1. \A y \in 1 .. Len(pre[j]) : pre[n][y] = pre[j][y]
    <3>1. j \in 0 .. n
      BY <1>5
    <3>2. IsBeginning(pre[j], pre[n])
      BY <1>1, <1>3, <3>1, CatBegins
    <3> QED
      BY <3>2 DEF IsBeginning
  <2> QED
    BY <1>8, <2>1
<1> QED
  BY <1>1, <1>4, <1>9, <1>12, <1>13 DEF Cut

\* The parts of m, in the order t, lie within the parts r of l, in the same order.
LiesIn(l, s, m, t, r) ==
    /\ m.mem = l.mem
    /\ r \in [1 .. Len(t) -> 1 .. Len(s)]
    /\ \A k \in 1 .. Len(t) :
          /\ m.part[t[k]].block = l.part[s[r[k]]].block
          /\ m.part[t[k]].off >= l.part[s[r[k]]].off
          /\ m.part[t[k]].off + m.part[t[k]].nelts <=
                l.part[s[r[k]]].off + l.part[s[r[k]]].nelts
    /\ \A i, k \in 1 .. Len(t) : i < k =>
          \/ r[i] < r[k]
          \/ m.part[t[i]].off + m.part[t[i]].nelts <= m.part[t[k]].off

\* Then they were written, and are apart, too.
LEMMA Within ==
    ASSUME NEW l, NEW s, Linked(l, s), NEW m, NEW t, InBlocks(m), IsChain(m, t),
           NEW r, LiesIn(l, s, m, t, r)
    PROVE  Written(m, t) /\ Apart(m, t)
<1>1. InBlocks(l) /\ IsChain(l, s) /\ Written(l, s) /\ Apart(l, s)
  BY DEF Linked
<1>2. \A k \in 1 .. Len(s) : s[k] \in 1 .. Len(l.part)
  BY <1>1, ChainType
<1>3. \A k \in 1 .. Len(t) : t[k] \in 1 .. Len(m.part)
  BY ChainType
<1>4. ASSUME NEW k \in 1 .. Len(t)
      PROVE  InMem(m, t[k])
  <2> DEFINE o == m.part[t[k]].off
             n == m.part[t[k]].nelts
             o2 == l.part[s[r[k]]].off
             n2 == l.part[s[r[k]]].nelts
             b == l.mem[l.part[s[r[k]]].block]
  <2>1. PICK p \in 1 .. Len(m.part) : p = t[k]
    BY <1>3
  <2>2. PICK p2 \in 1 .. Len(l.part) : p2 = s[r[k]]
    BY <1>2 DEF LiesIn
  <2>3. o \in Nat /\ n \in Nat
    BY <2>1, PartType
  <2>4. o2 \in Nat /\ n2 \in Nat /\ b \in Seq(Cell)
    BY <1>1, <2>2, PartType, Zenon
  <2>5. o >= o2 /\ o + n <= o2 + n2
    BY DEF LiesIn
  <2>6. o2 + n2 <= Len(b) /\ \A x \in 1 .. n2 : b[o2 + x] \in Header
    <3>1. InMem(l, s[r[k]])
      BY <1>1 DEF Written, LiesIn
    <3> QED
      BY <3>1, Zenon DEF InMem
  <2>7. m.mem[m.part[t[k]].block] = b
    BY DEF LiesIn
  <2> HIDE DEF o, n, o2, n2, b
  <2>8. Len(b) \in Nat
    BY <2>4
  <2>9. o + n <= Len(b)
    BY <2>3, <2>4, <2>5, <2>6, <2>8
  <2>10. ASSUME NEW x \in 1 .. n
         PROVE  b[o + x] \in Header
    <3>1. (o - o2) + x \in 1 .. n2 /\ o2 + ((o - o2) + x) = o + x
      BY <2>3, <2>4, <2>5
    <3> QED
      BY <2>6, <3>1
  <2> QED
    BY <2>7, <2>9, <2>10 DEF InMem, o, n
<1>5. ASSUME NEW i \in 1 .. Len(t), NEW k \in 1 .. Len(t), i < k,
             m.part[t[i]].block = m.part[t[k]].block
      PROVE  m.part[t[i]].off + m.part[t[i]].nelts <= m.part[t[k]].off
  <2>1. SUFFICES ASSUME r[i] < r[k]
                 PROVE  m.part[t[i]].off + m.part[t[i]].nelts <= m.part[t[k]].off
    BY <1>5 DEF LiesIn
  <2>2. /\ m.part[t[i]].off + m.part[t[i]].nelts <= l.part[s[r[i]]].off + l.part[s[r[i]]].nelts
        /\ m.part[t[k]].off >= l.part[s[r[k]]].off
        /\ l.part[s[r[i]]].block = l.part[s[r[k]]].block
    BY <1>5 DEF LiesIn
  <2>3. l.part[s[r[i]]].off + l.part[s[r[i]]].nelts <= l.part[s[r[k]]].off
    BY <1>1, <2>1, <2>2 DEF Apart, LiesIn
  <2>4. PICK p \in 1 .. Len(m.part), p2 \in 1 .. Len(m.part) : p = t[i] /\ p2 = t[k]
    BY <1>3
  <2>5. PICK u \in 1 .. Len(l.part), u2 \in 1 .. Len(l.part) : u = s[r[i]] /\ u2 = s[r[k]]
    BY <1>2 DEF LiesIn
  <2>6. m.part[t[i]].off \in Nat /\ m.part[t[i]].nelts \in Nat /\ m.part[t[k]].off \in Nat
    BY <2>4, PartType
  <2>7. /\ l.part[s[r[i]]].off \in Nat /\ l.part[s[r[i]]].nelts \in Nat
        /\ l.part[s[r[k]]].off \in Nat
    BY <1>1, <2>5, PartType
  <2>8. \A a, b, c, d, e, f \in Nat : a + b <= c + d /\ c + d <= f /\ e >= f => a + b <= e
    OBVIOUS
  <2> QED
    BY <2>2, <2>3, <2>6, <2>7, <2>8
<1>6. Written(m, t)
  BY <1>4 DEF Written
<1>7. Apart(m, t)
  BY <1>5 DEF Apart
<1> QED
  BY <1>6, <1>7

-----------------------------------------------------------------------------
(* A part that loses an element at one end.                                *)

\* A part that lies where another one did has its elements.
LEMMA EltsSame ==
    ASSUME NEW l, NEW m, NEW u, NEW v, m.mem = l.mem,
           m.part[u].block = l.part[v].block, m.part[u].off = l.part[v].off,
           m.part[u].nelts = l.part[v].nelts
    PROVE  Elts(m, u) = Elts(l, v)
BY DEF Elts

\* m is l with other values in part p.
Edited(l, m, p, o, n, x) ==
    /\ m \in Lists /\ m.mem = l.mem /\ Len(m.part) = Len(l.part)
    /\ \A u \in 1 .. Len(l.part) : u # p => m.part[u] = l.part[u]
    /\ m.part[p].block = l.part[p].block /\ m.part[p].off = o
    /\ m.part[p].nelts = n /\ m.part[p].next = x

\* m is l with part p replaced by q, and last by z.
Becomes(l, m, p, q, z, a) ==
    /\ Edited(l, m, p, q.off, q.nelts, q.next) /\ InBlocks(m)
    /\ m.last = z /\ m.nalloc = a

\* Parts may be edited.
LEMMA EditIs ==
    ASSUME NEW l, InBlocks(l), NEW p \in 1 .. Len(l.part),
           NEW q \in Part, q.block = l.part[p].block, NEW a \in Int,
           NEW z \in 1 .. Len(l.part), NEW m,
           m = [l EXCEPT !.part = [l.part EXCEPT ![p] = q], !.last = z, !.nalloc = a]
    PROVE  Becomes(l, m, p, q, z, a)
<1> DEFINE P == [l.part EXCEPT ![p] = q]
<1>1. l \in Lists /\ l.part \in Seq(Part) /\ l.mem \in Seq(Seq(Cell))
  BY DEF InBlocks, Lists
<1>2. l.part[p].block \in 1 .. Len(l.mem)
  BY PartType
<1>3. /\ P \in Seq(Part) /\ Len(P) = Len(l.part)
      /\ \A u \in 1 .. Len(l.part) : P[u] = IF u = p THEN q ELSE l.part[u]
  BY <1>1, ExceptSeq
<1>4. m = [l EXCEPT !.part = P, !.last = z, !.nalloc = a]
  OBVIOUS
<1> HIDE DEF P
<1>5. z \in Nat
  OBVIOUS
<1>6. m.part = P /\ m.last = z /\ m.nalloc = a /\ m.mem = l.mem
  BY <1>1, <1>4 DEF Lists
<1>7. m \in Lists
  BY <1>1, <1>3, <1>4, <1>5 DEF Lists
<1>8. \A u \in 1 .. Len(m.part) : m.part[u].block \in 1 .. Len(m.mem)
  BY <1>2, <1>3, <1>6 DEF InBlocks
<1>9. InBlocks(m)
  BY <1>3, <1>6, <1>7, <1>8 DEF InBlocks
<1>10. Edited(l, m, p, q.off, q.nelts, q.next)
  BY <1>3, <1>6, <1>7 DEF Edited
<1> QED
  BY <1>6, <1>9, <1>10 DEF Becomes

\* A part that starts later or ends earlier keeps its place in the list.
LEMMA ShrunkLinked ==
    ASSUME NEW l, NEW s, Linked(l, s), NEW m, NEW j \in 1 .. Len(s),
           NEW o \in Nat, NEW n \in Nat,
           Edited(l, m, s[j], o, n, l.part[s[j]].next), InBlocks(m), m.last = l.last,
           o >= l.part[s[j]].off, o + n <= l.part[s[j]].off + l.part[s[j]].nelts,
           n > 0 \/ Len(s) = 1
    PROVE  Linked(m, s)
<1> DEFINE p == s[j]
<1>1. InBlocks(l) /\ IsChain(l, s) /\ NoneEmpty(l, s) /\ LastIsEnd(l, s)
  BY DEF Linked
<1>2. /\ Len(s) \in Nat \ {0}
      /\ \A k \in 1 .. Len(s) : s[k] \in 1 .. Len(l.part)
  BY <1>1, ChainType
<1>3. /\ m.mem = l.mem /\ Len(m.part) = Len(l.part)
      /\ \A u \in 1 .. Len(l.part) : u # p => m.part[u] = l.part[u]
      /\ m.part[p].block = l.part[p].block /\ m.part[p].off = o
      /\ m.part[p].nelts = n /\ m.part[p].next = l.part[p].next
  BY DEF Edited
<1>4. \A k \in 1 .. Len(s) : m.part[s[k]].next = l.part[s[k]].next
  BY <1>2, <1>3
<1>5. IsChain(m, s)
  <2>1. /\ s \in Seq(1 .. Len(m.part)) /\ Len(s) >= 1 /\ s[1] = First
        /\ \A i, k \in 1 .. Len(s) : s[i] = s[k] => i = k
    BY <1>1, <1>3 DEF IsChain
  <2>2. \A i \in 1 .. Len(s) - 1 : m.part[s[i]].next = s[i + 1]
    <3>1. \A i \in 1 .. Len(s) - 1 : i \in 1 .. Len(s) /\ l.part[s[i]].next = s[i + 1]
      BY <1>1, <1>2 DEF IsChain
    <3> QED
      BY <1>4, <3>1
  <2>3. m.part[s[Len(s)]].next = Null
    <3>1. l.part[s[Len(s)]].next = Null
      BY <1>1 DEF IsChain
    <3>2. Len(s) \in 1 .. Len(s)
      BY <1>2
    <3> QED
      BY <1>4, <3>1, <3>2
  <2> QED
    BY <2>1, <2>2, <2>3 DEF IsChain
<1>6. NoneEmpty(m, s)
  <2>1. ASSUME Len(s) > 1, NEW k \in 1 .. Len(s)
        PROVE  m.part[s[k]].nelts > 0
    <3>1. n > 0
      BY <1>2, <2>1
    <3>2. l.part[s[k]].nelts > 0
      BY <1>1, <2>1 DEF NoneEmpty
    <3> QED
      BY <1>2, <1>3, <3>1, <3>2
  <2> QED
    BY <2>1 DEF NoneEmpty
<1>7. LastIsEnd(m, s)
  BY <1>1 DEF LastIsEnd
<1>8. Written(m, s) /\ Apart(m, s)
  <2> DEFINE r == [k \in 1 .. Len(s) |-> k]
  <2>1. r \in [1 .. Len(s) -> 1 .. Len(s)] /\ \A k \in 1 .. Len(s) : r[k] = k
    OBVIOUS
  <2> HIDE DEF r
  <2>2. ASSUME NEW k \in 1 .. Len(s)
        PROVE  /\ m.part[s[k]].block = l.part[s[k]].block
               /\ m.part[s[k]].off >= l.part[s[k]].off
               /\ m.part[s[k]].off + m.part[s[k]].nelts <= l.part[s[k]].off + l.part[s[k]].nelts
    <3>1. PICK u \in 1 .. Len(l.part) : u = s[k]
      BY <1>2
    <3>2. l.part[u].off \in Nat /\ l.part[u].nelts \in Nat
      BY <1>1, PartType
    <3>3. CASE u = p
      BY <1>3, <3>1, <3>3
    <3>4. CASE u # p
      <4>1. m.part[u] = l.part[u]
        BY <1>3, <3>4
      <4> QED
        <5>1. \A a, b \in Nat : a >= a /\ a + b <= a + b
          OBVIOUS
        <5>2. /\ l.part[u].off >= l.part[u].off
              /\ l.part[u].off + l.part[u].nelts <= l.part[u].off + l.part[u].nelts
          BY <3>2, <5>1
        <5> QED
          BY <3>1, <4>1, <5>2
    <3> QED
      BY <3>3, <3>4
  <2>3. LiesIn(l, s, m, s, r)
    BY <1>3, <2>1, <2>2 DEF LiesIn
  <2> QED
    BY <1>5, <2>3, Within
<1> QED
  BY <1>5, <1>6, <1>7, <1>8 DEF Linked

\* And the list loses what the part loses.
LEMMA ShrunkCut ==
    ASSUME NEW l, NEW s, Linked(l, s), NEW m, NEW j \in 1 .. Len(s), NEW i,
           i \in 1 .. Len(Elts(l, s[j])), Linked(m, s),
           NEW o, NEW n, NEW x, Edited(l, m, s[j], o, n, x),
           Elts(m, s[j]) = RemoveAt(Elts(l, s[j]), i)
    PROVE  Cut(l, m, Elts(l, s[j])[i])
<1>1. InBlocks(l) /\ IsChain(l, s)
  BY DEF Linked
<1>2. /\ Len(s) \in Nat \ {0}
      /\ \A k \in 1 .. Len(s) : s[k] \in 1 .. Len(l.part)
  BY <1>1, ChainType
<1>3. ASSUME NEW k \in 1 .. Len(s), k # j
      PROVE  Elts(m, s[k]) = Elts(l, s[k])
  <2>1. s[k] # s[j]
    BY <1>1, <1>3 DEF IsChain
  <2>2. m.part[s[k]] = l.part[s[k]] /\ m.mem = l.mem
    BY <1>2, <2>1 DEF Edited
  <2> QED
    BY <2>2, EltsSame
<1>4. Len(s) = Len(s) + 0 /\ 0 \in -1 .. 1
  BY <1>2
<1>5. \A k \in 1 .. j - 1 : k \in 1 .. Len(s) /\ k # j
  BY <1>2
<1>6. \A k \in j + 1 .. Len(s) : k \in 1 .. Len(s) /\ k # j /\ k + 0 = k
  BY <1>2
<1>7. \A k \in j + 1 .. Len(s) : Elts(m, s[k + 0]) = Elts(l, s[k])
  BY <1>3, <1>6
<1>8. CutAt(l, s, m, s, j, i, 0)
  BY <1>3, <1>4, <1>5, <1>7 DEF CutAt
<1> QED
  BY <1>4, <1>8, CutBy

\* The first element of a part goes.
LEMMA FirstGone ==
    ASSUME NEW l, InBlocks(l), NEW p \in 1 .. Len(l.part), InMem(l, p),
           l.part[p].nelts > 1, NEW m, InBlocks(m), NEW x,
           Edited(l, m, p, l.part[p].off + 1, l.part[p].nelts - 1, x), InMem(m, p)
    PROVE  Elts(m, p) = RemoveAt(Elts(l, p), 1)
<1> DEFINE a == Elts(l, p)
           c == Elts(m, p)
           r == RemoveAt(a, 1)
           n == l.part[p].nelts
           o == l.part[p].off
           b == l.mem[l.part[p].block]
<1>1. n \in Nat /\ o \in Nat /\ n > 1
  BY PartType
<1>2. a \in Seq(Header) /\ Len(a) = n /\ \A y \in 1 .. n : a[y] = b[o + y]
  BY EltsType
<1>3. /\ Len(m.part) = Len(l.part) /\ m.part[p].off = o + 1 /\ m.part[p].nelts = n - 1
      /\ m.mem[m.part[p].block] = b
  BY DEF Edited
<1>4. c \in Seq(Header) /\ Len(c) = n - 1 /\ \A y \in 1 .. n - 1 : c[y] = b[(o + 1) + y]
  <2>1. p \in 1 .. Len(m.part)
    BY <1>3
  <2>2. /\ c \in Seq(Header) /\ Len(c) = m.part[p].nelts
        /\ \A y \in 1 .. m.part[p].nelts : c[y] = m.mem[m.part[p].block][m.part[p].off + y]
    BY <2>1, EltsType
  <2> QED
    BY <1>3, <2>2
<1> HIDE DEF a, b, c, n, o
<1>5. 1 \in 1 .. Len(a)
  BY <1>1, <1>2
<1>6. r \in Seq(Header) /\ Len(r) = n - 1 /\ \A y \in 1 .. n - 1 : r[y] = a[y + 1]
  <2>1. /\ r \in Seq(Header) /\ Len(r) = Len(a) - 1
        /\ \A y \in 1 .. Len(a) - 1 : r[y] = IF y < 1 THEN a[y] ELSE a[y + 1]
    BY <1>2, <1>5, RemoveAtIs
  <2> QED
    BY <1>1, <1>2, <2>1
<1> HIDE DEF r
<1>7. ASSUME NEW y \in 1 .. n - 1
      PROVE  c[y] = r[y]
  <2>1. y + 1 \in 1 .. n /\ (o + 1) + y = o + (y + 1)
    BY <1>1
  <2> QED
    BY <1>2, <1>4, <1>6, <2>1
<1>8. c = r
  BY <1>4, <1>6, <1>7, SeqEqual
<1> QED
  BY <1>8 DEF a, c, r

\* The last element of a part goes.
LEMMA LastGone ==
    ASSUME NEW l, InBlocks(l), NEW p \in 1 .. Len(l.part), InMem(l, p),
           l.part[p].nelts > 0, NEW m, InBlocks(m), NEW x,
           Edited(l, m, p, l.part[p].off, l.part[p].nelts - 1, x), InMem(m, p)
    PROVE  Elts(m, p) = RemoveAt(Elts(l, p), l.part[p].nelts)
<1> DEFINE a == Elts(l, p)
           c == Elts(m, p)
           n == l.part[p].nelts
           r == RemoveAt(a, n)
           o == l.part[p].off
           b == l.mem[l.part[p].block]
<1>1. n \in Nat /\ o \in Nat
  BY PartType
<1>2. a \in Seq(Header) /\ Len(a) = n /\ \A y \in 1 .. n : a[y] = b[o + y]
  BY EltsType
<1>3. /\ Len(m.part) = Len(l.part) /\ m.part[p].off = o /\ m.part[p].nelts = n - 1
      /\ m.mem[m.part[p].block] = b
  BY DEF Edited
<1>4. c \in Seq(Header) /\ Len(c) = n - 1 /\ \A y \in 1 .. n - 1 : c[y] = b[o + y]
  <2>1. p \in 1 .. Len(m.part)
    BY <1>3
  <2>2. /\ c \in Seq(Header) /\ Len(c) = m.part[p].nelts
        /\ \A y \in 1 .. m.part[p].nelts : c[y] = m.mem[m.part[p].block][m.part[p].off + y]
    BY <2>1, EltsType
  <2> QED
    BY <1>3, <2>2
<1>5. n \in 1 .. n
  BY <1>1
<1> HIDE DEF a, b, c, n
<1>6. r \in Seq(Header) /\ Len(r) = n - 1 /\ \A y \in 1 .. n - 1 : r[y] = a[y]
  <2>1. /\ r \in Seq(Header) /\ Len(r) = Len(a) - 1
        /\ \A y \in 1 .. Len(a) - 1 : r[y] = IF y < n THEN a[y] ELSE a[y + 1]
    <3>1. n \in 1 .. Len(a)
      BY <1>2, <1>5
    <3> QED
      BY <1>2, <3>1, RemoveAtIs
  <2> QED
    BY <1>1, <1>2, <2>1
<1> HIDE DEF r
<1>7. ASSUME NEW y \in 1 .. n - 1
      PROVE  c[y] = r[y]
  <2>1. y \in 1 .. n
    BY <1>1
  <2> QED
    BY <1>2, <1>4, <1>6, <2>1
<1>8. c = r
  BY <1>4, <1>6, <1>7, SeqEqual
<1> QED
  BY <1>8 DEF a, c, r, n

-----------------------------------------------------------------------------
(* The first part, overwritten by the second.                              *)

\* The embedded first part is overwritten by a copy of the second.
FirstCopied(l, s, m) ==
    /\ Len(s) > 1 /\ InBlocks(m) /\ m.mem = l.mem /\ m.last = l.last
    /\ Len(m.part) = Len(l.part) /\ m.part[First] = l.part[s[2]]
    /\ \A u \in 1 .. Len(l.part) : u # First => m.part[u] = l.part[u]

\* That takes the element of the first part out.
LEMMA FirstDropped ==
    ASSUME NEW l, NEW s, Linked(l, s), NEW m, FirstCopied(l, s, m),
           l.part[First].nelts = 1
    PROVE  Cut(l, m, Elts(l, First)[1])
<1> DEFINE n == Len(s)
           t == [k \in 1 .. n - 1 |-> IF k = 1 THEN First ELSE s[k + 1]]
           r == [k \in 1 .. n - 1 |-> k + 1]
<1>1. InBlocks(l) /\ IsChain(l, s) /\ NoneEmpty(l, s) /\ LastIsEnd(l, s) /\ Written(l, s)
  BY DEF Linked
<1>2. /\ n \in Nat \ {0} /\ n > 1 /\ s[1] = First
      /\ \A k \in 1 .. n : s[k] \in 1 .. Len(l.part)
  BY <1>1, ChainType DEF FirstCopied
<1>3. /\ \A i, k \in 1 .. n : s[i] = s[k] => i = k
      /\ \A i \in 1 .. n - 1 : l.part[s[i]].next = s[i + 1]
      /\ l.part[s[n]].next = Null
  BY <1>1 DEF IsChain
<1>4. /\ InBlocks(m) /\ m.mem = l.mem /\ m.last = l.last /\ Len(m.part) = Len(l.part)
      /\ m.part[First] = l.part[s[2]]
      /\ \A u \in 1 .. Len(l.part) : u # First => m.part[u] = l.part[u]
  BY DEF FirstCopied
<1> HIDE DEF n
<1>5. First \in 1 .. Len(m.part)
  <2>1. 1 \in 1 .. n
    BY <1>2
  <2> QED
    BY <1>2, <1>4, <2>1
<1>6. \A k \in 1 .. n - 1 : k + 1 \in 1 .. n /\ s[k + 1] \in 1 .. Len(m.part)
  BY <1>2, <1>4
<1>7. t \in Seq(1 .. Len(m.part)) /\ Len(t) = n - 1
  BY <1>2, <1>5, <1>6
<1>8. /\ t[1] = First
      /\ \A k \in 1 .. n - 1 : k # 1 => t[k] = s[k + 1]
  BY <1>2
<1> HIDE DEF t
<1>9. \A k \in 1 .. n - 1 : s[k + 1] # First
  <2>1. SUFFICES ASSUME NEW k \in 1 .. n - 1 PROVE s[k + 1] # s[1]
    BY <1>2
  <2>2. 1 \in 1 .. n /\ k + 1 \in 1 .. n /\ k + 1 # 1
    BY <1>2
  <2> QED
    BY <1>3, <2>2
<1>10. \A k \in 1 .. n - 1 : m.part[t[k]] = l.part[s[k + 1]]
  <2>1. SUFFICES ASSUME NEW k \in 1 .. n - 1 PROVE m.part[t[k]] = l.part[s[k + 1]]
    OBVIOUS
  <2>2. CASE k = 1
    BY <1>4, <1>8, <2>2
  <2>3. CASE k # 1
    BY <1>4, <1>6, <1>8, <1>9, <2>3
  <2> QED
    BY <2>2, <2>3
<1>11. IsChain(m, t)
  <2>1. \A i, k \in 1 .. Len(t) : t[i] = t[k] => i = k
    <3>1. SUFFICES ASSUME NEW i \in 1 .. n - 1, NEW k \in 1 .. n - 1, t[i] = t[k]
                   PROVE  i = k
      BY <1>7
    <3>2. CASE i = 1 \/ k = 1
      BY <1>8, <1>9, <3>1, <3>2
    <3>3. CASE i # 1 /\ k # 1
      <4>1. s[i + 1] = s[k + 1]
        BY <1>8, <3>1, <3>3
      <4>2. i + 1 = k + 1
        BY <1>3, <1>6, <4>1
      <4> QED
        BY <4>2
    <3> QED
      BY <3>2, <3>3
  <2>2. ASSUME NEW i \in 1 .. Len(t) - 1
        PROVE  m.part[t[i]].next = t[i + 1]
    <3>1. /\ i \in 1 .. n - 1 /\ i + 1 \in 1 .. n - 1 /\ i + 1 # 1
          /\ (i + 1) + 1 \in 1 .. n /\ i + 1 \in 1 .. n
      BY <1>2, <1>7
    <3>2. l.part[s[i + 1]].next = s[(i + 1) + 1]
      BY <1>3, <3>1
    <3>3. t[i + 1] = s[(i + 1) + 1]
      BY <1>8, <3>1
    <3> QED
      BY <1>10, <3>1, <3>2, <3>3
  <2>3. m.part[t[Len(t)]].next = Null
    <3>1. n - 1 \in 1 .. n - 1 /\ (n - 1) + 1 = n
      BY <1>2
    <3> QED
      BY <1>3, <1>7, <1>10, <3>1
  <2>4. Len(t) >= 1
    BY <1>2, <1>7
  <2> QED
    BY <1>7, <1>8, <2>1, <2>2, <2>3, <2>4 DEF IsChain
<1>12. NoneEmpty(m, t)
  <2>1. \A k \in 1 .. n : l.part[s[k]].nelts > 0
    BY <1>1, <1>2 DEF NoneEmpty, n
  <2> QED
    BY <1>6, <1>7, <1>10, <2>1 DEF NoneEmpty
<1>13. LastIsEnd(m, t)
  <2>1. CASE l.last = s[n] /\ n = 2
    <3>1. Len(t) = 1 /\ t[1] = First /\ 1 \in 1 .. n - 1
      BY <1>2, <1>7, <1>8, <2>1
    <3>2. s[1 + 1] # First
      BY <1>9, <3>1
    <3>3. m.last # t[1]
      BY <1>4, <2>1, <3>1, <3>2
    <3>4. \A k \in 1 .. Len(t) : k = 1
      BY <3>1
    <3> QED
      BY <3>3, <3>4 DEF LastIsEnd
  <2>2. CASE l.last = s[n] /\ n # 2
    <3>1. n - 1 \in 1 .. n - 1 /\ n - 1 # 1 /\ (n - 1) + 1 = n
      BY <1>2, <2>2
    <3>2. t[n - 1] = s[n]
      BY <1>8, <3>1
    <3> QED
      BY <1>4, <1>7, <2>2, <3>2 DEF LastIsEnd
  <2>3. CASE \A k \in 1 .. n : l.last # s[k]
    <3>1. ASSUME NEW k \in 1 .. n - 1
          PROVE  m.last # t[k]
      <4>1. 1 \in 1 .. n /\ k + 1 \in 1 .. n
        BY <1>2, <1>6
      <4> QED
        BY <1>2, <1>4, <1>8, <2>3, <4>1
    <3> QED
      BY <1>7, <3>1 DEF LastIsEnd
  <2> QED
    BY <1>1, <2>1, <2>2, <2>3 DEF LastIsEnd, n
<1>14. Written(m, t) /\ Apart(m, t)
  <2>1. r \in [1 .. Len(t) -> 1 .. n] /\ \A k \in 1 .. n - 1 : r[k] = k + 1
    BY <1>6, <1>7
  <2> HIDE DEF r
  <2>2. ASSUME NEW k \in 1 .. Len(t)
        PROVE  /\ m.part[t[k]].block = l.part[s[r[k]]].block
               /\ m.part[t[k]].off >= l.part[s[r[k]]].off
               /\ m.part[t[k]].off + m.part[t[k]].nelts <=
                     l.part[s[r[k]]].off + l.part[s[r[k]]].nelts
    <3>1. m.part[t[k]] = l.part[s[r[k]]]
      BY <1>7, <1>10, <2>1
    <3>2. PICK u \in 1 .. Len(l.part) : u = s[r[k]]
      BY <1>2, <2>1
    <3>3. l.part[u].off \in Nat /\ l.part[u].nelts \in Nat
      BY <1>1, PartType
    <3>4. \A x, y \in Nat : x >= x /\ x + y <= x + y
      OBVIOUS
    <3>5. l.part[u].off >= l.part[u].off /\ l.part[u].off + l.part[u].nelts <= l.part[u].off + l.part[u].nelts
      BY <3>3, <3>4
    <3> QED
      BY <3>1, <3>2, <3>5
  <2>3. \A i, k \in 1 .. Len(t) : i < k => r[i] < r[k]
    BY <1>2, <1>7, <2>1
  <2>4. LiesIn(l, s, m, t, r)
    BY <1>4, <2>1, <2>2, <2>3 DEF LiesIn, n
  <2> QED
    BY <1>4, <1>11, <2>4, Within
<1>15. Linked(m, t)
  BY <1>4, <1>11, <1>12, <1>13, <1>14 DEF Linked
<1>16. 1 \in 1 .. n /\ Len(Elts(l, s[1])) = 1 /\ 1 \in 1 .. Len(Elts(l, s[1]))
  <2>1. 1 \in 1 .. n /\ First \in 1 .. Len(l.part) /\ InMem(l, First)
    BY <1>1, <1>2, <1>4, <1>5 DEF Written, n
  <2>2. Len(Elts(l, First)) = l.part[First].nelts
    BY <1>1, <2>1, EltsType
  <2> QED
    BY <1>2, <2>1, <2>2
<1>17. CutAt(l, s, m, t, 1, 1, -1)
  <2>1. Len(t) = n + (-1)
    BY <1>2, <1>7
  <2>2. \A k \in 1 .. 1 - 1 : FALSE
    OBVIOUS
  <2>3. ASSUME NEW k \in 1 + 1 .. n
        PROVE  Elts(m, t[k + (-1)]) = Elts(l, s[k])
    <3>1. k + (-1) \in 1 .. n - 1 /\ (k + (-1)) + 1 = k
      BY <1>2
    <3>2. m.part[t[k + (-1)]] = l.part[s[k]]
      BY <1>10, <3>1
    <3> QED
      BY <1>4, <3>2, EltsSame
  <2>4. -1 # 0 /\ -1 # 1
    OBVIOUS
  <2> QED
    BY <1>16, <2>1, <2>2, <2>3, <2>4 DEF CutAt, n
<1>18. Cut(l, m, Elts(l, s[1])[1])
  <2>1. -1 \in -1 .. 1
    OBVIOUS
  <2> QED
    BY <1>15, <1>17, <2>1, CutBy
<1> QED
  BY <1>2, <1>18

-----------------------------------------------------------------------------
(* A part that is taken out.                                               *)

\* The part at j is taken out of the chain, its predecessor linked to the next.
PartUnlinked(l, s, m, j) ==
    /\ j \in 2 .. Len(s) /\ InBlocks(m)
    /\ Edited(l, m, s[j - 1], l.part[s[j - 1]].off, l.part[s[j - 1]].nelts, l.part[s[j]].next)
    /\ m.last = IF l.last = s[j] THEN s[j - 1] ELSE l.last

\* That takes its element out.
LEMMA PartDropped ==
    ASSUME NEW l, NEW s, Linked(l, s), NEW m, NEW j, PartUnlinked(l, s, m, j),
           l.part[s[j]].nelts = 1
    PROVE  Cut(l, m, Elts(l, s[j])[1])
<1> DEFINE n == Len(s)
           r == [k \in 1 .. n - 1 |-> IF k < j THEN k ELSE k + 1]
           t == [k \in 1 .. n - 1 |-> s[r[k]]]
           Kept(k) == /\ m.part[s[k]].block = l.part[s[k]].block
                      /\ m.part[s[k]].off = l.part[s[k]].off
                      /\ m.part[s[k]].nelts = l.part[s[k]].nelts
                      /\ k # j - 1 => m.part[s[k]].next = l.part[s[k]].next
<1>1. InBlocks(l) /\ IsChain(l, s) /\ NoneEmpty(l, s) /\ LastIsEnd(l, s) /\ Written(l, s)
  BY DEF Linked
<1>2. /\ n \in Nat \ {0} /\ s[1] = First
      /\ \A k \in 1 .. n : s[k] \in 1 .. Len(l.part)
  BY <1>1, ChainType
<1>3. /\ \A i, k \in 1 .. n : s[i] = s[k] => i = k
      /\ \A i \in 1 .. n - 1 : l.part[s[i]].next = s[i + 1]
      /\ l.part[s[n]].next = Null
  BY <1>1 DEF IsChain
<1>4. j \in 2 .. n /\ InBlocks(m) /\ m.last = IF l.last = s[j] THEN s[j - 1] ELSE l.last
  BY DEF PartUnlinked
<1> HIDE DEF n
<1>5. /\ j \in Nat /\ j >= 2 /\ j <= n /\ n > 1 /\ j \in 1 .. n /\ j - 1 \in 1 .. n
      /\ j - 1 \in 1 .. n - 1 /\ 1 \in 1 .. n
  BY <1>2, <1>4
<1>6. /\ r \in [1 .. n - 1 -> 1 .. n]
      /\ \A k \in 1 .. n - 1 : r[k] = IF k < j THEN k ELSE k + 1
  BY <1>2, <1>5
<1> HIDE DEF r
<1>7. /\ m.mem = l.mem /\ Len(m.part) = Len(l.part)
      /\ \A u \in 1 .. Len(l.part) : u # s[j - 1] => m.part[u] = l.part[u]
      /\ m.part[s[j - 1]].block = l.part[s[j - 1]].block
      /\ m.part[s[j - 1]].off = l.part[s[j - 1]].off
      /\ m.part[s[j - 1]].nelts = l.part[s[j - 1]].nelts
      /\ m.part[s[j - 1]].next = l.part[s[j]].next
  BY DEF PartUnlinked, Edited
<1>8. t \in Seq(1 .. Len(m.part)) /\ Len(t) = n - 1 /\ \A k \in 1 .. n - 1 : t[k] = s[r[k]]
  BY <1>2, <1>6, <1>7
<1> HIDE DEF t
<1>9. \A k \in 1 .. n : Kept(k)
  <2>1. SUFFICES ASSUME NEW k \in 1 .. n PROVE Kept(k)
    OBVIOUS
  <2>2. CASE k = j - 1
    BY <1>7, <2>2
  <2>3. CASE k # j - 1
    <3>1. s[k] # s[j - 1]
      BY <1>3, <1>5, <2>3
    <3>2. m.part[s[k]] = l.part[s[k]]
      BY <1>2, <1>7, <3>1
    <3> QED
      BY <3>2
  <2> QED
    BY <2>2, <2>3
<1> HIDE DEF Kept
<1>10. IsChain(m, t)
  <2>0. t[1] = First
    <3>1. 1 \in 1 .. n - 1 /\ 1 < j
      BY <1>2, <1>5
    <3> QED
      BY <1>2, <1>6, <1>8, <3>1
  <2>1. \A i, k \in 1 .. Len(t) : t[i] = t[k] => i = k
    <3>1. SUFFICES ASSUME NEW i \in 1 .. n - 1, NEW k \in 1 .. n - 1, t[i] = t[k]
                   PROVE  i = k
      BY <1>8
    <3>2. r[i] = r[k]
      <4>1. s[r[i]] = s[r[k]] /\ r[i] \in 1 .. n /\ r[k] \in 1 .. n
        BY <1>6, <1>8, <3>1
      <4> QED
        BY <1>3, <4>1
    <3> QED
      BY <1>5, <1>6, <3>2
  <2>2. ASSUME NEW i \in 1 .. Len(t) - 1
        PROVE  m.part[t[i]].next = t[i + 1]
    <3>1. /\ i \in 1 .. n - 1 /\ i + 1 \in 1 .. n - 1 /\ i \in Nat
          /\ t[i] = s[r[i]] /\ t[i + 1] = s[r[i + 1]]
      <4>1. i \in 1 .. n - 1 /\ i + 1 \in 1 .. n - 1 /\ i \in Nat
        BY <1>2, <1>8
      <4> QED
        BY <1>8, <4>1
    <3>2. CASE i < j - 1
      <4>1. r[i] = i /\ r[i + 1] = i + 1 /\ i # j - 1 /\ i \in 1 .. n
        BY <1>2, <1>5, <1>6, <3>1, <3>2
      <4>2. m.part[s[i]].next = l.part[s[i]].next
        BY <1>9, <4>1 DEF Kept
      <4> QED
        BY <1>3, <3>1, <4>1, <4>2
    <3>3. CASE i = j - 1
      <4>1. r[i] = j - 1 /\ r[i + 1] = j + 1 /\ j \in 1 .. n - 1
        BY <1>2, <1>5, <1>6, <3>1, <3>3
      <4>2. l.part[s[j]].next = s[j + 1]
        BY <1>3, <4>1
      <4> QED
        BY <1>7, <3>1, <4>1, <4>2
    <3>4. CASE i > j - 1
      <4>1. /\ r[i] = i + 1 /\ r[i + 1] = (i + 1) + 1 /\ i + 1 # j - 1
            /\ i + 1 \in 1 .. n /\ i + 1 \in 1 .. n - 1
        BY <1>2, <1>5, <1>6, <3>1, <3>4
      <4>2. m.part[s[i + 1]].next = l.part[s[i + 1]].next
        BY <1>9, <4>1 DEF Kept
      <4>3. l.part[s[i + 1]].next = s[(i + 1) + 1]
        BY <1>3, <4>1
      <4> QED
        BY <3>1, <4>1, <4>2, <4>3
    <3> QED
      BY <1>5, <3>1, <3>2, <3>3, <3>4
  <2>3. m.part[t[Len(t)]].next = Null
    <3>0. n - 1 \in 1 .. n - 1 /\ t[n - 1] = s[r[n - 1]]
      BY <1>2, <1>5, <1>8
    <3>1. CASE j = n
      <4>1. r[n - 1] = j - 1
        BY <1>2, <1>5, <1>6, <3>0, <3>1
      <4> QED
        BY <1>3, <1>7, <1>8, <3>0, <3>1, <4>1
    <3>2. CASE j < n
      <4>1. r[n - 1] = n /\ n # j - 1 /\ n \in 1 .. n
        BY <1>2, <1>5, <1>6, <3>0, <3>2
      <4>2. m.part[s[n]].next = l.part[s[n]].next
        BY <1>9, <4>1 DEF Kept
      <4> QED
        BY <1>3, <1>8, <3>0, <4>1, <4>2
    <3> QED
      BY <1>2, <1>5, <3>1, <3>2
  <2>4. Len(t) >= 1
    BY <1>2, <1>5, <1>8
  <2> QED
    BY <1>8, <2>0, <2>1, <2>2, <2>3, <2>4 DEF IsChain
<1>11. NoneEmpty(m, t)
  <2>1. \A k \in 1 .. n : l.part[s[k]].nelts > 0
    BY <1>1, <1>5 DEF NoneEmpty, n
  <2>2. ASSUME NEW k \in 1 .. Len(t)
        PROVE  m.part[t[k]].nelts > 0
    <3>1. t[k] = s[r[k]] /\ r[k] \in 1 .. n
      BY <1>6, <1>8
    <3>2. Kept(r[k]) /\ l.part[s[r[k]]].nelts > 0
      BY <1>9, <2>1, <3>1
    <3> QED
      BY <3>1, <3>2 DEF Kept
  <2> QED
    BY <2>2 DEF NoneEmpty
<1>12. LastIsEnd(m, t)
  <2>0. n - 1 \in 1 .. n - 1 /\ t[n - 1] = s[r[n - 1]]
    BY <1>2, <1>5, <1>8
  <2>1. CASE l.last = s[n] /\ j = n
    <3>1. r[n - 1] = j - 1
      BY <1>2, <1>5, <1>6, <2>0, <2>1
    <3>2. m.last = s[j - 1]
      BY <1>4, <2>1
    <3> QED
      BY <1>8, <2>0, <3>1, <3>2 DEF LastIsEnd
  <2>2. CASE l.last = s[n] /\ j # n
    <3>1. r[n - 1] = n /\ n \in 1 .. n
      BY <1>2, <1>5, <1>6, <2>0, <2>2
    <3>2. s[n] # s[j]
      BY <1>3, <1>5, <2>2, <3>1
    <3>3. m.last = s[n]
      BY <1>4, <2>2, <3>2
    <3> QED
      BY <1>8, <2>0, <3>1, <3>3 DEF LastIsEnd
  <2>3. CASE \A k \in 1 .. n : l.last # s[k]
    <3>1. m.last = l.last
      BY <1>4, <1>5, <2>3
    <3> QED
      BY <1>6, <1>8, <2>3, <3>1 DEF LastIsEnd
  <2> QED
    BY <1>1, <2>1, <2>2, <2>3 DEF LastIsEnd, n
<1>13. Written(m, t) /\ Apart(m, t)
  <2>1. r \in [1 .. Len(t) -> 1 .. n]
    BY <1>6, <1>8
  <2>2. ASSUME NEW k \in 1 .. Len(t)
        PROVE  /\ m.part[t[k]].block = l.part[s[r[k]]].block
               /\ m.part[t[k]].off >= l.part[s[r[k]]].off
               /\ m.part[t[k]].off + m.part[t[k]].nelts <=
                     l.part[s[r[k]]].off + l.part[s[r[k]]].nelts
    <3>1. /\ m.part[t[k]].block = l.part[s[r[k]]].block
          /\ m.part[t[k]].off = l.part[s[r[k]]].off
          /\ m.part[t[k]].nelts = l.part[s[r[k]]].nelts
      <4>1. t[k] = s[r[k]] /\ r[k] \in 1 .. n
        BY <1>8, <2>1
      <4>2. Kept(r[k])
        BY <1>9, <4>1
      <4> QED
        BY <4>1, <4>2 DEF Kept
    <3>2. PICK u \in 1 .. Len(l.part) : u = s[r[k]]
      BY <1>2, <2>1
    <3>3. l.part[u].off \in Nat /\ l.part[u].nelts \in Nat
      BY <1>1, PartType
    <3>4. \A x, y \in Nat : x >= x /\ x + y <= x + y
      OBVIOUS
    <3>5. l.part[u].off >= l.part[u].off /\ l.part[u].off + l.part[u].nelts <= l.part[u].off + l.part[u].nelts
      BY <3>3, <3>4
    <3> QED
      BY <3>1, <3>2, <3>5
  <2>3. \A i, k \in 1 .. Len(t) : i < k => r[i] < r[k]
    <3>1. SUFFICES ASSUME NEW i \in 1 .. n - 1, NEW k \in 1 .. n - 1, i < k
                   PROVE  r[i] < r[k]
      BY <1>8
    <3>2. /\ r[i] = IF i < j THEN i ELSE i + 1
          /\ r[k] = IF k < j THEN k ELSE k + 1
      BY <1>6
    <3> QED
      BY <1>5, <3>1, <3>2
  <2>4. LiesIn(l, s, m, t, r)
    BY <1>7, <2>1, <2>2, <2>3 DEF LiesIn, n
  <2> QED
    BY <1>4, <1>10, <2>4, Within
<1>14. Linked(m, t)
  BY <1>4, <1>10, <1>11, <1>12, <1>13 DEF Linked
<1>15. Len(Elts(l, s[j])) = 1 /\ 1 \in 1 .. Len(Elts(l, s[j]))
  <2>1. PICK p \in 1 .. Len(l.part) : p = s[j]
    BY <1>2, <1>5
  <2>2. InMem(l, p)
    BY <1>1, <1>5, <2>1 DEF Written, n
  <2>3. Len(Elts(l, p)) = l.part[p].nelts
    BY <1>1, <2>2, EltsType
  <2> QED
    BY <2>1, <2>3
<1>16. CutAt(l, s, m, t, j, 1, -1)
  <2>1. Len(t) = n + (-1)
    BY <1>2, <1>8
  <2>2. ASSUME NEW k \in 1 .. j - 1
        PROVE  Elts(m, t[k]) = Elts(l, s[k])
    <3>1. k \in 1 .. n - 1 /\ k < j /\ k \in 1 .. n
      BY <1>2, <1>5
    <3>2. t[k] = s[k]
      BY <1>6, <1>8, <3>1
    <3>3. Kept(k)
      BY <1>9, <3>1
    <3> QED
      BY <1>7, <3>2, <3>3, EltsSame DEF Kept
  <2>3. ASSUME NEW k \in j + 1 .. n
        PROVE  Elts(m, t[k + (-1)]) = Elts(l, s[k])
    <3>1. k + (-1) \in 1 .. n - 1 /\ ~(k + (-1) < j) /\ (k + (-1)) + 1 = k /\ k \in 1 .. n
      BY <1>2, <1>5
    <3>2. t[k + (-1)] = s[k]
      BY <1>6, <1>8, <3>1
    <3>3. Kept(k)
      BY <1>9, <3>1
    <3> QED
      BY <1>7, <3>2, <3>3, EltsSame DEF Kept
  <2>4. -1 # 0 /\ -1 # 1
    OBVIOUS
  <2> QED
    BY <1>5, <1>15, <2>1, <2>2, <2>3, <2>4 DEF CutAt, n
<1> QED
  <2>1. -1 \in -1 .. 1
    OBVIOUS
  <2> QED
    BY <1>14, <1>16, <2>1, CutBy

-----------------------------------------------------------------------------
(* A part that is cut in two.                                              *)

\* The part at j is cut in two around its element i.
PartSplit(l, s, m, j, i) ==
    /\ j \in 1 .. Len(s) /\ i \in 2 .. l.part[s[j]].nelts - 1
    /\ InBlocks(m) /\ m.mem = l.mem /\ Len(m.part) = Len(l.part) + 1
    /\ \A u \in 1 .. Len(l.part) : u # s[j] => m.part[u] = l.part[u]
    /\ m.part[s[j]].block = l.part[s[j]].block /\ m.part[s[j]].off = l.part[s[j]].off
    /\ m.part[s[j]].nelts = i - 1 /\ m.part[s[j]].next = Len(l.part) + 1
    /\ m.part[Len(l.part) + 1].block = l.part[s[j]].block
    /\ m.part[Len(l.part) + 1].off = l.part[s[j]].off + i
    /\ m.part[Len(l.part) + 1].nelts = l.part[s[j]].nelts - i
    /\ m.part[Len(l.part) + 1].next = l.part[s[j]].next
    /\ m.last = IF l.last = s[j] THEN Len(l.part) + 1 ELSE l.last

\* The two halves of a part are the part without the element.
LEMMA Halves ==
    ASSUME NEW a \in Seq(Header), NEW b \in Seq(Header), NEW c \in Seq(Header),
           NEW i \in 1 .. Len(a), Len(b) = i - 1, Len(c) = Len(a) - i,
           \A x \in 1 .. i - 1 : b[x] = a[x],
           \A x \in 1 .. Len(a) - i : c[x] = a[x + i]
    PROVE  b \o c = RemoveAt(a, i)
<1> DEFINE d == b \o c
           r == RemoveAt(a, i)
<1>0. Len(a) \in Nat /\ i \in Nat /\ i >= 1 /\ i <= Len(a)
  OBVIOUS
<1>1. /\ r \in Seq(Header) /\ Len(r) = Len(a) - 1
      /\ \A k \in 1 .. Len(a) - 1 : r[k] = IF k < i THEN a[k] ELSE a[k + 1]
  BY RemoveAtIs
<1>2. /\ d \in Seq(Header) /\ Len(d) = Len(b) + Len(c)
      /\ \A k \in 1 .. Len(b) + Len(c) : d[k] = IF k <= Len(b) THEN b[k] ELSE c[k - Len(b)]
  BY ConcatProperties
<1> HIDE DEF d, r
<1>3. Len(b) + Len(c) = Len(a) - 1
  BY <1>0
<1>4. ASSUME NEW k \in 1 .. Len(a) - 1
      PROVE  d[k] = r[k]
  <2>1. CASE k < i
    <3>1. k <= Len(b) /\ k \in 1 .. i - 1
      BY <1>0, <2>1
    <3>2. d[k] = b[k] /\ b[k] = a[k]
      BY <1>2, <1>3, <3>1
    <3> QED
      BY <1>1, <2>1, <3>2
  <2>2. CASE ~(k < i)
    <3>1. ~(k <= Len(b)) /\ k - Len(b) \in 1 .. Len(a) - i /\ (k - Len(b)) + i = k + 1
      BY <1>0, <2>2
    <3>2. d[k] = c[k - Len(b)] /\ c[k - Len(b)] = a[k + 1]
      BY <1>2, <1>3, <3>1
    <3> QED
      BY <1>1, <2>2, <3>2
  <2> QED
    BY <2>1, <2>2
<1>5. d = r
  BY <1>1, <1>2, <1>3, <1>4, SeqEqual
<1> QED
  BY <1>5 DEF d, r

\* Splitting takes the element out.
LEMMA SplitCut ==
    ASSUME NEW l, NEW s, Linked(l, s), NEW m, NEW j, NEW i, PartSplit(l, s, m, j, i)
    PROVE  Cut(l, m, Elts(l, s[j])[i])
<1> DEFINE n == Len(s)
           N == Len(l.part)
           p == s[j]
           c == l.part[p].nelts
           o == l.part[p].off
           r == [k \in 1 .. n + 1 |-> IF k <= j THEN k ELSE k - 1]
           t == [k \in 1 .. n + 1 |-> IF k = j + 1 THEN N + 1 ELSE s[r[k]]]
<1>1. InBlocks(l) /\ IsChain(l, s) /\ NoneEmpty(l, s) /\ LastIsEnd(l, s) /\ Written(l, s)
  BY DEF Linked
<1>2. /\ n \in Nat \ {0} /\ s[1] = First /\ N \in Nat \ {0}
      /\ \A k \in 1 .. n : s[k] \in 1 .. N
  BY <1>1, ChainType
<1>3. /\ \A x, k \in 1 .. n : s[x] = s[k] => x = k
      /\ \A x \in 1 .. n - 1 : l.part[s[x]].next = s[x + 1]
      /\ l.part[s[n]].next = Null
  BY <1>1 DEF IsChain
<1>4. /\ j \in 1 .. n /\ i \in 2 .. c - 1
      /\ InBlocks(m) /\ m.mem = l.mem /\ Len(m.part) = N + 1
      /\ m.last = IF l.last = p THEN N + 1 ELSE l.last
  BY DEF PartSplit
<1>5. /\ m.part[p].block = l.part[p].block /\ m.part[p].off = o
      /\ m.part[p].nelts = i - 1 /\ m.part[p].next = N + 1
  BY DEF PartSplit
<1>6. /\ m.part[N + 1].block = l.part[p].block /\ m.part[N + 1].off = o + i
      /\ m.part[N + 1].nelts = c - i /\ m.part[N + 1].next = l.part[p].next
  BY DEF PartSplit
<1>7. \A k \in 1 .. n : k # j => m.part[s[k]] = l.part[s[k]]
  <2>1. SUFFICES ASSUME NEW k \in 1 .. n, k # j PROVE m.part[s[k]] = l.part[s[k]]
    OBVIOUS
  <2>2. s[k] # s[j] /\ s[k] \in 1 .. N
    BY <1>2, <1>3, <1>4, <2>1
  <2> QED
    BY <2>2 DEF PartSplit
<1>8. p \in 1 .. N /\ p \in 1 .. N + 1 /\ N + 1 \in 1 .. N + 1 /\ \A k \in 1 .. n : s[k] # N + 1
  BY <1>2, <1>4
<1>9. c \in Nat /\ o \in Nat /\ InMem(l, p)
  <2>1. l.part[p].nelts \in Nat /\ l.part[p].off \in Nat
    BY <1>1, <1>8, PartType
  <2> QED
    BY <1>1, <1>4, <2>1 DEF Written
<1> HIDE DEF n, N, p, c, o
<1>10. j \in Nat /\ j >= 1 /\ j <= n /\ i \in Nat /\ i >= 2 /\ i < c
  BY <1>2, <1>4, <1>9
<1>11. /\ r \in [1 .. n + 1 -> 1 .. n]
       /\ \A k \in 1 .. n + 1 : r[k] = IF k <= j THEN k ELSE k - 1
  BY <1>2, <1>10
<1> HIDE DEF r
<1>12. /\ t \in Seq(1 .. N + 1) /\ Len(t) = n + 1
       /\ \A k \in 1 .. n + 1 : t[k] = IF k = j + 1 THEN N + 1 ELSE s[r[k]]
  <2>1. \A k \in 1 .. n + 1 : s[r[k]] \in 1 .. N + 1 /\ N + 1 \in 1 .. N + 1
    <3>1. N + 1 \in 1 .. N + 1 /\ \A u \in 1 .. N : u \in 1 .. N + 1
      BY <1>2
    <3>2. \A k \in 1 .. n + 1 : s[r[k]] \in 1 .. N
      BY <1>2, <1>11
    <3> QED
      BY <3>1, <3>2
  <2> QED
    BY <1>2, <2>1
<1> HIDE DEF t
<1>13. \A k \in 1 .. n + 1 :
          /\ k < j => t[k] = s[k] /\ k \in 1 .. n
          /\ k = j => t[k] = p
          /\ k = j + 1 => t[k] = N + 1
          /\ k > j + 1 => t[k] = s[k - 1] /\ k - 1 \in 1 .. n
  <2>1. SUFFICES ASSUME NEW k \in 1 .. n + 1
                 PROVE  /\ k < j => t[k] = s[k] /\ k \in 1 .. n
                        /\ k = j => t[k] = p
                        /\ k = j + 1 => t[k] = N + 1
                        /\ k > j + 1 => t[k] = s[k - 1] /\ k - 1 \in 1 .. n
    OBVIOUS
  <2>2. t[k] = IF k = j + 1 THEN N + 1 ELSE s[r[k]]
    BY <1>12
  <2>3. r[k] = IF k <= j THEN k ELSE k - 1
    BY <1>11
  <2> QED
    BY <1>2, <1>10, <2>2, <2>3 DEF p
\* Where the parts of m lie.
<1> DEFINE Same(k) == m.part[t[k]] = l.part[s[r[k]]]
<1>14. ASSUME NEW k \in 1 .. n + 1, k # j, k # j + 1
       PROVE  Same(k)
  <2>1. t[k] = s[r[k]]
    BY <1>12, <1>14
  <2>2. r[k] # j /\ r[k] \in 1 .. n
    BY <1>10, <1>11, <1>14
  <2> QED
    BY <1>7, <2>1, <2>2
<1>15. IsChain(m, t)
  <2>0. t[1] = First
    <3>1. 1 \in 1 .. n + 1 /\ 1 # j + 1 /\ 1 <= j
      BY <1>2, <1>10
    <3> QED
      BY <1>2, <1>11, <1>12, <3>1
  <2>1. \A x, k \in 1 .. Len(t) : t[x] = t[k] => x = k
    <3>1. SUFFICES ASSUME NEW x \in 1 .. n + 1, NEW k \in 1 .. n + 1, t[x] = t[k]
                   PROVE  x = k
      BY <1>12
    <3>2. CASE x = j + 1 \/ k = j + 1
      <4>1. s[r[x]] # N + 1 /\ s[r[k]] # N + 1
        BY <1>8, <1>11
      <4> QED
        BY <1>12, <3>1, <3>2, <4>1
    <3>3. CASE x # j + 1 /\ k # j + 1
      <4>1. s[r[x]] = s[r[k]] /\ r[x] \in 1 .. n /\ r[k] \in 1 .. n
        BY <1>11, <1>12, <3>1, <3>3
      <4>2. r[x] = r[k]
        BY <1>3, <4>1
      <4>3. r[x] = (IF x <= j THEN x ELSE x - 1) /\ r[k] = IF k <= j THEN k ELSE k - 1
        BY <1>11
      <4>4. x \in Int /\ k \in Int
        OBVIOUS
      <4>5. CASE x <= j /\ k <= j
        BY <4>2, <4>3, <4>5
      <4>6. CASE ~(x <= j) /\ ~(k <= j)
        <5>1. x - 1 = k - 1
          BY <4>2, <4>3, <4>6
        <5> QED
          BY <4>4, <5>1
      <4>7. CASE x <= j /\ ~(k <= j)
        <5>1. x = k - 1
          BY <4>2, <4>3, <4>7
        <5> QED
          BY <1>10, <3>3, <4>4, <4>7, <5>1
      <4>8. CASE ~(x <= j) /\ k <= j
        <5>1. x - 1 = k
          BY <4>2, <4>3, <4>8
        <5> QED
          BY <1>10, <3>3, <4>4, <4>8, <5>1
      <4> QED
        BY <4>5, <4>6, <4>7, <4>8
    <3> QED
      BY <3>2, <3>3
  <2>2. ASSUME NEW x \in 1 .. Len(t) - 1
        PROVE  m.part[t[x]].next = t[x + 1]
    <3>1. x \in 1 .. n + 1 /\ x + 1 \in 1 .. n + 1 /\ x \in 1 .. n /\ x \in Nat
      BY <1>2, <1>12
    <3>2. CASE x < j
      <4>1. t[x] = s[x] /\ t[x + 1] = s[x + 1] /\ x # j /\ x \in 1 .. n - 1
        <5>1. x \in 1 .. n - 1 /\ x # j
          BY <1>2, <1>10, <3>1, <3>2
        <5>2. t[x] = s[x]
          BY <1>13, <3>1, <3>2
        <5>3. t[x + 1] = s[x + 1]
          <6>1. x + 1 < j \/ x + 1 = j
            BY <1>10, <3>1, <3>2
          <6> QED
            BY <1>13, <3>1, <6>1 DEF p
        <5> QED
          BY <5>1, <5>2, <5>3
      <4>2. m.part[s[x]] = l.part[s[x]]
        BY <1>7, <3>1, <4>1
      <4> QED
        BY <1>3, <4>1, <4>2
    <3>3. CASE x = j
      <4>1. t[x] = p /\ t[x + 1] = N + 1
        BY <1>13, <3>1, <3>3
      <4> QED
        BY <1>5, <4>1
    <3>4. CASE x = j + 1
      <4>1. t[x] = N + 1
        BY <1>13, <3>1, <3>4
      <4>2. x + 1 > j + 1 /\ (x + 1) - 1 = j + 1 /\ j \in 1 .. n - 1
        BY <1>2, <1>10, <3>1, <3>4
      <4>3. t[x + 1] = s[j + 1]
        BY <1>13, <3>1, <4>2
      <4>4. l.part[p].next = s[j + 1]
        BY <1>3, <4>2 DEF p
      <4> QED
        BY <1>6, <4>1, <4>3, <4>4
    <3>5. CASE x > j + 1
      <4>1. /\ x + 1 > j + 1 /\ (x + 1) - 1 = x /\ x - 1 \in 1 .. n - 1 /\ x - 1 \in 1 .. n
            /\ x - 1 # j /\ (x - 1) + 1 = x
        BY <1>2, <1>10, <3>1, <3>5
      <4>2. t[x] = s[x - 1] /\ t[x + 1] = s[x]
        BY <1>13, <3>1, <3>5, <4>1
      <4>3. m.part[s[x - 1]] = l.part[s[x - 1]] /\ l.part[s[x - 1]].next = s[x]
        BY <1>3, <1>7, <4>1
      <4> QED
        BY <4>2, <4>3
    <3> QED
      BY <1>10, <3>1, <3>2, <3>3, <3>4, <3>5
  <2>3. m.part[t[Len(t)]].next = Null
    <3>0. n + 1 \in 1 .. n + 1
      BY <1>2
    <3>1. CASE j = n
      <4>1. t[n + 1] = N + 1
        BY <1>13, <3>0, <3>1
      <4> QED
        BY <1>3, <1>6, <1>12, <3>1, <4>1 DEF p
    <3>2. CASE j < n
      <4>1. n + 1 > j + 1 /\ (n + 1) - 1 = n /\ n # j /\ n \in 1 .. n
        BY <1>2, <1>10, <3>2
      <4>2. t[n + 1] = s[n]
        BY <1>13, <3>0, <4>1
      <4>3. m.part[s[n]] = l.part[s[n]]
        BY <1>7, <4>1
      <4> QED
        BY <1>3, <1>12, <4>2, <4>3
    <3> QED
      BY <1>2, <1>10, <3>1, <3>2
  <2>4. Len(t) >= 1 /\ t \in Seq(1 .. Len(m.part))
    BY <1>2, <1>4, <1>12
  <2> QED
    BY <2>0, <2>1, <2>2, <2>3, <2>4 DEF IsChain
<1>16. \A k \in 1 .. n : l.part[s[k]].nelts > 0
  <2>1. SUFFICES ASSUME NEW k \in 1 .. n PROVE l.part[s[k]].nelts > 0
    OBVIOUS
  <2>2. CASE n > 1
    BY <1>1, <2>2 DEF NoneEmpty, n
  <2>3. CASE n = 1
    <3>1. k = j
      BY <1>10, <2>3
    <3>2. c > 0
      BY <1>9, <1>10
    <3> QED
      BY <3>1, <3>2 DEF p, c
  <2> QED
    BY <1>2, <2>2, <2>3
<1>17. NoneEmpty(m, t)
  <2>1. ASSUME NEW k \in 1 .. n + 1
        PROVE  m.part[t[k]].nelts > 0
    <3>1. CASE k = j
      <4>1. t[k] = p
        BY <1>13, <3>1
      <4> QED
        BY <1>5, <1>10, <4>1
    <3>2. CASE k = j + 1
      <4>1. t[k] = N + 1
        BY <1>13, <3>2
      <4> QED
        BY <1>6, <1>9, <1>10, <4>1
    <3>3. CASE k # j /\ k # j + 1
      <4>1. Same(k) /\ r[k] \in 1 .. n
        BY <1>11, <1>14, <3>3
      <4> QED
        BY <1>16, <4>1
    <3> QED
      BY <3>1, <3>2, <3>3
  <2> QED
    BY <1>12, <2>1 DEF NoneEmpty
<1>18. LastIsEnd(m, t)
  <2>0. n + 1 \in 1 .. n + 1 /\ n \in 1 .. n
    BY <1>2
  <2>1. CASE l.last = s[n] /\ j = n
    <3>1. t[n + 1] = N + 1
      BY <1>13, <2>0, <2>1
    <3>2. m.last = N + 1
      BY <1>4, <2>1 DEF p
    <3> QED
      BY <1>12, <3>1, <3>2 DEF LastIsEnd
  <2>2. CASE l.last = s[n] /\ j # n
    <3>1. n + 1 > j + 1 /\ (n + 1) - 1 = n
      BY <1>2, <1>10, <2>2
    <3>2. t[n + 1] = s[n]
      BY <1>13, <2>0, <3>1
    <3>3. s[n] # p
      BY <1>3, <1>4, <2>0, <2>2 DEF p
    <3>4. m.last = s[n]
      BY <1>4, <2>2, <3>3
    <3> QED
      BY <1>12, <3>2, <3>4 DEF LastIsEnd
  <2>3. CASE \A k \in 1 .. n : l.last # s[k]
    <3>1. m.last = l.last
      BY <1>4, <2>3 DEF p
    <3>2. l.last \in 1 .. N
      BY <1>1 DEF InBlocks, N
    <3>3. l.last # N + 1
      BY <1>2, <3>2
    <3> QED
      BY <1>11, <1>12, <2>3, <3>1, <3>3 DEF LastIsEnd
  <2> QED
    BY <1>1, <2>1, <2>2, <2>3 DEF LastIsEnd, n
<1>19. Written(m, t) /\ Apart(m, t)
  <2>1. r \in [1 .. Len(t) -> 1 .. n]
    BY <1>11, <1>12
  <2>2. ASSUME NEW k \in 1 .. Len(t)
        PROVE  /\ m.part[t[k]].block = l.part[s[r[k]]].block
               /\ m.part[t[k]].off >= l.part[s[r[k]]].off
               /\ m.part[t[k]].off + m.part[t[k]].nelts <=
                     l.part[s[r[k]]].off + l.part[s[r[k]]].nelts
    <3>0. k \in 1 .. n + 1
      BY <1>12
    <3>1. CASE k = j
      <4>1. t[k] = p /\ r[k] = j
        BY <1>10, <1>11, <1>13, <3>0, <3>1
      <4>2. o >= o /\ o + (i - 1) <= o + c
        BY <1>9, <1>10
      <4> QED
        BY <1>5, <4>1, <4>2 DEF p, o, c
    <3>2. CASE k = j + 1
      <4>1. t[k] = N + 1 /\ r[k] = j
        BY <1>10, <1>11, <1>13, <3>0, <3>2
      <4>2. o + i >= o /\ (o + i) + (c - i) <= o + c
        BY <1>9, <1>10
      <4> QED
        BY <1>6, <4>1, <4>2 DEF p, o, c
    <3>3. CASE k # j /\ k # j + 1
      <4>1. Same(k) /\ r[k] \in 1 .. n
        BY <1>11, <1>14, <3>0, <3>3
      <4>2. PICK u \in 1 .. Len(l.part) : u = s[r[k]]
        BY <1>2, <4>1 DEF N
      <4>3. l.part[u].off \in Nat /\ l.part[u].nelts \in Nat
        BY <1>1, PartType
      <4>4. \A x, y \in Nat : x >= x /\ x + y <= x + y
        OBVIOUS
      <4>5. l.part[u].off >= l.part[u].off /\ l.part[u].off + l.part[u].nelts <= l.part[u].off + l.part[u].nelts
        BY <4>3, <4>4
      <4> QED
        BY <4>1, <4>2, <4>5
    <3> QED
      BY <3>1, <3>2, <3>3
  <2>3. ASSUME NEW x \in 1 .. Len(t), NEW k \in 1 .. Len(t), x < k
        PROVE  r[x] < r[k] \/ m.part[t[x]].off + m.part[t[x]].nelts <= m.part[t[k]].off
    <3>0. x \in 1 .. n + 1 /\ k \in 1 .. n + 1
      BY <1>12
    <3>1. CASE x = j /\ k = j + 1
      <4>1. t[x] = p /\ t[k] = N + 1
        BY <1>13, <3>0, <3>1
      <4>2. o + (i - 1) <= o + i
        BY <1>9, <1>10
      <4> QED
        BY <1>5, <1>6, <4>1, <4>2
    <3>2. CASE ~(x = j /\ k = j + 1)
      <4>1. r[x] = (IF x <= j THEN x ELSE x - 1) /\ r[k] = IF k <= j THEN k ELSE k - 1
        BY <1>11, <3>0
      <4>2. x \in Nat /\ k \in Nat
        BY <3>0
      <4> QED
        BY <1>10, <2>3, <3>2, <4>1, <4>2
    <3> QED
      BY <3>1, <3>2
  <2>4. LiesIn(l, s, m, t, r)
    BY <1>4, <2>1, <2>2, <2>3 DEF LiesIn, n
  <2> QED
    BY <1>4, <1>15, <2>4, Within
<1>20. Linked(m, t)
  BY <1>4, <1>15, <1>17, <1>18, <1>19 DEF Linked
<1>21. /\ Elts(l, p) \in Seq(Header) /\ Len(Elts(l, p)) = c
       /\ \A x \in 1 .. c : Elts(l, p)[x] = l.mem[l.part[p].block][o + x]
  <2>1. InBlocks(l) /\ p \in 1 .. Len(l.part) /\ InMem(l, p)
    BY <1>1, <1>8, <1>9 DEF N
  <2>2. EltsAre(l, p)
    BY <2>1, EltsIs
  <2> QED
    BY <2>2 DEF EltsAre, c, o
<1>22. Elts(m, p) \o Elts(m, N + 1) = RemoveAt(Elts(l, p), i)
  <2> DEFINE a == Elts(l, p)
             b == Elts(m, p)
             d == Elts(m, N + 1)
             M == l.mem[l.part[p].block]
  <2>1. InMem(m, p) /\ InMem(m, N + 1)
    <3>1. j \in 1 .. Len(t) /\ j + 1 \in 1 .. Len(t) /\ t[j] = p /\ t[j + 1] = N + 1
      <4>1. j \in 1 .. n + 1 /\ j + 1 \in 1 .. n + 1
        BY <1>2, <1>10
      <4> QED
        BY <1>12, <1>13, <4>1
    <3>2. InMem(m, t[j]) /\ InMem(m, t[j + 1])
      BY <1>19, <3>1 DEF Written
    <3> QED
      BY <3>1, <3>2
  <2>0. p \in 1 .. Len(m.part) /\ N + 1 \in 1 .. Len(m.part)
    BY <1>4, <1>8
  <2>2. /\ b \in Seq(Header) /\ Len(b) = m.part[p].nelts
        /\ \A x \in 1 .. m.part[p].nelts : b[x] = m.mem[m.part[p].block][m.part[p].off + x]
    <3>1. InBlocks(m)
      BY <1>4
    <3> QED
      BY <2>0, <2>1, <3>1, EltsType
  <2>3. /\ d \in Seq(Header) /\ Len(d) = m.part[N + 1].nelts
        /\ \A x \in 1 .. m.part[N + 1].nelts :
              d[x] = m.mem[m.part[N + 1].block][m.part[N + 1].off + x]
    <3>1. PICK v \in 1 .. Len(m.part) : v = N + 1
      BY <2>0
    <3>2. InMem(m, v)
      BY <2>1, <3>1
    <3>3. /\ Elts(m, v) \in Seq(Header) /\ Len(Elts(m, v)) = m.part[v].nelts
          /\ \A x \in 1 .. m.part[v].nelts :
                Elts(m, v)[x] = m.mem[m.part[v].block][m.part[v].off + x]
      BY <1>4, <3>2, EltsType
    <3> QED
      BY <3>1, <3>3
  <2> HIDE DEF a, b, d, M
  <2>4. b \in Seq(Header) /\ Len(b) = i - 1 /\ \A x \in 1 .. i - 1 : b[x] = M[o + x]
    BY <1>4, <1>5, <2>2 DEF M
  <2>5. d \in Seq(Header) /\ Len(d) = c - i /\ \A x \in 1 .. c - i : d[x] = M[(o + i) + x]
    BY <1>4, <1>6, <2>3 DEF M
  <2>6. a \in Seq(Header) /\ Len(a) = c /\ \A x \in 1 .. c : a[x] = M[o + x]
    BY <1>21 DEF a, M
  <2>7. i \in 1 .. Len(a)
    BY <1>9, <1>10, <2>6
  <2>8. \A x \in 1 .. i - 1 : b[x] = a[x]
    <3>1. \A x \in 1 .. i - 1 : x \in 1 .. c
      BY <1>9, <1>10
    <3> QED
      BY <2>4, <2>6, <3>1
  <2>9. \A x \in 1 .. Len(a) - i : d[x] = a[x + i]
    <3>1. SUFFICES ASSUME NEW x \in 1 .. c - i PROVE d[x] = a[x + i]
      BY <2>6
    <3>2. x + i \in 1 .. c /\ (o + i) + x = o + (x + i)
      BY <1>9, <1>10
    <3> QED
      BY <2>5, <2>6, <3>2
  <2>10. b \o d = RemoveAt(a, i)
    BY <2>4, <2>5, <2>6, <2>7, <2>8, <2>9, Halves
  <2> QED
    BY <2>10 DEF a, b, d
<1>23. CutAt(l, s, m, t, j, i, 1)
  <2>1. Len(t) = n + 1 /\ j \in 1 .. n
    BY <1>4, <1>12
  <2>2. i \in 1 .. Len(Elts(l, p))
    BY <1>9, <1>10, <1>21
  <2>3. ASSUME NEW k \in 1 .. j - 1
        PROVE  Elts(m, t[k]) = Elts(l, s[k])
    <3>1. k \in 1 .. n + 1 /\ k < j /\ k # j /\ k \in 1 .. n
      BY <1>2, <1>10
    <3>2. t[k] = s[k] /\ m.part[s[k]] = l.part[s[k]]
      BY <1>7, <1>13, <3>1
    <3> QED
      BY <1>4, <3>2, EltsSame
  <2>4. ASSUME NEW k \in j + 1 .. n
        PROVE  Elts(m, t[k + 1]) = Elts(l, s[k])
    <3>1. k + 1 \in 1 .. n + 1 /\ k + 1 > j + 1 /\ (k + 1) - 1 = k /\ k # j /\ k \in 1 .. n
      BY <1>2, <1>10
    <3>2. t[k + 1] = s[k] /\ m.part[s[k]] = l.part[s[k]]
      BY <1>7, <1>13, <3>1
    <3> QED
      BY <1>4, <3>2, EltsSame
  <2>5. Elts(m, t[j]) \o Elts(m, t[j + 1]) = RemoveAt(Elts(l, p), i)
    <3>1. j \in 1 .. n + 1 /\ j + 1 \in 1 .. n + 1
      BY <1>2, <1>10
    <3>2. t[j] = p /\ t[j + 1] = N + 1
      BY <1>13, <3>1
    <3> QED
      BY <1>22, <3>2
  <2>6. 1 # 0 /\ 1 # -1
    OBVIOUS
  <2> QED
    BY <2>1, <2>2, <2>3, <2>4, <2>5, <2>6 DEF CutAt, n, p
<1> QED
  <2>1. 1 \in -1 .. 1
    OBVIOUS
  <2> QED
    BY <1>20, <1>23, <2>1, CutBy

-----------------------------------------------------------------------------
(* Which header is taken.                                                  *)

\* Del finds its header in one of the parts.
LEMMA MatchFound ==
    ASSUME NEW l, NEW s, Linked(l, s), NEW key, HasMatch(l, key)
    PROVE  \E j \in 1 .. Len(s) :
              /\ MatchPart(l, key) = s[j]
              /\ MatchIndex(l, key) \in 1 .. Len(Elts(l, s[j]))
              /\ Matches(Elts(l, s[j])[MatchIndex(l, key)], key)
<1> DEFINE In(j) == \E i \in 1 .. Len(Elts(l, s[j])) : Matches(Elts(l, s[j])[i], key)
           J == {j \in 1 .. Len(s) : In(j)}
           IsFirst(j) == In(j) /\ \A k \in 1 .. j - 1 : ~In(k)
           jc == CHOOSE j \in 1 .. Len(s) : IsFirst(j)
<1>1. InBlocks(l) /\ IsChain(l, s)
  BY DEF Linked
<1>2. Len(l.part) \in Nat /\ Len(s) \in Nat \ {0}
  BY <1>1, ChainType
<1>3. Chain(l) = s
  BY <1>1, <1>2, ChainIs
<1>4. MatchPart(l, key) = s[jc]
  BY <1>3 DEF MatchPart
<1>5. \E j \in 1 .. Len(s) : In(j)
  <2>1. PICK pre : IsCat(pre, EltsOf(l, s), Len(s), Header) /\ Contents(l) = pre[Len(s)]
    BY ContentsOf
  <2>2. AllHeaders(l, s) /\ Contents(l) \in Seq(Header)
    BY ContentsOf
  <2>3. PICK x \in 1 .. Len(Contents(l)) : Matches(Contents(l)[x], key)
    BY <2>2 DEF HasMatch, ToSet
  <2>4. x \in 1 .. Len(pre[Len(s)])
    BY <2>1
  <2>5. IsIn(pre[Len(s)][x], EltsOf(l, s), Len(s))
    BY <1>2, <2>1, <2>4, CatOrigin
  <2>6. PICK j \in 1 .. Len(s) :
           \E i \in 1 .. Len(EltsOf(l, s)[j]) : Contents(l)[x] = EltsOf(l, s)[j][i]
    BY <2>1, <2>5 DEF IsIn
  <2>7. EltsOf(l, s)[j] = Elts(l, s[j])
    BY <2>2 DEF AllHeaders
  <2> QED
    BY <2>3, <2>6, <2>7
<1> HIDE DEF In
<1>6. \E j \in 1 .. Len(s) : IsFirst(j)
  <2>1. J \in SUBSET Nat /\ J # {}
    BY <1>2, <1>5
  <2>2. PICK j \in J : \A y \in J : j <= y
    BY <2>1, LeastElement
  <2>3. \A k \in 1 .. j - 1 : k \in 1 .. Len(s) /\ ~(j <= k)
    BY <1>2, <2>2
  <2>4. IsFirst(j)
    BY <2>2, <2>3
  <2> QED
    BY <2>2, <2>4
<1>7. jc \in 1 .. Len(s) /\ IsFirst(jc)
  BY <1>6
<1> HIDE DEF jc
<1> DEFINE e == Elts(l, s[jc])
           I == {i \in 1 .. Len(e) : Matches(e[i], key)}
<1>8. I # {}
  BY <1>7 DEF In
<1>9. MatchIndex(l, key) = Min(I)
  BY <1>4, <1>8 DEF MatchIndex, SelectInSeq
<1>10. Len(e) \in Nat
  <2>1. AllHeaders(l, s)
    BY ContentsOf
  <2>2. e \in Seq(Header)
    BY <1>7, <2>1 DEF AllHeaders
  <2> QED
    BY <2>2
<1> HIDE DEF e
<1>11. I \in SUBSET Nat
  BY <1>10
<1>12. PICK i \in I : \A y \in I : i <= y
  BY <1>8, <1>11, LeastElement
<1>13. Min(I) \in I
  BY <1>12 DEF Min
<1>14. MatchIndex(l, key) \in 1 .. Len(e) /\ Matches(e[MatchIndex(l, key)], key)
  BY <1>9, <1>13
<1> QED
  BY <1>4, <1>7, <1>14 DEF e

-----------------------------------------------------------------------------
(* The operations that delete.                                             *)

\* The part at j of a linked list.
LEMMA PartAt ==
    ASSUME NEW l, NEW s, Linked(l, s), NEW j \in 1 .. Len(s)
    PROVE  /\ InBlocks(l) /\ l \in Lists /\ IsChain(l, s) /\ Len(s) \in Nat \ {0}
           /\ s[j] \in 1 .. Len(l.part) /\ l.part[s[j]] \in Part /\ InMem(l, s[j])
           /\ l.last \in 1 .. Len(l.part) /\ l.nalloc \in Int
           /\ Elts(l, s[j]) \in Seq(Header) /\ Len(Elts(l, s[j])) = l.part[s[j]].nelts
<1>1. InBlocks(l) /\ IsChain(l, s) /\ Written(l, s)
  BY DEF Linked
<1>2. l \in Lists /\ l.last \in 1 .. Len(l.part)
  BY <1>1 DEF InBlocks
<1>3. l.nalloc \in Int
  BY <1>2 DEF Lists
<1>4. s[j] \in 1 .. Len(l.part) /\ Len(s) \in Nat \ {0}
  BY <1>1, ChainType
<1>5. PICK p \in 1 .. Len(l.part) : p = s[j]
  BY <1>4
<1>6. l.part[p] \in Part
  BY <1>1, PartType
<1>7. InMem(l, p)
  BY <1>1, <1>5 DEF Written
<1>8. Elts(l, p) \in Seq(Header) /\ Len(Elts(l, p)) = l.part[p].nelts
  BY <1>1, <1>7, EltsType
<1> QED
  BY <1>1, <1>2, <1>3, <1>4, <1>5, <1>6, <1>7, <1>8

\* The first element of a part with others.
LEMMA AdvanceCut ==
    ASSUME NEW l, NEW s, Linked(l, s), NEW j \in 1 .. Len(s), l.part[s[j]].nelts > 1
    PROVE  Cut(l, [l EXCEPT !.part[s[j]].off = @ + 1, !.part[s[j]].nelts = @ - 1],
               Elts(l, s[j])[1])
<1> DEFINE p == s[j]
           q == [l.part[p] EXCEPT !.off = @ + 1, !.nelts = @ - 1]
           m == [l EXCEPT !.part[p].off = @ + 1, !.part[p].nelts = @ - 1]
<1>1. /\ InBlocks(l) /\ l \in Lists /\ p \in 1 .. Len(l.part) /\ l.part[p] \in Part
      /\ InMem(l, p) /\ l.last \in 1 .. Len(l.part) /\ l.nalloc \in Int
      /\ Len(Elts(l, p)) = l.part[p].nelts
  BY PartAt
<1>2. l.part[p].off \in Nat /\ l.part[p].nelts \in Nat
  BY <1>1 DEF Part
<1>3. q.block = l.part[p].block /\ q.off = l.part[p].off + 1 /\ q.nelts = l.part[p].nelts - 1
      /\ q.next = l.part[p].next
  BY <1>1 DEF Part
<1>4. q \in Part
  <2> DEFINE o == l.part[p].off + 1
             n == l.part[p].nelts - 1
  <2>1. q = [l.part[p] EXCEPT !.off = o, !.nelts = n]
    OBVIOUS
  <2>2. o \in Nat /\ n \in Nat
    BY <1>2
  <2> HIDE DEF o, n, q, p
  <2> QED
    BY <1>1, <2>1, <2>2 DEF Part
<1>5. m = [l EXCEPT !.part = [l.part EXCEPT ![p] = q], !.last = l.last, !.nalloc = l.nalloc]
  BY <1>1 DEF Lists
<1> HIDE DEF q, m, p
<1>6. Edited(l, m, p, q.off, q.nelts, q.next) /\ InBlocks(m) /\ m.last = l.last
  <2>1. Becomes(l, m, p, q, l.last, l.nalloc)
    BY <1>1, <1>3, <1>4, <1>5, EditIs, Zenon
  <2> QED
    BY <2>1 DEF Becomes
<1>7. /\ l.part[p].off + 1 \in Nat /\ l.part[p].nelts - 1 \in Nat /\ l.part[p].nelts - 1 > 0
      /\ l.part[p].off + 1 >= l.part[p].off
      /\ (l.part[p].off + 1) + (l.part[p].nelts - 1) <= l.part[p].off + l.part[p].nelts
      /\ 1 \in 1 .. Len(Elts(l, p)) /\ l.part[p].nelts > 1
  <2>1. \A o, n \in Nat : n > 1 =>
           /\ o + 1 \in Nat /\ n - 1 \in Nat /\ n - 1 > 0 /\ o + 1 >= o
           /\ (o + 1) + (n - 1) <= o + n /\ 1 \in 1 .. n
    OBVIOUS
  <2>2. l.part[p].nelts > 1
    BY DEF p
  <2> QED
    BY <1>1, <1>2, <2>1, <2>2
<1>8. Edited(l, m, p, l.part[p].off + 1, l.part[p].nelts - 1, l.part[p].next)
  BY <1>3, <1>6
<1>9. Linked(m, s)
  BY <1>6, <1>7, <1>8, ShrunkLinked DEF p
<1>10. InMem(m, p)
  BY <1>9 DEF Linked, Written, p
<1>11. Elts(m, p) = RemoveAt(Elts(l, p), 1)
  BY <1>1, <1>6, <1>7, <1>8, <1>10, FirstGone
<1>12. Cut(l, m, Elts(l, p)[1])
  BY <1>7, <1>8, <1>9, <1>11, ShrunkCut DEF p
<1> QED
  BY <1>12 DEF m, p

\* The last element of a part with others, or the only element of the list.
LEMMA ShortenCut ==
    ASSUME NEW l, NEW s, Linked(l, s), NEW j \in 1 .. Len(s), NEW m, NEW a \in Int, NEW q,
           q = [l.part[s[j]] EXCEPT !.nelts = l.part[s[j]].nelts - 1],
           m = [l EXCEPT !.part = [l.part EXCEPT ![s[j]] = q], !.last = l.last, !.nalloc = a],
           l.part[s[j]].nelts > 1 \/ (l.part[s[j]].nelts = 1 /\ Len(s) = 1)
    PROVE  Cut(l, m, Elts(l, s[j])[l.part[s[j]].nelts])
<1> DEFINE p == s[j]
           n == l.part[p].nelts
           o == l.part[p].off
<1>1. /\ InBlocks(l) /\ l \in Lists /\ p \in 1 .. Len(l.part) /\ l.part[p] \in Part
      /\ InMem(l, p) /\ l.last \in 1 .. Len(l.part)
      /\ Len(Elts(l, p)) = n
  BY PartAt
<1>2. o \in Nat /\ n \in Nat /\ n > 0
  <2>1. o \in Nat /\ n \in Nat
    BY <1>1 DEF Part
  <2> QED
    BY <2>1
<1>3. q.block = l.part[p].block /\ q.off = o /\ q.nelts = n - 1 /\ q.next = l.part[p].next
  BY <1>1 DEF Part
<1>4. q \in Part
  <2> DEFINE n1 == n - 1
  <2>1. q = [l.part[p] EXCEPT !.nelts = n1]
    OBVIOUS
  <2>2. n1 \in Nat
    BY <1>2
  <2> HIDE DEF n1, p
  <2> QED
    BY <1>1, <2>1, <2>2 DEF Part
<1>5. m = [l EXCEPT !.part = [l.part EXCEPT ![p] = q], !.last = l.last, !.nalloc = a]
  OBVIOUS
<1>6. n > 1 \/ (n = 1 /\ Len(s) = 1)
  OBVIOUS
<1>7. Edited(l, m, p, q.off, q.nelts, q.next) /\ InBlocks(m) /\ m.last = l.last
  <2> HIDE DEF p
  <2>1. Becomes(l, m, p, q, l.last, a)
    BY <1>1, <1>3, <1>4, <1>5, EditIs, Zenon
  <2> QED
    BY <2>1, Zenon DEF Becomes
<1>8. /\ n - 1 \in Nat /\ o >= o /\ o + (n - 1) <= o + n
      /\ n - 1 > 0 \/ Len(s) = 1
      /\ n \in 1 .. Len(Elts(l, p)) /\ n > 0
  <2> HIDE DEF n, o, p
  <2> QED
    <3>1. n - 1 \in Nat /\ o >= o /\ o + (n - 1) <= o + n /\ n \in 1 .. n
      BY <1>2
    <3>2. n - 1 > 0 \/ Len(s) = 1
      BY <1>2, <1>6
    <3> QED
      BY <1>1, <1>2, <3>1, <3>2
<1>9. Edited(l, m, p, o, n - 1, l.part[p].next)
  BY <1>3, <1>7
<1>10. Linked(m, s)
  BY <1>2, <1>7, <1>8, <1>9, ShrunkLinked
<1>11. InMem(m, p)
  BY <1>10 DEF Linked, Written
<1>12. Elts(m, p) = RemoveAt(Elts(l, p), n)
  <2> HIDE DEF p
  <2> QED
    BY <1>1, <1>7, <1>8, <1>9, <1>11, LastGone
<1> QED
  BY <1>8, <1>9, <1>10, <1>12, ShrunkCut

\* The part before the one at j.
LEMMA PreviousIs ==
    ASSUME NEW l, NEW s, Linked(l, s), NEW j \in 2 .. Len(s)
    PROVE  Previous(l, s[j]) = s[j - 1]
<1>1. InBlocks(l) /\ IsChain(l, s)
  BY DEF Linked
<1>2. /\ Len(l.part) \in Nat /\ Len(s) \in Nat \ {0}
      /\ \A k \in 1 .. Len(s) : s[k] # Null
  BY <1>1, ChainType
<1>3. Chain(l) = s
  BY <1>1, <1>2, ChainIs
<1>4. ToSet(s) = {s[k] : k \in 1 .. Len(s)}
  <2>1. s \in Seq(1 .. Len(l.part))
    BY <1>1 DEF IsChain
  <2>2. DOMAIN s = 1 .. Len(s)
    BY <2>1
  <2> QED
    BY <2>2 DEF ToSet
<1>5. /\ j - 1 \in 1 .. Len(s) /\ j - 1 \in 1 .. Len(s) - 1 /\ (j - 1) + 1 = j /\ j \in 1 .. Len(s)
  BY <1>2
<1>6. l.part[s[j - 1]].next = s[j]
  BY <1>1, <1>5 DEF IsChain
<1>7. ASSUME NEW k \in 1 .. Len(s), l.part[s[k]].next = s[j]
      PROVE  s[k] = s[j - 1]
  <2>1. CASE k = Len(s)
    BY <1>1, <1>2, <1>5, <1>7, <2>1 DEF IsChain
  <2>2. CASE k # Len(s)
    <3>1. k \in 1 .. Len(s) - 1 /\ k + 1 \in 1 .. Len(s)
      BY <1>2, <2>2
    <3>2. s[k + 1] = s[j]
      BY <1>1, <1>7, <3>1 DEF IsChain
    <3>3. k + 1 = j
      BY <1>1, <1>5, <3>1, <3>2 DEF IsChain
    <3>4. k = j - 1
      BY <3>3
    <3> QED
      BY <3>4
  <2> QED
    BY <2>1, <2>2
<1> DEFINE W == ToSet(s)
           Is(u) == u \in W /\ l.part[u].next = s[j]
<1>8. Is(s[j - 1]) /\ \A u : Is(u) => u = s[j - 1]
  BY <1>4, <1>5, <1>6, <1>7
<1>9. Previous(l, s[j]) = CHOOSE u \in W : l.part[u].next = s[j]
  BY <1>3 DEF Previous
<1> HIDE DEF W
<1> QED
  BY <1>8, <1>9

\* The only element of a part.
LEMMA UnlinkedCut ==
    ASSUME NEW l, NEW s, Linked(l, s), NEW j \in 1 .. Len(s), l.part[s[j]].nelts = 1
    PROVE  Cut(l, Unlinked(l, s[j]), Elts(l, s[j])[1])
<1> DEFINE p == s[j]
           m == Unlinked(l, p)
<1>1. /\ InBlocks(l) /\ l \in Lists /\ IsChain(l, s) /\ Len(s) \in Nat \ {0}
      /\ p \in 1 .. Len(l.part) /\ l.part[p] \in Part
      /\ l.last \in 1 .. Len(l.part) /\ l.nalloc \in Int
  BY PartAt
<1>2. /\ \A x, k \in 1 .. Len(s) : s[x] = s[k] => x = k
      /\ \A x \in 1 .. Len(s) - 1 : l.part[s[x]].next = s[x + 1]
      /\ l.part[s[Len(s)]].next = Null /\ s[1] = First
  BY <1>1 DEF IsChain
<1>3. \A k \in 1 .. Len(s) : s[k] \in 1 .. Len(l.part) /\ s[k] # Null
  BY <1>1, ChainType
<1>4. 1 \in 1 .. Len(s)
  BY <1>1
<1>5. CASE j = 1 /\ Len(s) = 1
  <2>1. p = First /\ l.part[p].next = Null
    BY <1>2, <1>5
  <2> DEFINE q == [l.part[p] EXCEPT !.nelts = 0]
  <2>2. m = [l EXCEPT !.part[p].nelts = 0]
    BY <2>1 DEF Unlinked
  <2>3. m = [l EXCEPT !.part = [l.part EXCEPT ![p] = q], !.last = l.last, !.nalloc = l.nalloc]
    BY <1>1, <2>2 DEF Lists
  <2>4. q = [l.part[p] EXCEPT !.nelts = l.part[p].nelts - 1]
    OBVIOUS
  <2> HIDE DEF m, q
  <2>5. Cut(l, m, Elts(l, p)[l.part[p].nelts])
    BY <1>1, <1>5, <2>3, <2>4, ShortenCut, Zenon
  <2> QED
    BY <2>5 DEF m
<1>6. CASE j = 1 /\ Len(s) # 1
  <2>1. Len(s) > 1 /\ 1 \in 1 .. Len(s) - 1 /\ 1 + 1 = 2 /\ 2 \in 1 .. Len(s)
    <3>1. \A n \in Nat \ {0} : n # 1 => n > 1 /\ 1 \in 1 .. n - 1 /\ 1 + 1 = 2 /\ 2 \in 1 .. n
      OBVIOUS
    <3> QED
      BY <1>1, <1>6, <3>1
  <2>2. p = First /\ l.part[p].next = s[2] /\ s[2] # Null /\ s[2] \in 1 .. Len(l.part)
    BY <1>2, <1>3, <1>6, <2>1
  <2> DEFINE P == [l.part EXCEPT ![p] = l.part[s[2]]]
  <2>3. m = [l EXCEPT !.part[p] = l.part[s[2]]]
    BY <2>2 DEF Unlinked
  <2>4. m = [l EXCEPT !.part = P]
    BY <1>1, <2>3 DEF Lists
  <2> HIDE DEF m
  <2>5. l.part \in Seq(Part) /\ l.part[s[2]] \in Part /\ l.part[s[2]].block \in 1 .. Len(l.mem)
    <3>1. PICK v \in 1 .. Len(l.part) : v = s[2]
      BY <2>2
    <3>2. l.part[v] \in Part /\ l.part[v].block \in 1 .. Len(l.mem)
      BY <1>1, PartType
    <3> QED
      BY <1>1, <3>1, <3>2 DEF Lists
  <2>6. /\ P \in Seq(Part) /\ Len(P) = Len(l.part)
        /\ \A u \in 1 .. Len(l.part) : P[u] = IF u = p THEN l.part[s[2]] ELSE l.part[u]
    BY <1>1, <2>5, ExceptSeq
  <2> HIDE DEF P
  <2>7. m.part = P /\ m.last = l.last /\ m.mem = l.mem /\ m \in Lists
    BY <1>1, <2>4, <2>6 DEF Lists
  <2>8. \A u \in 1 .. Len(m.part) : m.part[u].block \in 1 .. Len(m.mem)
    BY <1>1, <2>5, <2>6, <2>7 DEF InBlocks
  <2>9. InBlocks(m)
    BY <1>1, <2>6, <2>7, <2>8 DEF InBlocks
  <2>10. FirstCopied(l, s, m)
    BY <1>1, <2>1, <2>2, <2>6, <2>7, <2>9 DEF FirstCopied
  <2>11. l.part[First].nelts = 1
    BY <2>2
  <2>12. Cut(l, m, Elts(l, First)[1])
    BY <2>10, <2>11, FirstDropped
  <2> QED
    BY <2>2, <2>12 DEF m
<1>7. CASE j # 1
  <2>1. j \in 2 .. Len(s) /\ j - 1 \in 1 .. Len(s)
    BY <1>1, <1>7
  <2>2. p # First
    BY <1>2, <1>4, <1>7
  <2> DEFINE v == s[j - 1]
             x == l.part[p].next
             z == IF l.last = p THEN v ELSE l.last
             q == [l.part[v] EXCEPT !.next = x]
  <2>3. Previous(l, p) = v
    BY <2>1, PreviousIs
  <2>4. m = [l EXCEPT !.part[v].next = x, !.last = IF @ = p THEN v ELSE @]
    BY <2>2, <2>3 DEF Unlinked
  <2>5. m = [l EXCEPT !.part = [l.part EXCEPT ![v] = q], !.last = z, !.nalloc = l.nalloc]
    BY <1>1, <2>4 DEF Lists
  <2>6. v \in 1 .. Len(l.part) /\ l.part[v] \in Part
    BY <2>1, PartAt
  <2>7. x \in Nat
    BY <1>1 DEF Part
  <2>8. z \in 1 .. Len(l.part)
    BY <1>1, <2>6
  <2>10. m.last = z => m.last = IF l.last = p THEN v ELSE l.last
    OBVIOUS
  <2> HIDE DEF x, v, m, z
  <2>9. /\ q \in Part /\ q.block = l.part[v].block /\ q.off = l.part[v].off
        /\ q.nelts = l.part[v].nelts /\ q.next = x
    BY <2>6, <2>7 DEF Part
  <2> HIDE DEF q
  <2>11. Edited(l, m, v, q.off, q.nelts, q.next) /\ InBlocks(m) /\ m.last = z
    <3>1. Becomes(l, m, v, q, z, l.nalloc)
      BY <1>1, <2>5, <2>6, <2>8, <2>9, EditIs, Zenon
    <3> QED
      BY <3>1 DEF Becomes
  <2>12. Edited(l, m, v, l.part[v].off, l.part[v].nelts, l.part[p].next)
    BY <2>9, <2>11 DEF x
  <2>13. PartUnlinked(l, s, m, j)
    BY <2>1, <2>10, <2>11, <2>12 DEF PartUnlinked, v
  <2>14. Cut(l, m, Elts(l, s[j])[1])
    BY <2>13, PartDropped
  <2> QED
    BY <2>14 DEF m
<1> QED
  BY <1>5, <1>6, <1>7

-----------------------------------------------------------------------------
\* An element in between.
LEMMA SplitIs ==
    ASSUME NEW l, NEW s, Linked(l, s), NEW j \in 1 .. Len(s),
           NEW i \in 2 .. l.part[s[j]].nelts - 1
    PROVE  Cut(l, Split(l, s[j], i), Elts(l, s[j])[i])
<1> DEFINE p == s[j]
           N == Len(l.part)
           m == Split(l, p, i)
           e == [block |-> l.part[p].block, off |-> l.part[p].off + i,
                 nelts |-> l.part[p].nelts - i, next |-> l.part[p].next]
           Q == Append(l.part, e)
           q == [Q[p] EXCEPT !.nelts = i - 1, !.next = N + 1]
           z == IF l.last = p THEN N + 1 ELSE l.last
           P == [Q EXCEPT ![p] = q]
<1>1. /\ InBlocks(l) /\ l \in Lists /\ p \in 1 .. N /\ l.part[p] \in Part
      /\ l.last \in 1 .. N
  BY PartAt
<1>2. l.part \in Seq(Part) /\ N \in Nat /\ l.part[p].block \in 1 .. Len(l.mem)
  BY <1>1 DEF Lists, InBlocks
<1>3. m = [l EXCEPT !.part = P, !.last = z]
  BY <1>1 DEF Split, Lists
<1>4. i \in 2 .. l.part[p].nelts - 1
  OBVIOUS
<1>5. m.last = z => m.last = IF l.last = p THEN N + 1 ELSE l.last
  OBVIOUS
<1>6. z \in 1 .. N + 1
  <2>1. N + 1 \in 1 .. N + 1 /\ \A u \in 1 .. N : u \in 1 .. N + 1
    BY <1>2
  <2> QED
    BY <1>1, <2>1
<1> HIDE DEF p, m, z
<1>7. /\ l.part[p].block \in Nat /\ l.part[p].off \in Nat /\ l.part[p].nelts \in Nat
      /\ l.part[p].next \in Nat
  BY <1>1 DEF Part
<1>8. e \in Part
  <2> DEFINE o == l.part[p].off + i
             n == l.part[p].nelts - i
  <2>1. e = [block |-> l.part[p].block, off |-> o, nelts |-> n, next |-> l.part[p].next]
    OBVIOUS
  <2>2. \A a, b \in Nat : \A c \in 2 .. b - 1 : a + c \in Nat /\ b - c \in Nat
    OBVIOUS
  <2>3. o \in Nat /\ n \in Nat
    BY <1>4, <1>7, <2>2
  <2> HIDE DEF o, n, e
  <2> QED
    BY <1>7, <2>1, <2>3 DEF Part
<1>9. /\ e.block = l.part[p].block /\ e.off = l.part[p].off + i
      /\ e.nelts = l.part[p].nelts - i /\ e.next = l.part[p].next
  OBVIOUS
<1> HIDE DEF e, N
<1>10. /\ Q \in Seq(Part) /\ Len(Q) = N + 1 /\ Q[N + 1] = e
       /\ \A u \in 1 .. N : Q[u] = l.part[u]
  BY <1>2, <1>8 DEF N
<1> HIDE DEF Q
<1>11. Q[p] = l.part[p] /\ p \in 1 .. Len(Q) /\ p # N + 1 /\ N + 1 \in 1 .. Len(Q)
  BY <1>1, <1>2, <1>10
<1>12. /\ q.block = l.part[p].block /\ q.off = l.part[p].off
       /\ q.nelts = i - 1 /\ q.next = N + 1
  BY <1>1, <1>11 DEF Part
<1>13. q \in Part
  <2> DEFINE n == i - 1
             x == N + 1
  <2>1. q = [l.part[p] EXCEPT !.nelts = n, !.next = x]
    BY <1>11
  <2>2. n \in Nat /\ x \in Nat
    BY <1>2, <1>4
  <2> HIDE DEF n, x, q
  <2> QED
    BY <1>1, <2>1, <2>2 DEF Part
<1> HIDE DEF q
<1>14. /\ P \in Seq(Part) /\ Len(P) = Len(Q)
       /\ \A u \in 1 .. Len(Q) : P[u] = IF u = p THEN q ELSE Q[u]
  BY <1>10, <1>11, <1>13, ExceptSeq
<1> HIDE DEF P
<1>15. m.part = P /\ m.last = z /\ m.mem = l.mem
  BY <1>1, <1>3 DEF Lists
<1>16. m \in Lists
  <2>1. z \in Nat
    BY <1>6
  <2> QED
    BY <1>1, <1>3, <1>14, <2>1 DEF Lists
<1>17. ASSUME NEW u \in 1 .. N, u # p
       PROVE  m.part[u] = l.part[u]
  <2>1. u \in 1 .. Len(Q)
    BY <1>2, <1>10
  <2> QED
    BY <1>10, <1>14, <1>15, <1>17, <2>1
<1>18. m.part[p] = q /\ m.part[N + 1] = e
  BY <1>10, <1>11, <1>14, <1>15
<1>19. InBlocks(m)
  <2>1. ASSUME NEW u \in 1 .. N + 1
        PROVE  m.part[u].block \in 1 .. Len(m.mem)
    <3>1. CASE u = p
      BY <1>2, <1>12, <1>15, <1>18, <3>1
    <3>2. CASE u = N + 1
      BY <1>2, <1>9, <1>15, <1>18, <3>2
    <3>3. CASE u # p /\ u # N + 1
      <4>1. u \in 1 .. N
        BY <1>2, <3>3
      <4> QED
        BY <1>1, <1>15, <1>17, <3>3, <4>1 DEF InBlocks, N
    <3> QED
      BY <3>1, <3>2, <3>3
  <2> QED
    BY <1>6, <1>10, <1>14, <1>15, <1>16, <2>1 DEF InBlocks
<1>20. PartSplit(l, s, m, j, i)
  BY <1>4, <1>5, <1>9, <1>10, <1>12, <1>14, <1>15, <1>17, <1>18, <1>19 DEF PartSplit, p, N
<1>21. Cut(l, m, Elts(l, s[j])[i])
  BY <1>20, SplitCut
<1> QED
  BY <1>21 DEF m, p

\* However it goes about it, Del takes the header it found out of the list.
LEMMA DelCut ==
    ASSUME NEW l, NEW s, Linked(l, s), NEW key, HasMatch(l, key)
    PROVE  \E h : Matches(h, key) /\ Cut(l, Del(l, key), h)
<1> DEFINE i == MatchIndex(l, key)
<1>1. PICK j \in 1 .. Len(s) : /\ MatchPart(l, key) = s[j] /\ i \in 1 .. Len(Elts(l, s[j]))
                              /\ Matches(Elts(l, s[j])[i], key)
  BY MatchFound
<1>2. /\ l \in Lists /\ l.part[s[j]] \in Part /\ l.nalloc \in Int
      /\ Len(Elts(l, s[j])) = l.part[s[j]].nelts
  BY PartAt
<1> DEFINE p == s[j]
           n == l.part[p].nelts
<1>3. n \in Nat /\ i \in 1 .. n
  BY <1>1, <1>2 DEF Part
<1>4. Del(l, key) = IF i = 1 THEN WithoutFirst(l, p)
                    ELSE IF i = n THEN WithoutLast(l, p) ELSE Split(l, p, i)
  BY <1>1 DEF Del
<1> HIDE DEF i
<1>5. CASE i = 1 /\ n = 1
  <2>1. Del(l, key) = Unlinked(l, p)
    BY <1>4, <1>5 DEF WithoutFirst
  <2>2. Cut(l, Unlinked(l, p), Elts(l, p)[1])
    BY <1>5, UnlinkedCut
  <2> QED
    BY <1>1, <1>5, <2>1, <2>2
<1>6. CASE i = 1 /\ n # 1
  <2>1. Del(l, key) = [l EXCEPT !.part[p].off = @ + 1, !.part[p].nelts = @ - 1]
    BY <1>4, <1>6 DEF WithoutFirst
  <2>2. n > 1
    <3>1. \A v \in Nat : \A w \in 1 .. v : v # 1 => v > 1
      OBVIOUS
    <3> QED
      BY <1>3, <1>6, <3>1
  <2>3. Cut(l, [l EXCEPT !.part[p].off = @ + 1, !.part[p].nelts = @ - 1], Elts(l, p)[1])
    BY <2>2, AdvanceCut, Zenon
  <2> QED
    BY <1>1, <1>6, <2>1, <2>3
<1>7. CASE i # 1 /\ i = n
  <2> DEFINE a == IF p = l.last THEN l.nalloc - 1 ELSE l.nalloc
             q == [l.part[p] EXCEPT !.nelts = l.part[p].nelts - 1]
             m == WithoutLast(l, p)
  <2>1. Del(l, key) = m
    BY <1>4, <1>7
  <2>2. m = [l EXCEPT !.part = [l.part EXCEPT ![p] = q], !.last = l.last, !.nalloc = a]
    BY <1>2 DEF WithoutLast, Lists
  <2>3. a \in Int
    BY <1>2
  <2>4. l.part[s[j]].nelts > 1
    BY <1>3, <1>7
  <2> HIDE DEF a, m
  <2>5. Cut(l, m, Elts(l, s[j])[l.part[s[j]].nelts])
    BY <2>2, <2>3, <2>4, ShortenCut, Zenon
  <2> QED
    BY <1>1, <1>7, <2>1, <2>5
<1>8. CASE i # 1 /\ i # n
  <2>1. Del(l, key) = Split(l, p, i)
    BY <1>4, <1>8
  <2>2. i \in 2 .. n - 1
    BY <1>3, <1>8
  <2>3. Cut(l, Split(l, p, i), Elts(l, p)[i])
    BY <2>2, SplitIs
  <2> QED
    BY <1>1, <2>1, <2>3
<1> QED
  BY <1>5, <1>6, <1>7, <1>8

\* When Del finds nothing, Get finds nothing: a name begins with itself.
LEMMA NoMatchNone ==
    ASSUME NEW l, NEW s, Linked(l, s), NEW key, ~HasMatch(l, key)
    PROVE  Get(l, key) = <<>>
<1>1. Contents(l) \in Seq(Header)
  BY ContentsOf
<1>2. ASSUME NEW x \in 1 .. Len(Contents(l))
      PROVE  Contents(l)[x].key # key
  <2>1. Contents(l)[x] \in Header /\ Contents(l)[x] \in ToSet(Contents(l))
    BY <1>1 DEF ToSet
  <2>2. Contents(l)[x].key \in Keys
    BY <2>1 DEF Header
  <2>3. <<key, Contents(l)[x].key>> \notin Begins
    BY <2>1 DEF HasMatch, Matches
  <2> QED
    BY <2>2, <2>3, HeaderAssumption DEF HeaderAssumption
<1> QED
  BY <1>1, <1>2, GetEmpty

\* Deleting keeps a list linked, and shortens it when Get finds the name.
LEMMA DelStep ==
    ASSUME NEW l, NEW s, Linked(l, s), NEW key
    PROVE  /\ \E t : Linked(Del(l, key), t)
           /\ Get(l, key) # <<>> =>
                Len(Contents(Del(l, key))) = Len(Contents(l)) - 1
<1>1. CASE HasMatch(l, key)
  <2>1. PICK h : Matches(h, key) /\ Cut(l, Del(l, key), h)
    BY <1>1, DelCut
  <2>2. Contents(l) \in Seq(Header)
    BY ContentsOf
  <2>3. PICK q \in 1 .. Len(Contents(l)) : Contents(Del(l, key)) = RemoveAt(Contents(l), q)
    BY <2>1 DEF Cut
  <2>4. Len(RemoveAt(Contents(l), q)) = Len(Contents(l)) - 1
    BY <2>2, RemoveAtIs
  <2> QED
    BY <2>1, <2>3, <2>4 DEF Cut
<1>2. CASE ~HasMatch(l, key)
  <2>1. Del(l, key) = l
    BY <1>2 DEF Del
  <2>2. Get(l, key) = <<>>
    BY <1>2, NoMatchNone
  <2> QED
    BY <2>1, <2>2
<1> QED
  BY <1>1, <1>2

\* The lists that are linked.
LinkedLists == {l \in Lists : \E s : Linked(l, s)}

\* Deleting as long as the name is found leaves a linked list without it.
LEMMA DeletedIs ==
    ASSUME NEW l \in LinkedLists, NEW key
    PROVE  Deleted(l, key) \in LinkedLists /\ Get(Deleted(l, key), key) = <<>>
<1> DEFINE K == Len(Contents(l))
           Step(m) == IF Get(m, key) = <<>> THEN m ELSE Del(m, key)
           step == [x \in LinkedLists \X (1 .. K) |-> Step(x[1])]
           Is(f) == f = [n \in 0 .. K |-> IF n = 0 THEN l ELSE Step(f[n - 1])]
           rest == CHOOSE f : Is(f)
<1>1. Deleted(l, key) = rest[K]
  BY DEF Deleted
<1>2. \A m \in LinkedLists : Contents(m) \in Seq(Header)
  BY ContentsOf DEF LinkedLists
<1>3. K \in Nat
  BY <1>2
<1>4. \A m \in LinkedLists : Step(m) \in LinkedLists
  <2>1. SUFFICES ASSUME NEW m \in LinkedLists PROVE Del(m, key) \in LinkedLists
    OBVIOUS
  <2>2. PICK s : Linked(m, s)
    BY DEF LinkedLists
  <2>3. PICK t : Linked(Del(m, key), t)
    BY <2>2, DelStep
  <2>4. Del(m, key) \in Lists
    BY <2>3 DEF Linked, InBlocks
  <2> QED
    BY <2>3, <2>4 DEF LinkedLists
<1>5. ASSUME NEW m \in LinkedLists, Get(m, key) # <<>>
      PROVE  Len(Contents(Step(m))) = Len(Contents(m)) - 1
  <2>1. PICK s : Linked(m, s)
    BY DEF LinkedLists
  <2>2. Len(Contents(Del(m, key))) = Len(Contents(m)) - 1
    BY <1>5, <2>1, DelStep
  <2> QED
    BY <1>5, <2>2
<1>6. \A m : Get(m, key) = <<>> => Step(m) = m
  OBVIOUS
<1> HIDE DEF K, Step
<1>7. step \in [LinkedLists \X (1 .. K) -> LinkedLists]
  <2>1. \A x \in LinkedLists \X (1 .. K) : Step(x[1]) \in LinkedLists
    BY <1>4
  <2> QED
    BY <2>1
<1>8. \A m \in LinkedLists, n \in 1 .. K : step[<<m, n>>] = Step(m)
  OBVIOUS
<1> HIDE DEF step
<1>9. PICK g \in [0 .. K -> LinkedLists] :
         g[0] = l /\ \A n \in 1 .. K : g[n] = step[<<g[n - 1], n>>]
  <2> DEFINE S == LinkedLists
  <2>1. l \in S /\ step \in [S \X (1 .. K) -> S]
    BY <1>7
  <2> HIDE DEF S
  <2>2. \E g \in [0 .. K -> S] :
           g[0] = l /\ \A n \in 1 .. K : g[n] = step[<<g[n - 1], n>>]
    BY <1>3, <2>1, Recursion
  <2> QED
    BY <2>2 DEF S
<1>10. Is(g)
  <2>1. g = [n \in 0 .. K |-> g[n]]
    OBVIOUS
  <2>2. ASSUME NEW n \in 0 .. K
        PROVE  g[n] = IF n = 0 THEN l ELSE Step(g[n - 1])
    <3>1. CASE n = 0
      BY <1>9, <3>1
    <3>2. CASE n # 0
      <4>1. n \in 1 .. K /\ n - 1 \in 0 .. K
        BY <1>3, <3>2
      <4>2. g[n] = step[<<g[n - 1], n>>] /\ g[n - 1] \in LinkedLists
        BY <1>9, <4>1
      <4>3. g[n] = Step(g[n - 1])
        BY <1>8, <4>1, <4>2
      <4> QED
        BY <3>2, <4>3
    <3> QED
      BY <3>1, <3>2
  <2> QED
    BY <2>1, <2>2
<1>11. Is(rest)
  BY <1>10
<1> HIDE DEF rest
<1>12. /\ rest[0] = l
       /\ \A n \in 1 .. K : rest[n] = Step(rest[n - 1])
  <2>1. \A n \in 0 .. K : rest[n] = IF n = 0 THEN l ELSE Step(rest[n - 1])
    BY <1>11
  <2> HIDE DEF Is
  <2>2. 0 \in 0 .. K /\ \A n \in 1 .. K : n \in 0 .. K /\ n # 0
    BY <1>3
  <2> QED
    BY <2>1, <2>2
<1> HIDE DEF Is
<1> DEFINE Good == {n \in 0 .. K : /\ rest[n] \in LinkedLists
                                  /\ \/ Get(rest[n], key) = <<>>
                                     \/ Len(Contents(rest[n])) = K - n}
<1>13. 0 \in Good
  <2>1. 0 \in 0 .. K /\ K - 0 = K
    BY <1>3
  <2>2. Len(Contents(l)) = K
    BY DEF K
  <2> QED
    BY <1>12, <2>1, <2>2
<1>14. ASSUME NEW n \in 0 .. K - 1, n \in Good
       PROVE  n + 1 \in Good
  <2>1. n + 1 \in 1 .. K /\ (n + 1) - 1 = n /\ n + 1 \in 0 .. K /\ (K - n) - 1 = K - (n + 1)
    BY <1>3
  <2>2. rest[n + 1] = Step(rest[n]) /\ rest[n] \in LinkedLists
    BY <1>12, <1>14, <2>1
  <2>3. rest[n + 1] \in LinkedLists
    BY <1>4, <2>2
  <2>4. CASE Get(rest[n], key) = <<>>
    <3>1. Get(rest[n + 1], key) = <<>>
      BY <1>6, <2>2, <2>4
    <3> QED
      BY <2>1, <2>3, <3>1
  <2>5. CASE Get(rest[n], key) # <<>>
    <3>1. Len(Contents(rest[n])) = K - n
      BY <1>14, <2>5
    <3>2. Len(Contents(rest[n + 1])) = Len(Contents(rest[n])) - 1
      BY <1>5, <2>2, <2>5
    <3>3. Len(Contents(rest[n + 1])) = K - (n + 1)
      BY <2>1, <3>1, <3>2
    <3> QED
      BY <2>1, <2>3, <3>3
  <2> QED
    BY <2>4, <2>5
<1>15. K \in Good
  <2>1. \A n \in 0 .. K - 1 : n \in Good => n + 1 \in Good
    BY <1>14
  <2>2. K \in 0 .. K
    BY <1>3
  <2> HIDE DEF Good
  <2> QED
    BY <1>3, <1>13, <2>1, <2>2, UpTo
<1>16. Get(rest[K], key) = <<>>
  <2>1. CASE Len(Contents(rest[K])) = K - K
    <3>1. Len(Contents(rest[K])) = 0
      BY <1>3, <2>1
    <3>2. Contents(rest[K]) \in Seq(Header)
      BY <1>2, <1>15
    <3>3. \A x \in 1 .. Len(Contents(rest[K])) : Contents(rest[K])[x].key # key
      BY <3>1
    <3> QED
      BY <3>2, <3>3, GetEmpty
  <2> QED
    BY <1>15, <2>1
<1> QED
  BY <1>1, <1>15, <1>16

-----------------------------------------------------------------------------
(* Storing a header in the last part.                                      *)

\* A list that a header is about to be stored in: its last part may be empty.
Open(l, s) ==
    /\ InBlocks(l) /\ IsChain(l, s) /\ LastIsEnd(l, s) /\ Written(l, s) /\ Apart(l, s)
    /\ Len(s) > 1 => \A k \in 1 .. Len(s) : s[k] # l.last => l.part[s[k]].nelts > 0

\* m is l with h in cell y of block b, and part p one longer.
StoredAt(l, m, p, b, y, h) ==
    /\ InBlocks(m) /\ m.last = l.last /\ Len(m.part) = Len(l.part)
    /\ m.nalloc = l.nalloc
    /\ \A u \in 1 .. Len(l.part) : u # p => m.part[u] = l.part[u]
    /\ m.part[p].block = b /\ m.part[p].off = l.part[p].off
    /\ m.part[p].nelts = l.part[p].nelts + 1 /\ m.part[p].next = l.part[p].next
    /\ \A c \in 1 .. Len(l.mem) : c # b => m.mem[c] = l.mem[c]
    /\ Len(m.mem[b]) = Len(l.mem[b])
    /\ \A z \in 1 .. Len(l.mem[b]) : m.mem[b][z] = IF z = y THEN h ELSE l.mem[b][z]

\* That is what Stored does when the cell exists.
LEMMA StoredIs ==
    ASSUME NEW l, InBlocks(l), NEW h \in Header,
           Slot(l) <= Len(l.mem[l.part[l.last].block])
    PROVE  StoredAt(l, Stored(l, h), l.last, l.part[l.last].block, Slot(l), h)
<1> DEFINE p == l.last
           b == l.part[p].block
           y == Slot(l)
           m == Stored(l, h)
           q == [l.part[p] EXCEPT !.nelts = l.part[p].nelts + 1]
           P == [l.part EXCEPT ![p] = q]
           B == [l.mem[b] EXCEPT ![y] = h]
           M == [l.mem EXCEPT ![b] = B]
<1>1. /\ l \in Lists /\ p \in 1 .. Len(l.part) /\ l.part \in Seq(Part)
      /\ l.mem \in Seq(Seq(Cell)) /\ p \in Nat
  BY DEF InBlocks, Lists
<1>2. /\ l.part[p] \in Part /\ b \in 1 .. Len(l.mem) /\ l.mem[b] \in Seq(Cell)
      /\ l.part[p].off \in Nat /\ l.part[p].nelts \in Nat
  BY <1>1, PartType
<1>3. m = [l EXCEPT !.mem = M, !.part = P]
  BY <1>1 DEF Stored, Lists
<1>4. y \in 1 .. Len(l.mem[b])
  <2>1. y = l.part[p].off + l.part[p].nelts + 1 /\ y <= Len(l.mem[b])
    BY DEF Slot
  <2>2. \A u, v \in Nat : u + v + 1 \in Nat /\ u + v + 1 >= 1
    OBVIOUS
  <2> HIDE DEF y
  <2> QED
    <3> DEFINE o == l.part[p].off
               w == l.part[p].nelts
               c == Len(l.mem[b])
    <3>1. o \in Nat /\ w \in Nat /\ c \in Nat /\ y = o + w + 1 /\ y <= c
      <4>1. c \in Nat
        <5>1. \A v \in Seq(Cell) : Len(v) \in Nat
          OBVIOUS
        <5> QED
          BY <1>2, <5>1, Zenon
      <4> QED
        BY <1>2, <2>1, <4>1, Zenon
    <3> HIDE DEF o, w, c
    <3>2. y \in 1 .. c
      BY <3>1
    <3> QED
      BY <3>2 DEF c
<1>5. h \in Cell
  BY DEF Cell
<1> HIDE DEF y, m
<1>6. /\ q.block = b /\ q.off = l.part[p].off
      /\ q.nelts = l.part[p].nelts + 1 /\ q.next = l.part[p].next
  BY <1>2 DEF Part
<1>7. q \in Part
  <2> DEFINE n == l.part[p].nelts + 1
  <2>1. q = [l.part[p] EXCEPT !.nelts = n]
    OBVIOUS
  <2>2. n \in Nat
    BY <1>2
  <2> HIDE DEF n, q
  <2> QED
    BY <1>2, <2>1, <2>2 DEF Part
<1> HIDE DEF q
<1>8. /\ P \in Seq(Part) /\ Len(P) = Len(l.part)
      /\ \A u \in 1 .. Len(l.part) : P[u] = IF u = p THEN q ELSE l.part[u]
  BY <1>1, <1>7, ExceptSeq
<1>9. /\ B \in Seq(Cell) /\ Len(B) = Len(l.mem[b])
      /\ \A z \in 1 .. Len(l.mem[b]) : B[z] = IF z = y THEN h ELSE l.mem[b][z]
  BY <1>2, <1>4, <1>5, ExceptSeq
<1> HIDE DEF B, P
<1>10. /\ M \in Seq(Seq(Cell)) /\ Len(M) = Len(l.mem)
       /\ \A c \in 1 .. Len(l.mem) : M[c] = IF c = b THEN B ELSE l.mem[c]
  <2> DEFINE T == Seq(Cell)
  <2>1. l.mem \in Seq(T) /\ B \in T
    BY <1>1, <1>9
  <2> HIDE DEF T
  <2>2. /\ M \in Seq(T) /\ Len(M) = Len(l.mem)
        /\ \A c \in 1 .. Len(l.mem) : M[c] = IF c = b THEN B ELSE l.mem[c]
    BY <1>2, <2>1, ExceptSeq
  <2> QED
    BY <2>2 DEF T
<1> HIDE DEF M
<1>11. m.part = P /\ m.last = p /\ m.nalloc = l.nalloc /\ m.mem = M
  BY <1>1, <1>3 DEF Lists
<1>12. m \in Lists
  BY <1>1, <1>3, <1>8, <1>10 DEF Lists
<1>13. InBlocks(m)
  <2>1. \A u \in 1 .. Len(l.part) : l.part[u].block \in 1 .. Len(l.mem)
    BY DEF InBlocks
  <2>2. \A u \in 1 .. Len(m.part) : m.part[u].block \in 1 .. Len(m.mem)
    BY <1>2, <1>6, <1>8, <1>10, <1>11, <2>1
  <2> QED
    BY <1>1, <1>8, <1>11, <1>12, <2>2 DEF InBlocks
<1>14. m.part[p] = q /\ \A u \in 1 .. Len(l.part) : u # p => m.part[u] = l.part[u]
  BY <1>1, <1>8, <1>11
<1>15. m.mem[b] = B /\ \A c \in 1 .. Len(l.mem) : c # b => m.mem[c] = l.mem[c]
  BY <1>2, <1>10, <1>11
<1>16. Len(m.part) = Len(l.part)
  BY <1>8, <1>11
<1>17. StoredAt(l, m, p, b, y, h)
  BY <1>6, <1>9, <1>11, <1>13, <1>14, <1>15, <1>16 DEF StoredAt
<1> QED
  BY <1>17 DEF y, m

\* Storing a header keeps the list linked, wherever headers->last points.
LEMMA StoredLinked ==
    ASSUME NEW l, NEW s, Open(l, s), NEW m, NEW h \in Header,
           StoredAt(l, m, l.last, l.part[l.last].block, Slot(l), h),
           Slot(l) <= Len(l.mem[l.part[l.last].block])
    PROVE  Linked(m, s)
<1> DEFINE p == l.last
           b == l.part[p].block
           y == Slot(l)
<1>1. /\ InBlocks(l) /\ IsChain(l, s) /\ LastIsEnd(l, s) /\ Written(l, s) /\ Apart(l, s)
      /\ Len(s) > 1 => \A k \in 1 .. Len(s) : s[k] # p => l.part[s[k]].nelts > 0
  BY DEF Open
<1>2. /\ Len(s) \in Nat \ {0}
      /\ \A k \in 1 .. Len(s) : s[k] \in 1 .. Len(l.part)
  BY <1>1, ChainType
<1>3. p \in 1 .. Len(l.part) /\ l.part[p].nelts \in Nat /\ l.part[p].off \in Nat
  <2>1. p \in 1 .. Len(l.part)
    BY <1>1 DEF InBlocks
  <2> QED
    BY <1>1, <2>1, PartType
<1>4. /\ InBlocks(m) /\ m.last = p /\ Len(m.part) = Len(l.part)
      /\ \A u \in 1 .. Len(l.part) : u # p => m.part[u] = l.part[u]
      /\ m.part[p].block = b /\ m.part[p].off = l.part[p].off
      /\ m.part[p].nelts = l.part[p].nelts + 1 /\ m.part[p].next = l.part[p].next
      /\ \A c \in 1 .. Len(l.mem) : c # b => m.mem[c] = l.mem[c]
      /\ Len(m.mem[b]) = Len(l.mem[b])
      /\ \A z \in 1 .. Len(l.mem[b]) : m.mem[b][z] = IF z = y THEN h ELSE l.mem[b][z]
  BY Zenon DEF StoredAt
<1>5. y = l.part[p].off + l.part[p].nelts + 1 /\ y <= Len(l.mem[b])
  BY DEF Slot
<1> HIDE DEF p, b, y
<1>6. \A k \in 1 .. Len(s) : m.part[s[k]].next = l.part[s[k]].next
  BY <1>2, <1>4
<1>7. IsChain(m, s)
  <2>1. /\ s \in Seq(1 .. Len(m.part)) /\ Len(s) >= 1 /\ s[1] = First
        /\ \A i, k \in 1 .. Len(s) : s[i] = s[k] => i = k
    BY <1>1, <1>4 DEF IsChain
  <2>2. \A i \in 1 .. Len(s) - 1 : m.part[s[i]].next = s[i + 1]
    <3>1. \A i \in 1 .. Len(s) - 1 : i \in 1 .. Len(s) /\ l.part[s[i]].next = s[i + 1]
      BY <1>1, <1>2 DEF IsChain
    <3> QED
      BY <1>6, <3>1
  <2>3. m.part[s[Len(s)]].next = Null
    <3>1. l.part[s[Len(s)]].next = Null
      BY <1>1 DEF IsChain
    <3>2. Len(s) \in 1 .. Len(s)
      BY <1>2
    <3> QED
      BY <1>6, <3>1, <3>2
  <2> QED
    BY <2>1, <2>2, <2>3 DEF IsChain
<1>8. NoneEmpty(m, s)
  <2>1. ASSUME Len(s) > 1, NEW k \in 1 .. Len(s)
        PROVE  m.part[s[k]].nelts > 0
    <3>1. CASE s[k] = p
      <4>1. \A v \in Nat : v + 1 > 0
        OBVIOUS
      <4>2. m.part[p].nelts = l.part[p].nelts + 1
        BY <1>4
      <4> QED
        BY <1>3, <3>1, <4>1, <4>2
    <3>2. CASE s[k] # p
      BY <1>1, <1>2, <1>4, <2>1, <3>2
    <3> QED
      BY <3>1, <3>2
  <2> QED
    BY <2>1 DEF NoneEmpty
<1>9. LastIsEnd(m, s)
  BY <1>1, <1>4 DEF LastIsEnd, p
<1>10. ASSUME NEW k \in 1 .. Len(s)
       PROVE  InMem(m, s[k])
  <2>1. PICK u \in 1 .. Len(l.part) : u = s[k]
    BY <1>2
  <2> DEFINE o == l.part[u].off
             n == l.part[u].nelts
             c == l.part[u].block
             a == l.mem[c]
  <2>2. o \in Nat /\ n \in Nat /\ c \in 1 .. Len(l.mem) /\ a \in Seq(Cell)
    BY <1>1, PartType
  <2>3. o + n <= Len(a) /\ \A x \in 1 .. n : a[o + x] \in Header
    BY <1>1, <2>1 DEF Written, InMem
  <2>4. /\ m.part[u].off = o /\ m.part[u].block = c
        /\ m.part[u].nelts = IF u = p THEN n + 1 ELSE n
    BY <1>4, <2>1 DEF b
  <2>5. /\ Len(m.mem[c]) = Len(a)
        /\ \A z \in 1 .. Len(a) : m.mem[c][z] = IF c = b /\ z = y THEN h ELSE a[z]
    BY <1>4, <2>2
  <2>6. u = p => c = b /\ y = o + (n + 1)
    <3>1. \A v, w \in Nat : v + w + 1 = v + (w + 1)
      OBVIOUS
    <3> QED
      BY <1>3, <1>5, <3>1 DEF b
  <2> HIDE DEF o, n, c, a
  <2>7. Len(a) \in Nat
    BY <2>2
  <2>8. m.part[u].off + m.part[u].nelts <= Len(m.mem[m.part[u].block])
    <3>1. CASE u = p
      <4>1. o + (n + 1) <= Len(a)
        BY <1>5, <2>6, <3>1 DEF a
      <4> QED
        BY <2>4, <2>5, <3>1, <4>1
    <3>2. CASE u # p
      BY <2>3, <2>4, <2>5, <3>2
    <3> QED
      BY <3>1, <3>2
  <2>9. ASSUME NEW x \in 1 .. m.part[u].nelts
        PROVE  m.mem[m.part[u].block][m.part[u].off + x] \in Header
    <3>1. CASE u = p /\ x = n + 1
      <4>1. y \in 1 .. Len(a) /\ y = o + x
        <5>1. y = o + x /\ y <= Len(a)
          BY <1>5, <2>6, <3>1 DEF a
        <5>2. o + x >= 1 /\ o + x \in Nat
          BY <2>2, <3>1
        <5> QED
          BY <2>7, <5>1, <5>2
      <4>2. m.mem[c][y] = h
        BY <2>5, <2>6, <3>1, <4>1
      <4> QED
        BY <2>4, <4>1, <4>2
    <3>2. CASE ~(u = p /\ x = n + 1)
      <4>1. x \in 1 .. n /\ o + x \in 1 .. Len(a)
        BY <2>2, <2>3, <2>4, <2>7, <3>2
      <4>2. m.mem[c][o + x] \in Header
        BY <2>3, <2>5, <4>1
      <4> QED
        BY <2>4, <4>2
    <3> QED
      BY <3>1, <3>2
  <2> QED
    BY <2>1, <2>8, <2>9, Zenon DEF InMem
<1>11. Written(m, s)
  BY <1>10 DEF Written
<1>12. ASSUME NEW i \in 1 .. Len(s), NEW k \in 1 .. Len(s), i < k,
              m.part[s[i]].block = m.part[s[k]].block
       PROVE  m.part[s[i]].off + m.part[s[i]].nelts <= m.part[s[k]].off
  <2>1. s[i] # p
    <3>1. i # Len(s) /\ Len(s) \in 1 .. Len(s)
      BY <1>2, <1>12
    <3>2. s[i] # s[Len(s)]
      BY <1>1, <3>1 DEF IsChain
    <3> QED
      BY <1>1, <3>2 DEF LastIsEnd, p
  <2>2. \A u \in 1 .. Len(l.part) : m.part[u].block = l.part[u].block /\ m.part[u].off = l.part[u].off
    BY <1>4 DEF b
  <2>3. l.part[s[i]].block = l.part[s[k]].block /\ m.part[s[k]].off = l.part[s[k]].off
    BY <1>2, <1>12, <2>2
  <2>4. l.part[s[i]].off + l.part[s[i]].nelts <= l.part[s[k]].off
    BY <1>1, <1>12, <2>3 DEF Apart
  <2>5. m.part[s[i]] = l.part[s[i]]
    BY <1>2, <1>4, <2>1
  <2> QED
    BY <2>3, <2>4, <2>5
<1>13. Apart(m, s)
  BY <1>12 DEF Apart
<1> QED
  BY <1>4, <1>7, <1>8, <1>9, <1>11, <1>13 DEF Linked

\* When headers->last is the end of the chain, the header comes last.
LEMMA StoredContents ==
    ASSUME NEW l, NEW s, Open(l, s), NEW m, NEW h \in Header, Linked(m, s),
           StoredAt(l, m, l.last, l.part[l.last].block, Slot(l), h),
           Slot(l) <= Len(l.mem[l.part[l.last].block]), l.last = s[Len(s)]
    PROVE  Contents(m) = Append(Contents(l), h)
<1> DEFINE p == l.last
           b == l.part[p].block
           y == Slot(l)
           n == Len(s)
           e == EltsOf(l, s)
           f == EltsOf(m, s)
<1>1. InBlocks(l) /\ IsChain(l, s) /\ Written(l, s) /\ Apart(l, s)
  BY DEF Open
<1>2. /\ n \in Nat \ {0} /\ n \in 1 .. n
      /\ \A k \in 1 .. n : s[k] \in 1 .. Len(l.part)
  BY <1>1, ChainType
<1>3. PICK pre : IsCat(pre, e, n, Header) /\ Contents(l) = pre[n]
  BY <1>1, ContentsOfParts
<1>4. PICK post : IsCat(post, f, n, Header) /\ Contents(m) = post[n]
  BY ContentsOf
<1>5. \A k \in 1 .. n : /\ e[k] = Elts(l, s[k]) /\ e[k] \in Seq(Header)
                         /\ Len(e[k]) = l.part[s[k]].nelts
  <2>1. AllHeaders(l, s)
    BY <1>1, ContentsOfParts
  <2> QED
    BY <2>1 DEF AllHeaders
<1>6. \A k \in 1 .. n : /\ f[k] = Elts(m, s[k]) /\ f[k] \in Seq(Header)
                         /\ Len(f[k]) = m.part[s[k]].nelts
  <2>1. AllHeaders(m, s)
    BY ContentsOf
  <2> QED
    BY <2>1 DEF AllHeaders
<1>7. /\ InBlocks(m) /\ m.last = p /\ Len(m.part) = Len(l.part)
      /\ \A u \in 1 .. Len(l.part) : u # p => m.part[u] = l.part[u]
      /\ m.part[p].block = b /\ m.part[p].off = l.part[p].off
      /\ m.part[p].nelts = l.part[p].nelts + 1 /\ m.part[p].next = l.part[p].next
      /\ \A c \in 1 .. Len(l.mem) : c # b => m.mem[c] = l.mem[c]
      /\ Len(m.mem[b]) = Len(l.mem[b])
      /\ \A z \in 1 .. Len(l.mem[b]) : m.mem[b][z] = IF z = y THEN h ELSE l.mem[b][z]
  BY Zenon DEF StoredAt
<1>8. y = l.part[p].off + l.part[p].nelts + 1 /\ y <= Len(l.mem[b])
  BY DEF Slot
<1>9. /\ p \in 1 .. Len(l.part) /\ l.part[p].nelts \in Nat /\ l.part[p].off \in Nat
      /\ b \in 1 .. Len(l.mem) /\ l.mem[b] \in Seq(Cell)
  BY <1>1, PartType DEF InBlocks
<1>10. ASSUME NEW k \in 1 .. n PROVE InMem(l, s[k]) /\ InMem(m, s[k])
  BY <1>1 DEF Written, Linked
<1> HIDE DEF b, y, n, e, f
<1>11. ASSUME NEW k \in 1 .. n - 1
       PROVE  e[k] = f[k]
  <2>1. k \in 1 .. n /\ k < n /\ s[k] # p
    <3>1. k \in 1 .. n /\ k < n
      BY <1>2
    <3> QED
      BY <1>1, <1>2, <3>1 DEF IsChain, n
  <2>2. PICK u \in 1 .. Len(l.part) : u = s[k]
    BY <1>2, <2>1
  <2> DEFINE o == l.part[u].off
             w == l.part[u].nelts
             c == l.part[u].block
  <2>3. o \in Nat /\ w \in Nat /\ c \in 1 .. Len(l.mem) /\ l.mem[c] \in Seq(Cell)
    BY <1>1, PartType
  <2>4. o + w <= Len(l.mem[c])
    BY <1>10, <2>1, <2>2 DEF InMem
  <2>5. m.part[u] = l.part[u]
    BY <1>7, <2>1, <2>2
  <2>6. c = b => o + w <= l.part[p].off
    BY <1>1, <1>2, <2>1, <2>2 DEF Apart, b, n
  <2>7. u \in 1 .. Len(m.part)
    BY <1>7
  <2>8. /\ Len(Elts(l, u)) = w
        /\ \A x \in 1 .. w : Elts(l, u)[x] = l.mem[c][o + x]
    <3>1. InMem(l, u)
      BY <1>10, <2>1, <2>2
    <3> QED
      BY <1>1, <3>1, EltsType
  <2>9. /\ Len(Elts(m, u)) = w
        /\ \A x \in 1 .. w : Elts(m, u)[x] = m.mem[c][o + x]
    <3>1. InMem(m, u) /\ InBlocks(m)
      BY <1>7, <1>10, <2>1, <2>2
    <3>2. /\ Len(Elts(m, u)) = m.part[u].nelts
          /\ \A x \in 1 .. m.part[u].nelts :
               Elts(m, u)[x] = m.mem[m.part[u].block][m.part[u].off + x]
      BY <2>7, <3>1, EltsType
    <3> QED
      BY <2>5, <3>2
  <2> HIDE DEF o, w, c
  <2>10. ASSUME NEW x \in 1 .. w
         PROVE  m.mem[c][o + x] = l.mem[c][o + x]
    <3>1. CASE c = b
      <4>1. o + x \in 1 .. Len(l.mem[b])
        <5>1. PICK d \in Nat : d = Len(l.mem[b])
          BY <1>9
        <5>2. o + w <= d
          BY <2>4, <3>1, <5>1
        <5>3. o + x \in 1 .. d
          BY <2>3, <5>2
        <5> QED
          BY <5>1, <5>3
      <4>2. o + x # y
        <5> DEFINE g == l.part[p].off
                   d == l.part[p].nelts
        <5>1. g \in Nat /\ d \in Nat /\ y = g + d + 1 /\ o + w <= g
          BY <1>8, <1>9, <2>6, <3>1
        <5> HIDE DEF g, d
        <5> QED
          BY <2>3, <5>1
      <4> QED
        BY <1>7, <3>1, <4>1, <4>2
    <3>2. CASE c # b
      BY <1>7, <2>3, <3>2
    <3> QED
      BY <3>1, <3>2
  <2>11. Elts(l, u) \in Seq(Header) /\ Elts(m, u) \in Seq(Header)
    BY <1>5, <1>6, <2>1, <2>2
  <2>12. Elts(l, u) = Elts(m, u)
    BY <2>8, <2>9, <2>10, <2>11, SeqEqual
  <2> QED
    BY <1>5, <1>6, <2>1, <2>2, <2>12
<1>12. f[n] = Append(e[n], h)
  <2> DEFINE o == l.part[p].off
             w == l.part[p].nelts
             a == Append(e[n], h)
  <2>1. p = s[n]
    BY DEF n
  <2>2. InMem(l, p) /\ InMem(m, p) /\ p \in 1 .. Len(m.part)
    BY <1>2, <1>7, <1>9, <1>10, <2>1
  <2>3. \A x \in 1 .. w : Elts(l, p)[x] = l.mem[b][o + x]
    <3>1. \A x \in 1 .. l.part[p].nelts :
             Elts(l, p)[x] = l.mem[l.part[p].block][l.part[p].off + x]
      <4>1. EltsAre(l, p)
        BY <1>1, <1>9, <2>2, EltsIs
      <4> QED
        BY <4>1 DEF EltsAre
    <3> QED
      BY <3>1 DEF b
  <2>4. \A x \in 1 .. w + 1 : Elts(m, p)[x] = m.mem[b][o + x]
    <3>1. InBlocks(m)
      BY <1>7
    <3>2. \A x \in 1 .. m.part[p].nelts :
             Elts(m, p)[x] = m.mem[m.part[p].block][m.part[p].off + x]
      <4>1. EltsAre(m, p)
        BY <2>2, <3>1, EltsIs
      <4> QED
        BY <4>1 DEF EltsAre
    <3> QED
      BY <1>7, <3>2
  <2>5. e[n] = Elts(l, p) /\ e[n] \in Seq(Header) /\ Len(e[n]) = w
    BY <1>2, <1>5, <2>1
  <2>6. f[n] = Elts(m, p) /\ f[n] \in Seq(Header) /\ Len(f[n]) = w + 1
    BY <1>2, <1>6, <1>7, <2>1
  <2>7. o \in Nat /\ w \in Nat /\ y = o + w + 1 /\ Len(l.mem[b]) \in Nat
    BY <1>8, <1>9
  <2> HIDE DEF o, w
  <2>8. /\ a \in Seq(Header) /\ Len(a) = w + 1 /\ a[w + 1] = h
        /\ \A x \in 1 .. w : a[x] = e[n][x]
    BY <2>5, <2>7
  <2> HIDE DEF a
  <2>9. ASSUME NEW x \in 1 .. w + 1
        PROVE  f[n][x] = a[x]
    <3>1. o + x \in 1 .. Len(l.mem[b])
      BY <1>8, <2>7
    <3>2. f[n][x] = IF o + x = y THEN h ELSE l.mem[b][o + x]
      BY <1>7, <2>4, <2>6, <3>1
    <3>3. CASE x = w + 1
      BY <2>7, <2>8, <3>2, <3>3
    <3>4. CASE x # w + 1
      <4>1. x \in 1 .. w /\ o + x # y
        BY <2>7, <3>4
      <4> QED
        BY <2>3, <2>5, <2>8, <3>2, <4>1
    <3> QED
      BY <3>3, <3>4
  <2>10. f[n] = a
    BY <2>6, <2>8, <2>9, SeqEqual
  <2> QED
    BY <2>10 DEF a
<1>13. n - 1 \in Nat /\ n - 1 <= n /\ n - 1 \in 0 .. n - 1 /\ n - 1 \in 0 .. n
  BY <1>2
<1>14. SameUpTo(pre, post, n - 1)
  BY <1>2, <1>3, <1>4, <1>11, <1>13, CatSame
<1> DEFINE v == pre[n - 1]
           x == e[n]
<1>15. /\ v \in Seq(Header) /\ x \in Seq(Header) /\ pre[n] = v \o x
       /\ post[n] = v \o Append(x, h)
  <2>1. pre[n] = pre[n - 1] \o e[n] /\ pre[n - 1] \in Seq(Header)
    BY <1>2, <1>3, <1>13 DEF IsCat
  <2>2. post[n] = post[n - 1] \o f[n]
    BY <1>2, <1>4 DEF IsCat
  <2>3. post[n - 1] = pre[n - 1]
    BY <1>13, <1>14 DEF SameUpTo
  <2> QED
    BY <1>2, <1>5, <1>12, <2>1, <2>2, <2>3
<1> HIDE DEF v, x
<1>16. v \o Append(x, h) = Append(v \o x, h)
  <2>1. \A c, d \in Seq(Header) : c \o Append(d, h) = Append(c \o d, h)
    OBVIOUS
  <2> QED
    BY <1>15, <2>1
<1> QED
  BY <1>3, <1>4, <1>15, <1>16

-----------------------------------------------------------------------------
(* A new part for it.                                                      *)

\* m is l with a new, empty part after its last one.
GrownAt(l, m) ==
    /\ InBlocks(m) /\ m.last = Len(l.part) + 1 /\ Len(m.part) = Len(l.part) + 1
    /\ m.nalloc = l.nalloc
    /\ \A u \in 1 .. Len(l.part) : u # l.last => m.part[u] = l.part[u]
    /\ m.part[l.last].block = l.part[l.last].block
    /\ m.part[l.last].off = l.part[l.last].off
    /\ m.part[l.last].nelts = l.part[l.last].nelts
    /\ m.part[l.last].next = Len(l.part) + 1
    /\ m.part[Len(l.part) + 1].block = Len(l.mem) + 1
    /\ m.part[Len(l.part) + 1].off = 0 /\ m.part[Len(l.part) + 1].nelts = 0
    /\ m.part[Len(l.part) + 1].next = Null
    /\ \A c \in 1 .. Len(l.mem) : m.mem[c] = l.mem[c]
    /\ Len(m.mem[Len(l.mem) + 1]) = l.nalloc

\* That is what Grown does to a list whose last part is full.
LEMMA GrownIs ==
    ASSUME NEW l, InBlocks(l), l.part[l.last].nelts = l.nalloc
    PROVE  GrownAt(l, Grown(l))
<1> DEFINE p == l.last
           N == Len(l.part)
           K == Len(l.mem)
           m == Grown(l)
           e == [block |-> K + 1, off |-> 0, nelts |-> 0, next |-> Null]
           Q == Append(l.part, e)
           q == [Q[p] EXCEPT !.next = N + 1]
           P == [Q EXCEPT ![p] = q]
           a == [i \in 1 .. l.nalloc |-> <<>>]
           M == Append(l.mem, a)
           z == N + 1
<1>1. /\ l \in Lists /\ p \in 1 .. N /\ l.part \in Seq(Part) /\ l.mem \in Seq(Seq(Cell))
      /\ N \in Nat /\ K \in Nat
  BY DEF InBlocks, Lists
<1>2. /\ l.part[p] \in Part /\ l.part[p].nelts \in Nat
      /\ l.part[p].block \in 1 .. K
  BY <1>1, PartType
<1>3. m = [part |-> P, last |-> z, nalloc |-> l.nalloc, mem |-> M]
  BY DEF Grown
<1>4. a \in Seq(Cell) /\ Len(a) = l.nalloc
  <2>1. l.nalloc \in Nat
    BY <1>2
  <2> DEFINE n == l.nalloc
  <2>2. n \in Nat /\ <<>> \in Cell
    BY <2>1 DEF Cell
  <2> HIDE DEF n
  <2>3. [i \in 1 .. n |-> <<>>] \in Seq(Cell) /\ Len([i \in 1 .. n |-> <<>>]) = n
    BY <2>2
  <2> QED
    BY <2>3 DEF n
<1>5. e.block = K + 1 /\ e.off = 0 /\ e.nelts = 0 /\ e.next = Null
  OBVIOUS
<1>6. e \in Part
  <2> DEFINE c == K + 1
  <2>1. e = [block |-> c, off |-> 0, nelts |-> 0, next |-> Null]
    OBVIOUS
  <2>2. c \in Nat /\ Null \in Nat
    BY <1>1 DEF Null
  <2> HIDE DEF c, e
  <2> QED
    BY <2>1, <2>2 DEF Part
<1> HIDE DEF e, a, m
<1>7. /\ Q \in Seq(Part) /\ Len(Q) = N + 1 /\ Q[N + 1] = e
      /\ \A u \in 1 .. N : Q[u] = l.part[u]
  BY <1>1, <1>6
<1>8. /\ M \in Seq(Seq(Cell)) /\ Len(M) = K + 1 /\ M[K + 1] = a
      /\ \A c \in 1 .. K : M[c] = l.mem[c]
  <2> DEFINE T == Seq(Cell)
  <2>1. l.mem \in Seq(T) /\ a \in T
    BY <1>1, <1>4
  <2> HIDE DEF T
  <2>2. /\ M \in Seq(T) /\ Len(M) = K + 1 /\ M[K + 1] = a
        /\ \A c \in 1 .. K : M[c] = l.mem[c]
    BY <2>1
  <2> QED
    BY <2>2 DEF T
<1> HIDE DEF Q, M, N, K
<1>9. Q[p] = l.part[p] /\ p \in 1 .. Len(Q) /\ p # N + 1 /\ N + 1 \in 1 .. Len(Q)
  BY <1>1, <1>7
<1>10. /\ q.block = l.part[p].block /\ q.off = l.part[p].off
       /\ q.nelts = l.part[p].nelts /\ q.next = N + 1
  BY <1>2, <1>9 DEF Part
<1>11. q \in Part
  <2>1. q = [l.part[p] EXCEPT !.next = z]
    BY <1>9
  <2>2. z \in Nat
    BY <1>1
  <2> HIDE DEF z, q
  <2> QED
    BY <1>2, <2>1, <2>2 DEF Part
<1> HIDE DEF q
<1>12. /\ P \in Seq(Part) /\ Len(P) = Len(Q)
       /\ \A u \in 1 .. Len(Q) : P[u] = IF u = p THEN q ELSE Q[u]
  BY <1>7, <1>9, <1>11, ExceptSeq
<1> HIDE DEF P
<1>13. z \in Nat /\ l.nalloc \in Int /\ z = N + 1
  BY <1>1, <1>2
<1> HIDE DEF z
<1>14. m.part = P /\ m.last = z /\ m.nalloc = l.nalloc /\ m.mem = M
  BY <1>3
<1>15. m \in Lists
  BY <1>3, <1>8, <1>12, <1>13 DEF Lists
<1>16. ASSUME NEW u \in 1 .. N, u # p
       PROVE  m.part[u] = l.part[u]
  <2>1. u \in 1 .. Len(Q)
    BY <1>1, <1>7
  <2> QED
    BY <1>7, <1>12, <1>14, <1>16, <2>1
<1>17. m.part[p] = q /\ m.part[N + 1] = e
  BY <1>7, <1>9, <1>12, <1>14
<1>18. \A c \in 1 .. K : c \in 1 .. K + 1
  BY <1>1
<1>19. InBlocks(m)
  <2>1. ASSUME NEW u \in 1 .. N + 1
        PROVE  m.part[u].block \in 1 .. Len(m.mem)
    <3>1. CASE u = p
      BY <1>2, <1>8, <1>10, <1>14, <1>17, <1>18, <3>1
    <3>2. CASE u = N + 1
      <4>1. K + 1 \in 1 .. K + 1
        BY <1>1
      <4> QED
        BY <1>5, <1>8, <1>14, <1>17, <3>2, <4>1
    <3>3. CASE u # p /\ u # N + 1
      <4>1. u \in 1 .. N
        BY <1>1, <3>3
      <4>2. l.part[u].block \in 1 .. K
        BY <4>1 DEF InBlocks, N, K
      <4> QED
        BY <1>8, <1>14, <1>16, <1>18, <3>3, <4>1, <4>2
    <3> QED
      BY <3>1, <3>2, <3>3
  <2>2. Len(m.part) = N + 1 /\ m.last \in 1 .. N + 1
    BY <1>1, <1>7, <1>12, <1>13, <1>14
  <2> QED
    BY <1>15, <2>1, <2>2 DEF InBlocks
<1>20. m.mem[K + 1] = a /\ \A c \in 1 .. K : m.mem[c] = l.mem[c]
  BY <1>8, <1>14
<1>21. Len(m.part) = N + 1
  BY <1>7, <1>12, <1>14
<1>22. GrownAt(l, m)
  BY <1>4, <1>5, <1>10, <1>13, <1>14, <1>16, <1>17, <1>19, <1>20, <1>21 DEF GrownAt, N, K
<1> QED
  BY <1>22 DEF m

\* What appending does to the place headers->last has: at the end of what the
\* loops reach it stays there; where they do not reach it, they do not after.
KeepsPlace(l, s, m, t) ==
    /\ l.last = s[Len(s)] => m.last = t[Len(t)]
    /\ l.last # s[Len(s)] => \A k \in 1 .. Len(t) : m.last # t[k]

\* The parts that were there hold what they held.
LEMMA GrownKeeps ==
    ASSUME NEW l, InBlocks(l), NEW m, GrownAt(l, m), NEW u \in 1 .. Len(l.part)
    PROVE  /\ u \in 1 .. Len(m.part)
           /\ m.part[u].block = l.part[u].block /\ m.part[u].off = l.part[u].off
           /\ m.part[u].nelts = l.part[u].nelts
           /\ m.mem[m.part[u].block] = l.mem[l.part[u].block]
           /\ InMem(l, u) => InMem(m, u)
           /\ Elts(m, u) = Elts(l, u)
<1>1. Len(l.part) \in Nat /\ Len(m.part) = Len(l.part) + 1
  BY DEF InBlocks, Lists, GrownAt
<1>2. u \in 1 .. Len(m.part)
  BY <1>1
<1>3. /\ m.part[u].block = l.part[u].block /\ m.part[u].off = l.part[u].off
      /\ m.part[u].nelts = l.part[u].nelts
  BY DEF GrownAt
<1>4. m.mem[m.part[u].block] = l.mem[l.part[u].block]
  <2>1. l.part[u].block \in 1 .. Len(l.mem)
    BY DEF InBlocks
  <2>2. \A c \in 1 .. Len(l.mem) : m.mem[c] = l.mem[c]
    BY DEF GrownAt
  <2> QED
    BY <1>3, <2>1, <2>2
<1>5. InMem(l, u) => InMem(m, u)
  BY <1>3, <1>4 DEF InMem
<1>6. Elts(m, u) = Elts(l, u)
  BY <1>3, <1>4 DEF Elts
<1> QED
  BY <1>2, <1>3, <1>4, <1>5, <1>6

\* When the loops do not reach headers->last, they do not reach the new part.
LEMMA GrownApart ==
    ASSUME NEW l, NEW s, Linked(l, s), NEW m, GrownAt(l, m), l.last # s[Len(s)]
    PROVE  Open(m, s) /\ KeepsPlace(l, s, m, s)
<1>1. /\ InBlocks(l) /\ IsChain(l, s) /\ NoneEmpty(l, s) /\ LastIsEnd(l, s)
      /\ Written(l, s) /\ Apart(l, s)
  BY DEF Linked
<1>2. /\ Len(s) \in Nat \ {0} /\ Len(l.part) \in Nat
      /\ \A k \in 1 .. Len(s) : s[k] \in 1 .. Len(l.part)
  BY <1>1, ChainType
<1>3. \A k \in 1 .. Len(s) : s[k] # l.last
  BY <1>1 DEF LastIsEnd
<1>4. \A k \in 1 .. Len(s) : m.part[s[k]] = l.part[s[k]]
  BY <1>2, <1>3 DEF GrownAt
<1>5. m.last = Len(l.part) + 1 /\ Len(m.part) = Len(l.part) + 1 /\ InBlocks(m)
  BY DEF GrownAt
<1>6. \A k \in 1 .. Len(s) : m.last # s[k]
  BY <1>2, <1>5
<1>7. IsChain(m, s)
  <2>1. /\ s \in Seq(1 .. Len(l.part)) /\ Len(s) >= 1 /\ s[1] = First
        /\ \A i, k \in 1 .. Len(s) : s[i] = s[k] => i = k
    BY <1>1 DEF IsChain
  <2>2. s \in Seq(1 .. Len(m.part))
    <3>1. \A k \in 1 .. Len(s) : s[k] \in 1 .. Len(m.part)
      BY <1>2, <1>5
    <3>2. s \in [1 .. Len(s) -> 1 .. Len(m.part)]
      BY <2>1, <3>1
    <3> QED
      BY <1>2, <3>2
  <2>3. \A i \in 1 .. Len(s) - 1 : m.part[s[i]].next = s[i + 1]
    <3>1. \A i \in 1 .. Len(s) - 1 : i \in 1 .. Len(s) /\ l.part[s[i]].next = s[i + 1]
      BY <1>1, <1>2 DEF IsChain
    <3> QED
      BY <1>4, <3>1
  <2>4. m.part[s[Len(s)]].next = Null
    BY <1>1, <1>2, <1>4 DEF IsChain
  <2> QED
    BY <2>1, <2>2, <2>3, <2>4 DEF IsChain
<1>8. Written(m, s)
  <2>1. ASSUME NEW k \in 1 .. Len(s) PROVE InMem(m, s[k])
    <3>1. PICK u \in 1 .. Len(l.part) : u = s[k]
      BY <1>2
    <3>2. InMem(l, u)
      BY <1>1, <3>1 DEF Written
    <3>3. InMem(m, u)
      BY <1>1, <3>2, GrownKeeps
    <3> QED
      BY <3>1, <3>3
  <2> QED
    BY <2>1 DEF Written
<1>9. Apart(m, s)
  BY <1>1, <1>4 DEF Apart
<1>10. Len(s) > 1 => \A k \in 1 .. Len(s) : s[k] # m.last => m.part[s[k]].nelts > 0
  BY <1>1, <1>4 DEF NoneEmpty
<1>11. LastIsEnd(m, s)
  BY <1>6 DEF LastIsEnd
<1> QED
  BY <1>5, <1>6, <1>7, <1>8, <1>9, <1>10, <1>11 DEF Open, KeepsPlace

\* Otherwise the new part follows the others.
LEMMA GrownOn ==
    ASSUME NEW l, NEW s, Linked(l, s), NEW m, GrownAt(l, m), l.last = s[Len(s)],
           l.part[l.last].nelts > 0
    PROVE  \E t : Open(m, t) /\ m.last = t[Len(t)] /\ Contents(m) = Contents(l)
<1> DEFINE n == Len(s)
           N == Len(l.part)
           t == Append(s, N + 1)
<1>1. /\ InBlocks(l) /\ IsChain(l, s) /\ NoneEmpty(l, s) /\ Written(l, s) /\ Apart(l, s)
  BY DEF Linked
<1>2. /\ n \in Nat \ {0} /\ N \in Nat /\ Len(l.mem) \in Nat
      /\ \A k \in 1 .. n : s[k] \in 1 .. N
  <2>1. l.mem \in Seq(Seq(Cell))
    BY <1>1 DEF InBlocks, Lists
  <2>2. Len(l.mem) \in Nat
    BY <2>1
  <2> QED
    BY <1>1, <2>2, ChainType
<1>3. /\ m.last = N + 1 /\ Len(m.part) = N + 1 /\ InBlocks(m)
      /\ \A u \in 1 .. N : u # l.last => m.part[u] = l.part[u]
      /\ m.part[l.last].next = N + 1
      /\ m.part[N + 1].block = Len(l.mem) + 1
      /\ m.part[N + 1].off = 0 /\ m.part[N + 1].nelts = 0 /\ m.part[N + 1].next = Null
  BY DEF GrownAt
<1>4. /\ s \in Seq(1 .. N) /\ s[1] = First
      /\ \A i, k \in 1 .. n : s[i] = s[k] => i = k
      /\ \A i \in 1 .. n - 1 : l.part[s[i]].next = s[i + 1]
  BY <1>1 DEF IsChain
<1>5. l.last = s[n] /\ N = Len(l.part)
  OBVIOUS
<1> HIDE DEF N
<1>6. s \in Seq(1 .. N + 1)
  <2>1. \A k \in 1 .. n : s[k] \in 1 .. N + 1
    BY <1>2
  <2>2. s \in [1 .. n -> 1 .. N + 1]
    BY <1>4, <2>1
  <2> QED
    BY <1>2, <2>2
<1>7. /\ t \in Seq(1 .. N + 1) /\ Len(t) = n + 1 /\ t[n + 1] = N + 1
      /\ \A k \in 1 .. n : t[k] = s[k]
  <2> DEFINE S == 1 .. N + 1
  <2>1. s \in Seq(S) /\ N + 1 \in S
    BY <1>2, <1>6
  <2> HIDE DEF S
  <2>2. /\ t \in Seq(S) /\ Len(t) = n + 1 /\ t[n + 1] = N + 1
        /\ \A k \in 1 .. n : t[k] = s[k]
    BY <2>1
  <2> QED
    BY <2>2 DEF S
<1> HIDE DEF t, n
<1>8. \A k \in 1 .. n + 1 : k = n + 1 \/ (k \in 1 .. n /\ k < n + 1)
  BY <1>2
<1>9. \A k \in 1 .. n : t[k] = s[k] /\ t[k] \in 1 .. N /\ t[k] # N + 1
  BY <1>2, <1>7
<1>10. \A u \in 1 .. N :
          /\ m.part[u].block = l.part[u].block /\ m.part[u].off = l.part[u].off
          /\ m.part[u].nelts = l.part[u].nelts /\ Elts(m, u) = Elts(l, u)
          /\ InMem(l, u) => InMem(m, u)
  BY <1>1, GrownKeeps DEF N
<1>11. IsChain(m, t)
  <2>1. t \in Seq(1 .. Len(m.part)) /\ Len(t) >= 1 /\ t[1] = First
    BY <1>2, <1>3, <1>4, <1>7
  <2>2. ASSUME NEW i \in 1 .. n + 1, NEW k \in 1 .. n + 1, t[i] = t[k]
        PROVE  i = k
    BY <1>4, <1>7, <1>8, <1>9, <2>2
  <2>3. ASSUME NEW i \in 1 .. n
        PROVE  m.part[t[i]].next = t[i + 1]
    <3>1. CASE i = n
      BY <1>2, <1>3, <1>5, <1>7, <1>9, <3>1
    <3>2. CASE i # n
      <4>1. i \in 1 .. n - 1 /\ i + 1 \in 1 .. n /\ n \in 1 .. n
        BY <1>2, <3>2
      <4>2. s[i] # l.last
        BY <1>4, <1>5, <3>2, <4>1
      <4>3. m.part[s[i]] = l.part[s[i]]
        BY <1>2, <1>3, <4>2
      <4> QED
        BY <1>4, <1>9, <4>1, <4>3
    <3> QED
      BY <3>1, <3>2
  <2>4. (n + 1) - 1 = n
    BY <1>2
  <2>5. m.part[t[Len(t)]].next = Null
    BY <1>3, <1>7
  <2> QED
    BY <1>7, <2>1, <2>2, <2>3, <2>4, <2>5 DEF IsChain
<1>12. ASSUME NEW k \in 1 .. n + 1
       PROVE  InMem(m, t[k])
  <2>1. CASE k = n + 1
    <3>1. N + 1 \in 1 .. Len(m.part)
      BY <1>2, <1>3
    <3>2. m.mem[m.part[N + 1].block] \in Seq(Cell)
      BY <1>3, <3>1, PartType
    <3>3. 0 + 0 <= Len(m.mem[m.part[N + 1].block]) /\ 1 .. 0 = {}
      <4>1. \A v \in Seq(Cell) : 0 + 0 <= Len(v)
        OBVIOUS
      <4>2. 1 .. 0 = {}
        OBVIOUS
      <4> QED
        BY <3>2, <4>1, <4>2
    <3>4. InMem(m, N + 1)
      BY <1>3, <3>3 DEF InMem
    <3> QED
      BY <1>7, <2>1, <3>4
  <2>2. CASE k \in 1 .. n
    BY <1>1, <1>2, <1>9, <1>10, <2>2 DEF Written, n
  <2> QED
    BY <1>8, <2>1, <2>2
<1>13. Written(m, t)
  BY <1>7, <1>12 DEF Written
<1>14. ASSUME NEW i \in 1 .. n + 1, NEW k \in 1 .. n + 1, i < k,
              m.part[t[i]].block = m.part[t[k]].block
       PROVE  m.part[t[i]].off + m.part[t[i]].nelts <= m.part[t[k]].off
  <2>1. i \in 1 .. n
    BY <1>2, <1>14
  <2>2. l.part[s[i]].block \in 1 .. Len(l.mem)
    BY <1>1, <1>2, <2>1 DEF InBlocks, N
  <2>3. m.part[t[i]].block # Len(l.mem) + 1
    <3>1. m.part[t[i]].block = l.part[s[i]].block
      BY <1>9, <1>10, <2>1
    <3>2. \A v \in Nat : \A w \in 1 .. v : w # v + 1
      OBVIOUS
    <3> QED
      BY <1>2, <2>2, <3>1, <3>2
  <2>4. k \in 1 .. n
    BY <1>3, <1>7, <1>8, <1>14, <2>3
  <2>5. l.part[s[i]].off + l.part[s[i]].nelts <= l.part[s[k]].off
    <3>1. l.part[s[i]].block = l.part[s[k]].block
      <4>1. m.part[t[i]].block = l.part[s[i]].block
        BY <1>9, <1>10, <2>1
      <4>2. m.part[t[k]].block = l.part[s[k]].block
        BY <1>9, <1>10, <2>4
      <4> QED
        BY <1>14, <4>1, <4>2
    <3> QED
      BY <1>1, <1>14, <2>1, <2>4, <3>1 DEF Apart, n
  <2> QED
    BY <1>9, <1>10, <2>1, <2>4, <2>5
<1>15. Apart(m, t)
  BY <1>7, <1>14 DEF Apart
<1>16. ASSUME NEW k \in 1 .. n + 1, t[k] # m.last
       PROVE  m.part[t[k]].nelts > 0
  <2>1. k \in 1 .. n
    BY <1>3, <1>7, <1>8, <1>16
  <2>2. m.part[t[k]].nelts = l.part[s[k]].nelts
    BY <1>9, <1>10, <2>1
  <2>3. CASE n > 1
    BY <1>1, <2>1, <2>2, <2>3 DEF NoneEmpty, n
  <2>4. CASE ~(n > 1)
    <3>1. k = n
      BY <1>2, <2>1, <2>4
    <3> QED
      BY <1>5, <2>2, <3>1
  <2> QED
    BY <2>3, <2>4
<1>17. m.last = t[Len(t)]
  BY <1>3, <1>7
<1>18. Open(m, t)
  BY <1>3, <1>7, <1>11, <1>13, <1>15, <1>16, <1>17 DEF Open, LastIsEnd
<1>19. Contents(m) = Contents(l)
  <2> DEFINE e == EltsOf(l, s)
             f == EltsOf(m, t)
  <2>1. PICK pre : IsCat(pre, e, n, Header) /\ Contents(l) = pre[n]
    BY ContentsOf DEF n
  <2>2. PICK post : IsCat(post, f, n + 1, Header) /\ Contents(m) = post[n + 1]
    BY <1>3, <1>7, <1>11, <1>13, ContentsOfParts
  <2>3. AllHeaders(l, s) /\ AllHeaders(m, t)
    BY <1>3, <1>11, <1>13, ContentsOf, ContentsOfParts
  <2>4. \A k \in 1 .. n : e[k] = Elts(l, s[k])
    BY <2>3 DEF AllHeaders, n
  <2>5. \A k \in 1 .. n + 1 : /\ f[k] = Elts(m, t[k]) /\ f[k] \in Seq(Header)
                              /\ Len(f[k]) = m.part[t[k]].nelts
    BY <1>7, <2>3 DEF AllHeaders
  <2> HIDE DEF e, f
  <2>6. n \in Nat /\ n + 1 \in Nat /\ n <= n /\ n <= n + 1 /\ n + 1 \in 1 .. n + 1 /\ n \in 0 .. n
        /\ (n + 1) - 1 = n
    BY <1>2
  <2>7. ASSUME NEW k \in 1 .. n PROVE e[k] = f[k]
    <3>1. k \in 1 .. n + 1
      BY <1>2
    <3>2. Elts(m, t[k]) = Elts(l, s[k])
      BY <1>9, <1>10
    <3> QED
      BY <2>4, <2>5, <3>1, <3>2
  <2>8. SameUpTo(pre, post, n)
    BY <2>1, <2>2, <2>6, <2>7, CatSame
  <2>9. post[n] = pre[n] /\ pre[n] \in Seq(Header)
    BY <2>1, <2>6, <2>8 DEF SameUpTo, IsCat
  <2>10. f[n + 1] = <<>>
    <3>1. f[n + 1] \in Seq(Header) /\ Len(f[n + 1]) = 0
      BY <1>3, <1>7, <2>5, <2>6
    <3> QED
      BY <3>1
  <2>11. post[n + 1] = post[n] \o f[n + 1]
    BY <2>2, <2>6 DEF IsCat
  <2>12. \A v \in Seq(Header) : v \o <<>> = v
    OBVIOUS
  <2> QED
    BY <2>1, <2>2, <2>9, <2>10, <2>11, <2>12
<1> QED
  BY <1>17, <1>18, <1>19

\* What ngx_list_push does to a linked list: it stays linked; a header pushed
\* to the end of what the loops reach is the last one they read.
Pushed(l, s, m, t, h) ==
    /\ Linked(m, t) /\ KeepsPlace(l, s, m, t)
    /\ l.last = s[Len(s)] => Contents(m) = Append(Contents(l), h)

\* That holds as long as the push stays inside its allocation.
LEMMA PushIs ==
    ASSUME NEW l, NEW s, Linked(l, s), NEW h \in Header, Fits(l)
    PROVE  \E t : Pushed(l, s, Push(l, h), t, h)
<1> DEFINE g == Grown(l)
           m == Push(l, h)
<1>1. InBlocks(l) /\ IsChain(l, s) /\ LastIsEnd(l, s)
  BY DEF Linked
<1>2. m = Stored(g, h) /\ Slot(g) <= Len(g.mem[g.part[g.last].block])
  BY DEF Push, Fits
<1>3. \E t : /\ Open(g, t) /\ KeepsPlace(l, s, g, t)
             /\ l.last = s[Len(s)] => Contents(g) = Contents(l)
  <2>1. CASE l.part[l.last].nelts # l.nalloc
    <3>1. g = l
      BY <2>1 DEF Grown
    <3>2. Open(l, s)
      BY DEF Linked, Open, NoneEmpty
    <3>3. KeepsPlace(l, s, l, s)
      BY <1>1 DEF KeepsPlace, LastIsEnd
    <3> HIDE DEF g
    <3> QED
      BY <3>1, <3>2, <3>3
  <2>2. CASE l.part[l.last].nelts = l.nalloc
    <3>1. GrownAt(l, g)
      BY <1>1, <2>2, GrownIs
    <3>2. CASE l.last # s[Len(s)]
      <4>1. Open(g, s) /\ KeepsPlace(l, s, g, s)
        BY <3>1, <3>2, GrownApart
      <4> HIDE DEF g
      <4> QED
        BY <3>2, <4>1
    <3>3. CASE l.last = s[Len(s)]
      <4> HIDE DEF g, m
      <4>1. Slot(g) = 1 /\ Len(g.mem[g.part[g.last].block]) = l.nalloc
        BY <3>1 DEF GrownAt, Slot
      <4>2. l.last \in 1 .. Len(l.part)
        BY <1>1 DEF InBlocks
      <4>3. l.part[l.last].nelts \in Nat
        BY <1>1, <4>2, PartType
      <4>4. l.part[l.last].nelts > 0
        BY <1>2, <2>2, <4>1, <4>3
      <4>5. PICK t : Open(g, t) /\ g.last = t[Len(t)] /\ Contents(g) = Contents(l)
        BY <3>1, <3>3, <4>4, GrownOn
      <4>6. KeepsPlace(l, s, g, t)
        BY <3>3, <4>5 DEF KeepsPlace
      <4> QED
        BY <4>5, <4>6
    <3> QED
      BY <3>2, <3>3
  <2> QED
    BY <2>1, <2>2
<1> HIDE DEF g, m
<1>4. PICK t : /\ Open(g, t) /\ KeepsPlace(l, s, g, t)
               /\ l.last = s[Len(s)] => Contents(g) = Contents(l)
  BY <1>3
<1>5. InBlocks(g)
  BY <1>4 DEF Open
<1>6. StoredAt(g, m, g.last, g.part[g.last].block, Slot(g), h)
  BY <1>2, <1>5, StoredIs
<1>7. Linked(m, t)
  BY <1>2, <1>4, <1>6, StoredLinked
<1>8. m.last = g.last
  BY <1>6 DEF StoredAt
<1>9. KeepsPlace(l, s, m, t)
  BY <1>4, <1>8 DEF KeepsPlace
<1>10. ASSUME l.last = s[Len(s)] PROVE Contents(m) = Append(Contents(l), h)
  <2>1. g.last = t[Len(t)] /\ Contents(g) = Contents(l)
    BY <1>4, <1>10 DEF KeepsPlace
  <2>2. Contents(m) = Append(Contents(g), h)
    BY <1>2, <1>4, <1>6, <1>7, <2>1, StoredContents
  <2> QED
    BY <2>1, <2>2
<1>11. Pushed(l, s, m, t, h)
  BY <1>7, <1>9, <1>10 DEF Pushed
<1> QED
  BY <1>11 DEF m

-----------------------------------------------------------------------------
(* The list before a script changes it.                                    *)

\* A list as nginx leaves it: its last part is the one that is being filled,
\* and has all the cells it was created with.
Fresh(l) ==
    /\ \E s : Linked(l, s) /\ l.last = s[Len(s)]
    /\ l.nalloc = NAlloc /\ l.part[l.last].off = 0 /\ l.part[l.last].nelts <= NAlloc
    /\ Len(l.mem[l.part[l.last].block]) = NAlloc

\* These lists.
FreshLists == {l \in Lists : Fresh(l)}

\* Such a list has room, in its last part or in a new one.
LEMMA FreshFits ==
    ASSUME NEW l \in FreshLists
    PROVE  Fits(l)
<1>1. PICK s : Linked(l, s)
  BY DEF FreshLists, Fresh
<1>2. InBlocks(l)
  BY <1>1 DEF Linked
<1>3. l.last \in 1 .. Len(l.part)
  BY <1>2 DEF InBlocks
<1>4. l.part[l.last].nelts \in Nat
  BY <1>2, <1>3, PartType
<1>5. /\ l.nalloc = NAlloc /\ l.part[l.last].off = 0 /\ l.part[l.last].nelts <= NAlloc
      /\ Len(l.mem[l.part[l.last].block]) = NAlloc
  BY DEF FreshLists, Fresh
<1>6. NAlloc \in Nat \ {0}
  BY HeaderAssumption DEF HeaderAssumption
<1>7. CASE l.part[l.last].nelts # l.nalloc
  <2>1. Grown(l) = l
    BY <1>7 DEF Grown
  <2>2. Slot(l) <= NAlloc
    <3>1. Slot(l) = 0 + l.part[l.last].nelts + 1
      BY <1>5 DEF Slot
    <3>2. \A v \in Nat : v <= NAlloc /\ v # NAlloc => 0 + v + 1 <= NAlloc
      BY <1>6
    <3> QED
      BY <1>4, <1>5, <1>7, <3>1, <3>2
  <2> QED
    BY <1>5, <2>1, <2>2 DEF Fits
<1>8. CASE l.part[l.last].nelts = l.nalloc
  <2> DEFINE g == Grown(l)
  <2>1. GrownAt(l, g)
    BY <1>2, <1>8, GrownIs
  <2> HIDE DEF g
  <2>2. Slot(g) = 1 /\ Len(g.mem[g.part[g.last].block]) = NAlloc
    BY <1>5, <2>1 DEF GrownAt, Slot
  <2>3. Slot(g) <= Len(g.mem[g.part[g.last].block])
    BY <1>6, <2>2
  <2> QED
    BY <2>3 DEF Fits, g
<1> QED
  BY <1>7, <1>8

\* And stays so when a header is pushed.
LEMMA FreshPush ==
    ASSUME NEW l \in FreshLists, NEW h \in Header
    PROVE  Push(l, h) \in FreshLists
<1> DEFINE g == Grown(l)
           m == Push(l, h)
<1>1. PICK s : Linked(l, s) /\ l.last = s[Len(s)]
  BY DEF FreshLists, Fresh
<1>2. InBlocks(l)
  BY <1>1 DEF Linked
<1>3. l.last \in 1 .. Len(l.part)
  BY <1>2 DEF InBlocks
<1>4. l.part[l.last].nelts \in Nat
  BY <1>2, <1>3, PartType
<1>5. /\ l.nalloc = NAlloc /\ l.part[l.last].off = 0 /\ l.part[l.last].nelts <= NAlloc
      /\ Len(l.mem[l.part[l.last].block]) = NAlloc
  BY DEF FreshLists, Fresh
<1>6. NAlloc \in Nat \ {0}
  BY HeaderAssumption DEF HeaderAssumption
<1>7. Fits(l)
  BY FreshFits
<1>8. m = Stored(g, h) /\ Slot(g) <= Len(g.mem[g.part[g.last].block])
  BY <1>7 DEF Push, Fits
<1>9. PICK t : Pushed(l, s, m, t, h)
  BY <1>1, <1>7, PushIs
<1>10. Linked(m, t) /\ m.last = t[Len(t)]
  BY <1>1, <1>9 DEF Pushed, KeepsPlace
<1>11. /\ InBlocks(g) /\ g.nalloc = NAlloc /\ g.part[g.last].off = 0
       /\ g.part[g.last].nelts \in Nat /\ g.part[g.last].nelts + 1 <= NAlloc
       /\ Len(g.mem[g.part[g.last].block]) = NAlloc
  <2>1. CASE l.part[l.last].nelts # l.nalloc
    <3>1. g = l
      BY <2>1 DEF Grown
    <3>2. \A v \in Nat : v <= NAlloc /\ v # NAlloc => v + 1 <= NAlloc
      BY <1>6
    <3> HIDE DEF g
    <3> QED
      BY <1>2, <1>4, <1>5, <2>1, <3>1, <3>2
  <2>2. CASE l.part[l.last].nelts = l.nalloc
    <3>1. GrownAt(l, g)
      BY <1>2, <2>2, GrownIs
    <3> HIDE DEF g
    <3>2. 0 \in Nat /\ 0 + 1 <= NAlloc
      BY <1>6
    <3> QED
      BY <1>5, <3>1, <3>2 DEF GrownAt
  <2> QED
    BY <2>1, <2>2
<1> HIDE DEF g
<1>12. StoredAt(g, m, g.last, g.part[g.last].block, Slot(g), h)
  BY <1>8, <1>11, StoredIs
<1> HIDE DEF m
<1>13. /\ m.nalloc = NAlloc /\ m.part[m.last].off = 0 /\ m.part[m.last].nelts <= NAlloc
       /\ Len(m.mem[m.part[m.last].block]) = NAlloc
  BY <1>11, <1>12 DEF StoredAt
<1>14. m \in Lists
  BY <1>10 DEF Linked, InBlocks
<1>15. m \in FreshLists
  BY <1>10, <1>13, <1>14 DEF FreshLists, Fresh
<1> QED
  BY <1>15 DEF m

\* The list is created so.
LEMMA CreatedFresh == Created \in FreshLists
<1> DEFINE e == [block |-> 1, off |-> 0, nelts |-> 0, next |-> Null]
           a == [i \in 1 .. NAlloc |-> <<>>]
           l == Created
           s == <<First>>
           P == <<e>>
           M == <<a>>
<1>1. NAlloc \in Nat \ {0}
  BY HeaderAssumption DEF HeaderAssumption
<1>2. e \in Part
  <2>1. Null \in Nat
    BY DEF Null
  <2> QED
    BY <2>1 DEF Part
<1>3. e.block = 1 /\ e.off = 0 /\ e.nelts = 0 /\ e.next = Null
  OBVIOUS
<1>4. a \in Seq(Cell) /\ Len(a) = NAlloc
  <2>1. <<>> \in Cell
    BY DEF Cell
  <2> QED
    BY <1>1, <2>1
<1>5. l = [part |-> P, last |-> First, nalloc |-> NAlloc, mem |-> M]
  BY DEF Created
<1> HIDE DEF e, a, l
<1>6. P \in Seq(Part) /\ Len(P) = 1 /\ P[1] = e
  BY <1>2
<1>7. M \in Seq(Seq(Cell)) /\ Len(M) = 1 /\ M[1] = a
  <2> DEFINE T == Seq(Cell)
  <2>1. a \in T
    BY <1>4
  <2> HIDE DEF T
  <2>2. M \in Seq(T) /\ Len(M) = 1 /\ M[1] = a
    BY <2>1
  <2> QED
    BY <2>2 DEF T
<1> HIDE DEF P, M
<1>8. l.part = P /\ l.last = First /\ l.nalloc = NAlloc /\ l.mem = M
  BY <1>5
<1>9. First = 1 /\ First \in Nat
  BY DEF First
<1>10. l \in Lists
  <2>1. NAlloc \in Int
    BY <1>1
  <2> QED
    BY <1>5, <1>6, <1>7, <1>9, <2>1 DEF Lists
<1>11. InBlocks(l)
  <2>1. 1 .. 1 = {1}
    OBVIOUS
  <2> QED
    BY <1>3, <1>6, <1>7, <1>8, <1>9, <1>10, <2>1 DEF InBlocks
<1>12. s \in Seq(1 .. 1) /\ Len(s) = 1 /\ s[1] = First /\ 1 .. 1 = {1} /\ 1 .. 0 = {}
  BY <1>9
<1> HIDE DEF s
<1>13. IsChain(l, s)
  <2>1. 1 - 1 = 0
    OBVIOUS
  <2> QED
    BY <1>3, <1>6, <1>8, <1>9, <1>12, <2>1 DEF IsChain
<1>14. InMem(l, 1)
  <2>1. 0 + 0 <= NAlloc
    BY <1>1
  <2> QED
    BY <1>3, <1>4, <1>6, <1>7, <1>8, <1>12, <2>1 DEF InMem
<1>15. NoneEmpty(l, s) /\ LastIsEnd(l, s) /\ Written(l, s) /\ Apart(l, s)
  <2>1. NoneEmpty(l, s)
    BY <1>12 DEF NoneEmpty
  <2>2. LastIsEnd(l, s)
    BY <1>8, <1>12 DEF LastIsEnd
  <2>3. Written(l, s)
    BY <1>9, <1>12, <1>14 DEF Written
  <2>4. Apart(l, s)
    BY <1>12 DEF Apart
  <2> QED
    BY <2>1, <2>2, <2>3, <2>4
<1>16. Linked(l, s) /\ l.last = s[Len(s)]
  BY <1>8, <1>11, <1>12, <1>13, <1>15 DEF Linked
<1>17. /\ l.nalloc = NAlloc /\ l.part[l.last].off = 0 /\ l.part[l.last].nelts <= NAlloc
       /\ Len(l.mem[l.part[l.last].block]) = NAlloc
  BY <1>1, <1>3, <1>4, <1>6, <1>7, <1>8, <1>9
<1>18. l \in FreshLists
  BY <1>10, <1>16, <1>17 DEF FreshLists, Fresh
<1> QED
  BY <1>18 DEF l

\* The headers of a request or a response are pushed one by one.
LEMMA FilledFresh ==
    ASSUME NEW hs \in Seq(Header)
    PROVE  FoldLeft(Push, Created, hs) \in FreshLists
<1> DEFINE k == Len(hs)
           S == FreshLists
           step == [x \in S \X (1 .. k) |-> Push(x[1], hs[x[2]])]
           It(f) == f = [t \in SUBSET (1 .. k) |->
                           IF t = {} THEN Created ELSE Push(f[t \ {Max(t)}], hs[Max(t)])]
           fold == CHOOSE f : It(f)
<1>1. k \in Nat /\ DOMAIN hs = 1 .. k /\ \A i \in 1 .. k : hs[i] \in Header
  OBVIOUS
<1>2. FoldLeft(Push, Created, hs) = fold[1 .. k]
  BY <1>1 DEF FoldLeft, MapThenFoldSet
<1>3. Created \in S
  BY CreatedFresh
<1>4. \A l \in S, h \in Header : Push(l, h) \in S
  BY FreshPush
<1> HIDE DEF k, S
<1>5. step \in [S \X (1 .. k) -> S]
  <2>1. \A x \in S \X (1 .. k) : Push(x[1], hs[x[2]]) \in S
    BY <1>1, <1>4
  <2> QED
    BY <2>1
<1>6. \A l \in S, i \in 1 .. k : step[<<l, i>>] = Push(l, hs[i])
  OBVIOUS
<1> HIDE DEF step
<1>7. PICK it : IsFold(it, S, Created, step, k)
  BY <1>1, <1>3, <1>5, SubsetRecursion
<1>8. \A t \in SUBSET (1 .. k) : t # {} => Max(t) \in 1 .. k
  BY <1>1, MaxIn
<1>9. It(it)
  <2>1. it = [t \in SUBSET (1 .. k) |-> it[t]]
    BY <1>7 DEF IsFold
  <2>2. ASSUME NEW t \in SUBSET (1 .. k)
        PROVE  it[t] = IF t = {} THEN Created ELSE Push(it[t \ {Max(t)}], hs[Max(t)])
    <3>1. CASE t = {}
      BY <1>7, <3>1 DEF IsFold
    <3>2. CASE t # {}
      <4>1. Max(t) \in 1 .. k /\ t \ {Max(t)} \in SUBSET (1 .. k)
        BY <1>8, <3>2
      <4>2. it[t \ {Max(t)}] \in S
        BY <1>7, <4>1 DEF IsFold
      <4>3. it[t] = step[<<it[t \ {Max(t)}], Max(t)>>]
        BY <1>7, <3>2 DEF IsFold
      <4>4. it[t] = Push(it[t \ {Max(t)}], hs[Max(t)])
        BY <1>6, <4>1, <4>2, <4>3
      <4> QED
        BY <3>2, <4>4
    <3> QED
      BY <3>1, <3>2
  <2> QED
    BY <2>1, <2>2
<1>10. It(fold)
  BY <1>9
<1> HIDE DEF fold
<1>11. ASSUME NEW t \in SUBSET (1 .. k)
       PROVE  fold[t] = IF t = {} THEN Created ELSE Push(fold[t \ {Max(t)}], hs[Max(t)])
  BY <1>10
<1> HIDE DEF It
<1> DEFINE Good == {n \in 0 .. k : fold[1 .. n] \in S}
<1>12. 0 \in Good
  <2>1. 1 .. 0 = {} /\ {} \in SUBSET (1 .. k) /\ 0 \in 0 .. k
    BY <1>1
  <2>2. fold[1 .. 0] = Created
    BY <1>11, <2>1
  <2> QED
    BY <1>3, <2>1, <2>2
<1>13. ASSUME NEW n \in 0 .. k - 1, n \in Good
       PROVE  n + 1 \in Good
  <2>1. n + 1 \in 1 .. k /\ (n + 1) - 1 = n /\ n + 1 \in 0 .. k
    BY <1>1
  <2>2. PICK i \in 1 .. k : i = n + 1
    BY <2>1
  <2>3. /\ 1 .. i \in SUBSET (1 .. k) /\ 1 .. i # {}
        /\ Max(1 .. i) = i /\ (1 .. i) \ {i} = 1 .. i - 1
    BY <1>1, PrefixSteps
  <2>4. fold[1 .. i] = Push(fold[1 .. i - 1], hs[i])
    BY <1>11, <2>3
  <2>5. fold[1 .. i - 1] \in S
    BY <1>13, <2>1, <2>2
  <2>6. fold[1 .. i] \in S
    BY <1>1, <1>4, <2>4, <2>5
  <2> QED
    BY <2>1, <2>2, <2>6
<1>14. \A n \in 0 .. k - 1 : n \in Good => n + 1 \in Good
  BY <1>13
<1>15. k \in Good
  <2>1. k \in 0 .. k
    BY <1>1
  <2> HIDE DEF Good
  <2> QED
    BY <1>1, <1>12, <1>14, <2>1, UpTo
<1> QED
  BY <1>2, <1>15 DEF S

-----------------------------------------------------------------------------
(* The invariant, and the theorems.                                        *)

\* The inductive invariant.  NilRemovesAll and SetReadBack speak of the last
\* operation only: what they take from one operation to the next is Linked.
IInv == headers \in LinkedLists /\ NilRemovesAll /\ SetReadBack

\* A list nginx has filled is linked.
LEMMA InitIInv == Init => IInv
<1>1. SUFFICES ASSUME Init PROVE IInv
  OBVIOUS
<1>2. PICK hs \in Seqs(MaxHeaders) : headers = FoldLeft(Push, Created, hs)
  BY <1>1 DEF Init
<1>3. hs \in Seq(Header)
  <2>1. PICK m \in 0 .. MaxHeaders : hs \in [1 .. m -> Header]
    BY DEF Seqs
  <2> QED
    BY <2>1
<1>4. headers \in FreshLists
  BY <1>2, <1>3, FilledFresh
<1>5. headers \in LinkedLists
  BY <1>4 DEF FreshLists, Fresh, LinkedLists
<1>6. NilRemovesAll /\ SetReadBack
  BY <1>1 DEF Init, NilRemovesAll, SetReadBack
<1> QED
  BY <1>5, <1>6 DEF IInv

\* Pushing keeps a list linked.
LEMMA PushLinked ==
    ASSUME NEW l \in LinkedLists, NEW h \in Header, Fits(l)
    PROVE  Push(l, h) \in LinkedLists
<1>1. PICK s : Linked(l, s)
  BY DEF LinkedLists
<1>2. PICK t : Pushed(l, s, Push(l, h), t, h)
  BY <1>1, PushIs
<1>3. Linked(Push(l, h), t)
  BY <1>2 DEF Pushed
<1>4. Push(l, h) \in Lists
  BY <1>3 DEF Linked, InBlocks
<1> QED
  BY <1>3, <1>4 DEF LinkedLists

\* A header pushed to a list without its name is read back when headers->last
\* of the result is a part the loops reach.
LEMMA PushRead ==
    ASSUME NEW l \in LinkedLists, NEW h \in Header, Fits(l), Get(l, h.key) = <<>>,
           Push(l, h).last \in ToSet(Chain(Push(l, h)))
    PROVE  Get(Push(l, h), h.key) = <<h>>
<1> DEFINE m == Push(l, h)
<1>1. PICK s : Linked(l, s)
  BY DEF LinkedLists
<1>2. PICK t : Pushed(l, s, m, t, h)
  BY <1>1, PushIs
<1> HIDE DEF m
<1>3. /\ Linked(m, t) /\ KeepsPlace(l, s, m, t)
      /\ l.last = s[Len(s)] => Contents(m) = Append(Contents(l), h)
  BY <1>2 DEF Pushed
<1>4. InBlocks(m) /\ IsChain(m, t)
  BY <1>3 DEF Linked
<1>5. Len(m.part) \in Nat
  BY <1>4, ChainType
<1>6. Chain(m) = t
  BY <1>4, <1>5, ChainIs
<1>7. \E k \in 1 .. Len(t) : m.last = t[k]
  <2>1. m.last \in ToSet(t)
    BY <1>6 DEF m
  <2>2. t \in Seq(1 .. Len(m.part))
    BY <1>4 DEF IsChain
  <2>3. DOMAIN t = 1 .. Len(t)
    BY <2>2
  <2> QED
    BY <2>1, <2>3 DEF ToSet
<1>8. l.last = s[Len(s)]
  BY <1>3, <1>7 DEF KeepsPlace
<1>9. Contents(l) \in Seq(Header)
  BY <1>1, ContentsOf
<1>10. Get(m, h.key) = <<h>>
  BY <1>3, <1>8, <1>9, GetOne
<1> QED
  BY <1>10 DEF m

\* Every operation of a script keeps the invariant.
LEMMA NextIInv == IInv /\ [Next]_vars => IInv'
<1>1. SUFFICES ASSUME IInv, [Next]_vars PROVE IInv'
  OBVIOUS
<1>2. headers \in LinkedLists
  BY <1>1 DEF IInv
<1>3. ASSUME NEW key \in Keys, SetNil(key) PROVE IInv'
  <2>1. headers' \in LinkedLists /\ Get(headers', key) = <<>>
    BY <1>2, <1>3, DeletedIs DEF SetNil
  <2>2. op'.kind = "nil" /\ op'.key = key
    BY <1>3 DEF SetNil
  <2>3. NilRemovesAll' /\ SetReadBack'
    BY <2>1, <2>2 DEF NilRemovesAll, SetReadBack
  <2> QED
    BY <2>1, <2>3 DEF IInv
<1>4. ASSUME NEW key \in Keys, Delete(key) PROVE IInv'
  <2>1. PICK s : Linked(headers, s)
    BY <1>2 DEF LinkedLists
  <2>2. PICK t : Linked(headers', t)
    BY <1>4, <2>1, DelStep DEF Delete
  <2>3. headers' \in Lists
    BY <2>2 DEF Linked, InBlocks
  <2>4. headers' \in LinkedLists
    BY <2>2, <2>3 DEF LinkedLists
  <2>5. op'.kind = "delete"
    BY <1>4 DEF Delete
  <2>6. NilRemovesAll' /\ SetReadBack'
    BY <2>5 DEF NilRemovesAll, SetReadBack
  <2> QED
    BY <2>4, <2>6 DEF IInv
<1>5. ASSUME NEW key \in Keys, NEW value \in Values, Set(key, value) PROVE IInv'
  <2> DEFINE d == Deleted(headers, key)
             h == [key |-> key, value |-> value]
  <2>1. h \in Header /\ h.key = key
    BY DEF Header
  <2>2. d \in LinkedLists /\ Get(d, key) = <<>>
    BY <1>2, DeletedIs
  <2>3. Fits(d) /\ headers' = Push(d, h)
    BY <1>5 DEF Set
  <2>4. op'.kind = "set" /\ [key |-> op'.key, value |-> op'.value] = h /\ op'.key = key
    BY <1>5 DEF Set
  <2> HIDE DEF d, h
  <2>5. headers' \in LinkedLists
    BY <2>1, <2>2, <2>3, PushLinked
  <2>6. ASSUME headers'.last \in ToSet(Chain(headers'))
        PROVE  Get(headers', key) = <<h>>
    BY <2>1, <2>2, <2>3, <2>6, PushRead
  <2>7. SetReadBack'
    BY <2>4, <2>6 DEF SetReadBack
  <2>8. NilRemovesAll'
    BY <2>4 DEF NilRemovesAll
  <2> QED
    BY <2>5, <2>7, <2>8 DEF IInv
<1>6. ASSUME NEW key \in Keys, NEW value \in Values, NEW value2 \in Values,
             SetArray(key, value, value2)
      PROVE  IInv'
  <2> DEFINE d == Deleted(headers, key)
             h == [key |-> key, value |-> value]
             h2 == [key |-> key, value |-> value2]
             one == Push(d, h)
  <2>1. h \in Header /\ h2 \in Header
    BY DEF Header
  <2>2. d \in LinkedLists
    BY <1>2, DeletedIs
  <2>3. Fits(d) /\ Fits(one) /\ headers' = Push(one, h2)
    BY <1>6 DEF SetArray
  <2>4. op'.kind = "array"
    BY <1>6 DEF SetArray
  <2> HIDE DEF d, h, h2
  <2>5. one \in LinkedLists
    BY <2>1, <2>2, <2>3, PushLinked
  <2> HIDE DEF one
  <2>6. headers' \in LinkedLists
    BY <2>1, <2>3, <2>5, PushLinked
  <2>7. NilRemovesAll' /\ SetReadBack'
    BY <2>4 DEF NilRemovesAll, SetReadBack
  <2> QED
    BY <2>6, <2>7 DEF IInv
<1>7. CASE UNCHANGED vars
  BY <1>1, <1>7 DEF IInv, NilRemovesAll, SetReadBack, vars
<1> QED
  BY <1>1, <1>3, <1>4, <1>5, <1>6, <1>7 DEF Next

\* The invariant holds throughout.
LEMMA AlwaysIInv == Spec => []IInv
<1>1. Init => IInv
  BY InitIInv
<1>2. IInv /\ [Next]_vars => IInv'
  BY NextIInv
<1> QED
  BY <1>1, <1>2, PTL DEF Spec

\* What a linked list is to the loops over it.
LEMMA LinkedWell == IInv => WellLinked
<1>1. SUFFICES ASSUME IInv PROVE WellLinked
  OBVIOUS
<1> DEFINE l == headers
<1>2. PICK s : Linked(l, s)
  BY <1>1 DEF IInv, LinkedLists
<1>3. InBlocks(l) /\ IsChain(l, s) /\ NoneEmpty(l, s)
  BY <1>2 DEF Linked
<1>4. Len(l.part) \in Nat /\ Len(s) \in Nat
  BY <1>3, ChainType
<1>5. Chain(l) = s
  BY <1>3, <1>4, ChainIs
<1>6. /\ s \in Seq(1 .. Len(l.part)) /\ \A i, j \in 1 .. Len(s) : s[i] = s[j] => i = j
      /\ l.part[s[Len(s)]].next = Null
  BY <1>3 DEF IsChain
<1>7. DOMAIN s = 1 .. Len(s)
  BY <1>6
<1>8. IsInjective(s)
  BY <1>6, <1>7 DEF IsInjective
<1>9. l.part[Last(s)].next = Null
  BY <1>6 DEF Last
<1>10. Len(s) > 1 => \A i \in 1 .. Len(s) : l.part[s[i]].nelts > 0
  BY <1>3 DEF NoneEmpty
<1>11. ToSet(Contents(l)) \subseteq Header
  <2>1. Contents(l) \in Seq(Header)
    BY <1>2, ContentsOf
  <2> QED
    BY <2>1 DEF ToSet
<1> QED
  BY <1>5, <1>8, <1>9, <1>10, <1>11 DEF WellLinked

\* The next pointers form no cycle, empty parts come only alone and first, and
\* every element was written, whatever ngx_mrb_del_request_header did before.
THEOREM ListLinked == Spec => []WellLinked
<1>1. IInv => WellLinked
  BY LinkedWell
<1> QED
  BY <1>1, AlwaysIInv, PTL

\* headers[key] = nil leaves no header of that name, in whichever parts and
\* however often it was there.
THEOREM NilTakesAll == Spec => []NilRemovesAll
<1>1. IInv => NilRemovesAll
  BY DEF IInv
<1> QED
  BY <1>1, AlwaysIInv, PTL

\* headers[key] = value is read back, alone, whenever headers->last is a part
\* of the chain.
THEOREM SetIsRead == Spec => []SetReadBack
<1>1. IInv => SetReadBack
  BY DEF IInv
<1> QED
  BY <1>1, AlwaysIInv, PTL

\* A deletion takes out one header, of the name if no other name begins with
\* it, or finds none of the name.
LEMMA DeleteStep ==
    ASSUME IInv, Next, op'.kind = "delete"
    PROVE  \/ headers' = headers /\ Get(headers, op'.key) = <<>>
           \/ \E i \in 1 .. Len(Contents(headers)) :
                /\ Contents(headers') = RemoveAt(Contents(headers), i)
                /\ Alone(op'.key) => Contents(headers)[i].key = op'.key
<1>1. PICK key \in Keys : Delete(key)
  <2>1. \A key \in Keys : ~SetNil(key)
    BY DEF SetNil
  <2>2. \A key \in Keys, value \in Values : ~Set(key, value)
    BY DEF Set
  <2>3. \A key \in Keys, value, value2 \in Values : ~SetArray(key, value, value2)
    BY DEF SetArray
  <2> QED
    BY <2>1, <2>2, <2>3 DEF Next
<1>2. headers' = Del(headers, key) /\ op'.key = key
  BY <1>1 DEF Delete
<1>3. PICK s : Linked(headers, s)
  BY DEF IInv, LinkedLists
<1>4. Contents(headers) \in Seq(Header)
  BY <1>3, ContentsOf
<1>5. CASE HasMatch(headers, key)
  <2>1. PICK h : Matches(h, key) /\ Cut(headers, headers', h)
    BY <1>2, <1>3, <1>5, DelCut
  <2>2. PICK i \in 1 .. Len(Contents(headers)) :
           /\ Contents(headers)[i] = h
           /\ Contents(headers') = RemoveAt(Contents(headers), i)
    BY <2>1 DEF Cut
  <2>3. h \in Header
    BY <1>4, <2>2
  <2>4. Alone(key) => h.key = key
    BY <2>1, <2>3 DEF Alone, Matches, Header
  <2> QED
    BY <1>2, <2>2, <2>4
<1>6. CASE ~HasMatch(headers, key)
  <2>1. headers' = headers
    BY <1>2, <1>6 DEF Del
  <2>2. Get(headers, key) = <<>>
    BY <1>3, <1>6, NoMatchNone
  <2> QED
    BY <1>2, <2>1, <2>2
<1> QED
  BY <1>5, <1>6

\* headers.delete(key) takes out one header and keeps the others in their
\* order, or finds none of the name; unless another name begins with key, the
\* header it takes has that name.
THEOREM OneTaken == Spec => DeleteTakesOne
<1>1. IInv /\ [Next]_vars =>
        [op'.kind = "delete" =>
           \/ headers' = headers /\ Get(headers, op'.key) = <<>>
           \/ \E i \in 1 .. Len(Contents(headers)) :
                /\ Contents(headers') = RemoveAt(Contents(headers), i)
                /\ Alone(op'.key) => Contents(headers)[i].key = op'.key]_vars
  BY DeleteStep
<1> QED
  BY <1>1, AlwaysIInv, PTL DEF Spec, DeleteTakesOne
=============================================================================
