-------------------------- MODULE BodyFilterProofs --------------------------
(***************************************************************************)
(* Proofs about BodyFilter for bodies and chains of any size: no body byte *)
(* overtakes the header that the module may have held back, the body       *)
(* script runs on exactly the bytes of the response, nothing is kept back, *)
(* and the header announces the body that is sent.                         *)
(***************************************************************************)
EXTENDS BodyFilter, Iteration, SequenceTheorems

-----------------------------------------------------------------------------
(* Reading a body that comes in any pieces.                                *)

\* A chain is a sequence of at least one buffer.
LEMMA ChainType ==
    ASSUME NEW in \in Chains
    PROVE  /\ Len(in) \in Nat \ {0} /\ DOMAIN in = 1 .. Len(in)
           /\ \A i \in 1 .. Len(in) : in[i] \in Buf
<1>1. PICK n \in 1 .. MaxBufs : in \in [1 .. n -> Buf]
  BY DEF Chains
<1>2. n \in Nat \ {0}
  BY <1>1, FilterAssumption DEF FilterAssumption
<1>3. in \in Seq(Buf) /\ Len(in) = n
  BY <1>1, <1>2
<1> QED
  BY <1>1, <1>2, <1>3

\* FoldLeft goes through the chain from its first buffer: the sizes are added up.
LEMMA SizeFold ==
    ASSUME NEW in \in Chains
    PROVE  \E sum \in [0 .. Len(in) -> Nat] :
              /\ sum[0] = 0
              /\ \A n \in 1 .. Len(in) : sum[n] = sum[n - 1] + in[n].size
              /\ Size(in) = sum[Len(in)]
<1> DEFINE k == Len(in)
           step == [x \in Nat \X (1 .. k) |-> x[1] + in[x[2]].size]
           It(f) == f = [s \in SUBSET (1 .. k) |->
                           IF s = {} THEN 0 ELSE f[s \ {Max(s)}] + in[Max(s)].size]
           fold == CHOOSE f : It(f)
<1>1. k \in Nat \ {0} /\ DOMAIN in = 1 .. k /\ \A i \in 1 .. k : in[i].size \in Nat
  <2>1. FilterAssumption
    BY FilterAssumption
  <2> QED
    BY <2>1, ChainType DEF Buf, FilterAssumption
<1>2. Size(in) = fold[1 .. k]
  BY <1>1 DEF Size, FoldLeft, MapThenFoldSet
<1> HIDE DEF k
<1>3. step \in [Nat \X (1 .. k) -> Nat]
  BY <1>1
<1>4. \A v \in Nat, i \in 1 .. k : step[<<v, i>>] = v + in[i].size
  OBVIOUS
<1> HIDE DEF step
<1>5. PICK it : IsFold(it, Nat, 0, step, k)
  BY <1>1, <1>3, SubsetRecursion
<1>6. \A s \in SUBSET (1 .. k) : s # {} => Max(s) \in 1 .. k
  BY <1>1, MaxIn
<1>7. It(it)
  BY <1>4, <1>5, <1>6 DEF IsFold
<1>8. It(fold)
  BY <1>7
<1> HIDE DEF fold
<1>9. ASSUME NEW s \in SUBSET (1 .. k)
      PROVE  fold[s] = IF s = {} THEN 0 ELSE fold[s \ {Max(s)}] + in[Max(s)].size
  BY <1>8
<1>10. fold[1 .. 0] = 0
  <2>1. 1 .. 0 = {} /\ {} \in SUBSET (1 .. k)
    OBVIOUS
  <2> QED
    BY <1>9, <2>1
<1>11. ASSUME NEW n \in 1 .. k
       PROVE  fold[1 .. n] = fold[1 .. n - 1] + in[n].size
  <2>1. /\ 1 .. n \in SUBSET (1 .. k) /\ 1 .. n # {}
        /\ Max(1 .. n) = n /\ (1 .. n) \ {n} = 1 .. n - 1
    BY <1>1, PrefixSteps
  <2> QED
    BY <1>9, <2>1
<1> DEFINE sum == [n \in 0 .. k |-> fold[1 .. n]]
           Good == {n \in 0 .. k : fold[1 .. n] \in Nat}
<1>12. \A n \in 0 .. k : n \in Good
  <2>1. 0 \in Good
    BY <1>1, <1>10
  <2>2. \A n \in 0 .. k - 1 : n \in Good => n + 1 \in Good
    <3>1. SUFFICES ASSUME NEW n \in 0 .. k - 1, n \in Good PROVE n + 1 \in Good
      OBVIOUS
    <3>2. n + 1 \in 1 .. k /\ (n + 1) - 1 = n
      BY <1>1
    <3>3. fold[1 .. n + 1] = fold[1 .. n] + in[n + 1].size
      BY <1>11, <3>2
    <3> QED
      BY <1>1, <3>1, <3>2, <3>3
  <2> HIDE DEF Good
  <2> QED
    BY <1>1, <2>1, <2>2, UpTo
<1>13. sum \in [0 .. k -> Nat]
  BY <1>12
<1>14. sum[0] = 0 /\ \A n \in 1 .. k : sum[n] = sum[n - 1] + in[n].size
  <2>1. sum[0] = 0
    BY <1>1, <1>10
  <2>2. ASSUME NEW n \in 1 .. k
        PROVE  sum[n] = sum[n - 1] + in[n].size
    <3>1. n \in 0 .. k /\ n - 1 \in 0 .. k
      BY <1>1
    <3>2. sum[n] = fold[1 .. n] /\ sum[n - 1] = fold[1 .. n - 1]
      BY <3>1
    <3> QED
      BY <3>2, <1>11
  <2> QED
    BY <2>1, <2>2
<1>15. Size(in) = sum[k]
  BY <1>1, <1>2
<1> HIDE DEF sum
<1> QED
  BY <1>13, <1>14, <1>15 DEF k

\* A run of body bytes is a sequence of its length.
LEMMA BytesType ==
    ASSUME NEW from \in Int, NEW n \in Nat
    PROVE  Bytes(from, n) \in Seq(Int) /\ Len(Bytes(from, n)) = n
<1>1. Bytes(from, n) \in [1 .. n -> Int]
  BY DEF Bytes
<1> QED
  BY <1>1

\* What read_body keeps while it goes through a chain.
Accs == {acc \in [body : Seq(Int), from : Int, done : BOOLEAN] : Len(acc.body) <= body_length}

\* read_body keeps within the allocation of body_length bytes.
LEMMA ReadBufType ==
    ASSUME body_length \in Nat, NEW acc \in Accs, NEW b \in Buf
    PROVE  ReadBuf(acc, b) \in Accs
<1> DEFINE rest == body_length - Len(acc.body)
           size == IF rest < b.size THEN rest ELSE b.size
           new == [body |-> acc.body \o Bytes(acc.from, size),
                   from |-> acc.from + b.size,
                   done |-> b.last \/ (upstream /\ size = rest)]
<1>1. acc.body \in Seq(Int) /\ acc.from \in Int /\ Len(acc.body) <= body_length
  BY DEF Accs
<1>2. b.size \in Nat /\ b.last \in BOOLEAN
  <2>1. MaxBytes \in Nat
    BY FilterAssumption DEF FilterAssumption
  <2> QED
    BY <2>1 DEF Buf
<1>3. rest \in Nat /\ size \in Nat /\ size <= rest
  BY <1>1, <1>2
<1>4. ReadBuf(acc, b) = IF acc.done THEN acc ELSE new
  BY DEF ReadBuf
<1> HIDE DEF size
<1>5. Bytes(acc.from, size) \in Seq(Int) /\ Len(Bytes(acc.from, size)) = size
  BY <1>1, <1>3, BytesType
<1>6. new.body \in Seq(Int) /\ Len(new.body) = Len(acc.body) + size
  BY <1>1, <1>5, ConcatProperties
<1>7. new \in [body : Seq(Int), from : Int, done : BOOLEAN]
  BY <1>1, <1>2, <1>6
<1> HIDE DEF new
<1>8. Len(new.body) <= body_length
  BY <1>1, <1>3, <1>6
<1> QED
  BY <1>4, <1>7, <1>8 DEF Accs

\* read_body goes through the chain from its first buffer, one after the other.
LEMMA ReadFold ==
    ASSUME NEW in \in Chains, body_length \in Nat, body \in Seq(Int),
           Len(body) <= body_length, given \in Int
    PROVE  \E r \in [0 .. Len(in) -> Accs] :
              /\ r[0] = [body |-> body, from |-> given, done |-> FALSE]
              /\ \A n \in 1 .. Len(in) : r[n] = ReadBuf(r[n - 1], in[n])
              /\ ReadBody(in) = r[Len(in)]
<1> DEFINE k == Len(in)
           base == [body |-> body, from |-> given, done |-> FALSE]
           step == [x \in Accs \X (1 .. k) |-> ReadBuf(x[1], in[x[2]])]
           It(f) == f = [s \in SUBSET (1 .. k) |->
                           IF s = {} THEN base ELSE ReadBuf(f[s \ {Max(s)}], in[Max(s)])]
           fold == CHOOSE f : It(f)
<1>1. k \in Nat \ {0} /\ DOMAIN in = 1 .. k /\ \A i \in 1 .. k : in[i] \in Buf
  BY ChainType
<1>2. ReadBody(in) = fold[1 .. k]
  BY <1>1 DEF ReadBody, FoldLeft, MapThenFoldSet
<1>3. base \in Accs
  BY DEF Accs
<1> HIDE DEF k, base
<1>4. step \in [Accs \X (1 .. k) -> Accs]
  BY <1>1, ReadBufType
<1>5. \A v \in Accs, i \in 1 .. k : step[<<v, i>>] = ReadBuf(v, in[i])
  OBVIOUS
<1> HIDE DEF step
<1>6. PICK it : IsFold(it, Accs, base, step, k)
  BY <1>1, <1>3, <1>4, SubsetRecursion
<1>7. \A s \in SUBSET (1 .. k) : s # {} => Max(s) \in 1 .. k
  BY <1>1, MaxIn
<1>8. It(it)
  BY <1>5, <1>6, <1>7 DEF IsFold
<1>9. It(fold)
  BY <1>8
<1> HIDE DEF fold
<1>10. ASSUME NEW s \in SUBSET (1 .. k)
       PROVE  fold[s] = IF s = {} THEN base ELSE ReadBuf(fold[s \ {Max(s)}], in[Max(s)])
  BY <1>9
<1>11. fold[1 .. 0] = base
  <2>1. 1 .. 0 = {} /\ {} \in SUBSET (1 .. k)
    OBVIOUS
  <2> QED
    BY <1>10, <2>1
<1>12. ASSUME NEW n \in 1 .. k
       PROVE  fold[1 .. n] = ReadBuf(fold[1 .. n - 1], in[n])
  BY <1>1, <1>10, PrefixSteps
<1> DEFINE r == [n \in 0 .. k |-> fold[1 .. n]]
           Good == {n \in 0 .. k : fold[1 .. n] \in Accs}
<1>13. \A n \in 0 .. k : n \in Good
  <2>1. 0 \in Good
    BY <1>1, <1>3, <1>11
  <2>2. \A n \in 0 .. k - 1 : n \in Good => n + 1 \in Good
    <3>1. SUFFICES ASSUME NEW n \in 0 .. k - 1, n \in Good PROVE n + 1 \in Good
      OBVIOUS
    <3>2. n + 1 \in 1 .. k /\ (n + 1) - 1 = n
      BY <1>1
    <3>3. fold[1 .. n + 1] = ReadBuf(fold[1 .. n], in[n + 1])
      BY <1>12, <3>2
    <3> QED
      BY <1>1, <3>1, <3>2, <3>3, ReadBufType
  <2> HIDE DEF Good
  <2> QED
    BY <1>1, <2>1, <2>2, UpTo
<1>14. r \in [0 .. k -> Accs]
  BY <1>13
<1>15. r[0] = base /\ \A n \in 1 .. k : r[n] = ReadBuf(r[n - 1], in[n])
  <2>1. r[0] = base
    BY <1>1, <1>11
  <2>2. ASSUME NEW n \in 1 .. k
        PROVE  r[n] = ReadBuf(r[n - 1], in[n])
    <3>1. n \in 0 .. k /\ n - 1 \in 0 .. k
      BY <1>1
    <3>2. r[n] = fold[1 .. n] /\ r[n - 1] = fold[1 .. n - 1]
      BY <3>1
    <3> QED
      BY <3>2, <1>12
  <2> QED
    BY <2>1, <2>2
<1>16. ReadBody(in) = r[k]
  BY <1>1, <1>2
<1> HIDE DEF r
<1> QED
  BY <1>14, <1>15, <1>16 DEF k, base

\* Runs of bytes that follow each other are one run.
LEMMA BytesConcat ==
    ASSUME NEW a \in Nat, NEW n \in Nat
    PROVE  Bytes(0, a) \o Bytes(a, n) = Bytes(0, a + n)
<1> DEFINE s == Bytes(0, a)
           t == Bytes(a, n)
           u == Bytes(0, a + n)
<1>1. s \in Seq(Int) /\ Len(s) = a /\ \A i \in 1 .. a : s[i] = i
  BY BytesType DEF Bytes
<1>2. t \in Seq(Int) /\ Len(t) = n /\ \A i \in 1 .. n : t[i] = a + i
  BY BytesType DEF Bytes
<1>3. u \in Seq(Int) /\ Len(u) = a + n /\ \A i \in 1 .. a + n : u[i] = i
  <2>1. a + n \in Nat
    OBVIOUS
  <2> QED
    BY <2>1, BytesType DEF Bytes
<1> HIDE DEF s, t, u
<1>4. /\ s \o t \in Seq(Int) /\ Len(s \o t) = a + n
      /\ \A i \in 1 .. a + n : (s \o t)[i] = IF i <= a THEN s[i] ELSE t[i - a]
  BY <1>1, <1>2, ConcatProperties
<1>5. ASSUME NEW i \in 1 .. a + n
      PROVE  (s \o t)[i] = u[i]
  <2>1. CASE i <= a
    BY <1>1, <1>3, <1>4, <2>1
  <2>2. CASE ~(i <= a)
    <3>1. i - a \in 1 .. n
      BY <2>2
    <3>2. t[i - a] = a + (i - a)
      BY <1>2, <3>1
    <3>3. a + (i - a) = i
      OBVIOUS
    <3> QED
      BY <1>3, <1>4, <2>2, <3>2, <3>3
  <2> QED
    BY <2>1, <2>2
<1>6. s \o t = u
  BY <1>3, <1>4, <1>5, SeqEqual
<1> QED
  BY <1>6 DEF s, t, u

\* The first buffers of a chain have no more bytes than all of them.
LEMMA SizeSum ==
    ASSUME NEW in \in Chains
    PROVE  \E sum \in [0 .. Len(in) -> Nat] :
              /\ sum[0] = 0
              /\ \A n \in 1 .. Len(in) : sum[n] = sum[n - 1] + in[n].size
              /\ Size(in) = sum[Len(in)]
              /\ \A n \in 0 .. Len(in) : sum[n] <= Size(in)
<1>1. PICK sum \in [0 .. Len(in) -> Nat] :
              /\ sum[0] = 0
              /\ \A n \in 1 .. Len(in) : sum[n] = sum[n - 1] + in[n].size
              /\ Size(in) = sum[Len(in)]
  BY SizeFold
<1>2. Len(in) \in Nat \ {0} /\ \A i \in 1 .. Len(in) : in[i].size \in Nat
  <2>1. MaxBytes \in Nat
    BY FilterAssumption DEF FilterAssumption
  <2> QED
    BY <2>1, ChainType DEF Buf
<1> DEFINE k == Len(in)
           Good == {d \in 0 .. k : sum[k - d] <= sum[k]}
<1> HIDE DEF k
<1>3. k \in Nat /\ sum \in [0 .. k -> Nat]
  BY <1>1, <1>2 DEF k
<1>4. \A d \in 0 .. k : d \in Good
  <2>1. 0 \in Good
    BY <1>3
  <2>2. ASSUME NEW d \in 0 .. k - 1, d \in Good
        PROVE  d + 1 \in Good
    <3>1. k - d \in 1 .. k /\ k - (d + 1) = (k - d) - 1 /\ k - (d + 1) \in 0 .. k
      BY <1>3
    <3>2. sum[k - d] = sum[k - (d + 1)] + in[k - d].size /\ in[k - d].size \in Nat
      BY <1>1, <1>2, <3>1 DEF k
    <3>3. sum[k - d] \in Nat /\ sum[k - (d + 1)] \in Nat /\ sum[k] \in Nat
      BY <1>3, <3>1
    <3> QED
      BY <1>3, <2>2, <3>1, <3>2, <3>3
  <2> HIDE DEF Good
  <2> QED
    BY <1>3, <2>1, <2>2, UpTo
<1>5. ASSUME NEW n \in 0 .. k
      PROVE  sum[n] <= sum[k]
  <2>1. k - n \in 0 .. k /\ k - (k - n) = n
    BY <1>3
  <2>2. k - n \in Good
    BY <1>4, <2>1
  <2> QED
    BY <2>1, <2>2
<1> QED
  BY <1>1, <1>5 DEF k

\* Where the reader stands after the part of a chain that is n bytes long.
ReadSoFar(acc, n) ==
    IF acc.done THEN acc.body = Bytes(0, declared) /\ given + n = declared
    ELSE acc.body = Bytes(0, given + n) /\ acc.from = given + n

\* One more buffer, whatever its size, keeps the reader in place, and the
\* reader is done exactly at the declared length.
LEMMA ReadBufSoFar ==
    ASSUME declared \in Nat, body_length = declared, given \in Nat,
           NEW acc \in Accs, NEW b \in Buf, NEW n \in Nat, NEW m \in Nat,
           ReadSoFar(acc, n), m = n + b.size, given + m <= declared,
           b.last => given + m = declared
    PROVE  /\ ReadSoFar(ReadBuf(acc, b), m)
           /\ ~ReadBuf(acc, b).done => ~b.last
<1>0. b.size \in Nat /\ b.last \in BOOLEAN
  <2>1. MaxBytes \in Nat
    BY FilterAssumption DEF FilterAssumption
  <2> QED
    BY <2>1 DEF Buf
<1>1. CASE acc.done
  <2>1. ReadBuf(acc, b) = acc
    BY <1>1 DEF ReadBuf
  <2>2. given + m = declared
    BY <1>0, <1>1 DEF ReadSoFar
  <2> QED
    BY <1>1, <2>1, <2>2 DEF ReadSoFar
<1>2. CASE ~acc.done
  <2>1. acc.body = Bytes(0, given + n) /\ acc.from = given + n /\ Len(acc.body) = given + n
    <3>1. given + n \in Nat
      OBVIOUS
    <3>2. Len(Bytes(0, given + n)) = given + n
      BY <3>1, BytesType
    <3> QED
      BY <1>2, <3>2 DEF ReadSoFar
  <2> DEFINE rest == body_length - Len(acc.body)
             size == IF rest < b.size THEN rest ELSE b.size
  <2>2. rest = declared - (given + n) /\ size = b.size
    BY <1>0, <2>1
  <2>3. ReadBuf(acc, b) = [body |-> acc.body \o Bytes(acc.from, size),
                           from |-> acc.from + b.size,
                           done |-> b.last \/ (upstream /\ size = rest)]
    BY <1>2 DEF ReadBuf
  <2> HIDE DEF rest, size
  <2>4. acc.body \o Bytes(acc.from, size) = Bytes(0, given + m)
    <3>1. given + n \in Nat /\ given + m = (given + n) + b.size
      BY <1>0
    <3> QED
      BY <1>0, <2>1, <2>2, <3>1, BytesConcat
  <2>5. acc.from + b.size = given + m
    BY <1>0, <2>1
  <2>6. (b.last \/ (upstream /\ size = rest)) => given + m = declared
    BY <1>0, <2>2
  <2> DEFINE new == ReadBuf(acc, b)
  <2>7. /\ new.body = Bytes(0, given + m) /\ new.from = given + m
        /\ new.done = (b.last \/ (upstream /\ size = rest))
    BY <2>3, <2>4, <2>5
  <2> HIDE DEF new
  <2>8. CASE b.last \/ (upstream /\ size = rest)
    <3>1. given + m = declared
      BY <2>6, <2>8
    <3>2. new.done
      BY <2>7, <2>8
    <3>3. ReadSoFar(new, m)
      BY <2>7, <3>1, <3>2 DEF ReadSoFar
    <3> QED
      BY <3>2, <3>3 DEF new
  <2>9. CASE ~(b.last \/ (upstream /\ size = rest))
    <3>1. ~new.done
      BY <2>7, <2>9
    <3>2. ReadSoFar(new, m)
      BY <2>7, <3>1 DEF ReadSoFar
    <3> QED
      BY <2>9, <3>2 DEF new
  <2> QED
    BY <2>8, <2>9
<1> QED
  BY <1>1, <1>2

\* However the body is cut: read_body is done with the whole body, and with
\* nothing less, and a chain with the last buffer never leaves it waiting.
LEMMA ReadBodyWhole ==
    ASSUME NEW in \in Chains, MayGive(in), declared \in Nat, body_length = declared,
           given \in 0 .. declared, body = Bytes(0, given)
    PROVE  /\ given + Size(in) \in given .. declared
           /\ ReadBody(in).done =>
                ReadBody(in).body = Bytes(0, declared) /\ given + Size(in) = declared
           /\ ~ReadBody(in).done =>
                ReadBody(in).body = Bytes(0, given + Size(in)) /\ ~in[Len(in)].last
<1> DEFINE k == Len(in)
<1>1. k \in Nat \ {0} /\ \A i \in 1 .. k : in[i] \in Buf
  BY ChainType
<1>2. given \in Nat /\ body \in Seq(Int) /\ Len(body) <= body_length /\ given \in Int
  BY BytesType
<1>3. PICK sum \in [0 .. k -> Nat] :
              /\ sum[0] = 0
              /\ \A n \in 1 .. k : sum[n] = sum[n - 1] + in[n].size
              /\ Size(in) = sum[k]
              /\ \A n \in 0 .. k : sum[n] <= Size(in)
  BY SizeSum
<1>4. PICK r \in [0 .. k -> Accs] :
              /\ r[0] = [body |-> body, from |-> given, done |-> FALSE]
              /\ \A n \in 1 .. k : r[n] = ReadBuf(r[n - 1], in[n])
              /\ ReadBody(in) = r[k]
  BY <1>2, ReadFold
<1>5. /\ given + sum[k] <= declared
      /\ \A i \in 1 .. k : in[i].last => i = k /\ given + sum[k] = declared
  BY <1>3 DEF MayGive, Total
<1> HIDE DEF k
<1>6. ASSUME NEW n \in 0 .. k - 1, ReadSoFar(r[n], sum[n])
      PROVE  /\ ReadSoFar(r[n + 1], sum[n + 1])
             /\ ~r[n + 1].done => ~in[n + 1].last
  <2>1. n + 1 \in 1 .. k /\ n \in 0 .. k /\ n + 1 \in 0 .. k /\ (n + 1) - 1 = n
    BY <1>1
  <2>2. r[n + 1] = ReadBuf(r[n], in[n + 1]) /\ sum[n + 1] = sum[n] + in[n + 1].size
    BY <1>3, <1>4, <2>1
  <2>3. r[n] \in Accs /\ in[n + 1] \in Buf /\ sum[n] \in Nat /\ sum[n + 1] \in Nat
    BY <1>1, <2>1
  <2>4. given + sum[n + 1] <= declared
    <3>1. sum[n + 1] <= sum[k] /\ sum[k] \in Nat
      BY <1>1, <1>3, <2>1
    <3> QED
      BY <1>2, <1>5, <2>3, <3>1
  <2>5. in[n + 1].last => given + sum[n + 1] = declared
    BY <1>5, <2>1
  <2> QED
    BY <1>2, <1>6, <2>2, <2>3, <2>4, <2>5, ReadBufSoFar
<1> DEFINE Good == {n \in 0 .. k : ReadSoFar(r[n], sum[n])}
<1>7. \A n \in 0 .. k : n \in Good
  <2>1. 0 \in Good
    <3>1. given + 0 = given
      BY <1>2
    <3> QED
      BY <1>1, <1>3, <1>4, <3>1 DEF ReadSoFar
  <2>2. ASSUME NEW n \in 0 .. k - 1, n \in Good
        PROVE  n + 1 \in Good
    <3>1. n + 1 \in 0 .. k
      BY <1>1
    <3> QED
      BY <1>6, <2>2, <3>1
  <2> HIDE DEF Good
  <2> QED
    BY <1>1, <2>1, <2>2, UpTo
<1>8. ReadSoFar(r[k], sum[k])
  BY <1>1, <1>7
<1>9. ~r[k].done => ~in[k].last
  <2>1. k - 1 \in 0 .. k - 1 /\ k - 1 \in 0 .. k /\ (k - 1) + 1 = k
    BY <1>1
  <2> QED
    BY <1>6, <1>7, <2>1
<1>10. given + Size(in) \in given .. declared
  BY <1>1, <1>2, <1>3, <1>5
<1> QED
  BY <1>3, <1>4, <1>8, <1>9, <1>10 DEF ReadSoFar, k
-----------------------------------------------------------------------------
(* What has been read and sent.                                            *)

\* The response is passed through: no body script, or no length to read up to.
Passing == "body" \notin conf \/ declared < 0

\* The body that the script got, and the one that was sent for it.
Ran == seen = <<Bytes(0, declared)>> /\ declared >= 0

\* The inductive invariant: what has been read and sent, phase by phase.
FilterInv ==
    /\ TypeOK /\ out \in Seq(Int) /\ given \in 0 .. Total
    /\ phase = "none" =>
         /\ given = 0 /\ ~ended /\ content_length_n = declared /\ body = <<>> /\ out = <<>>
         /\ ~out_last /\ ~buffered /\ header = NoHeader /\ result = "open"
    /\ phase \in {"none", "start", "read"} => seen = <<>> /\ ~raised
    /\ phase \in {"start", "read"} =>
         /\ content_length_n = declared
         /\ "body" \in conf => body_length = declared
         /\ conf = {"body"} /\ declared >= 0 => header = NoHeader
    /\ phase = "start" =>
         /\ body = <<>> /\ ~buffered
         /\ IF Passing THEN result = "open" => out = Bytes(0, given) /\ out_last = ended
            ELSE given = 0 /\ ~ended /\ out = <<>> /\ ~out_last
    /\ phase = "read" =>
         ~Passing /\ body = Bytes(0, given) /\ ~ended /\ out = <<>> /\ ~out_last
    /\ phase = "process" => Ran /\ result = "error"
    /\ phase = "pass" =>
         /\ Ran /\ given = declared /\ ~buffered
         /\ result = "open" => out_last /\ Len(out) = content_length_n
         /\ conf = {"body"} =>
              header.length = content_length_n /\ (raised => header.status = 500)

\* The header filter: no body has been given yet.
LEMMA HeaderKeeps ==
    ASSUME FilterInv,
           HeaderPasses \/ HeaderHeldBack \/ \E end \in ScriptEnds : HeaderScript(end)
    PROVE  FilterInv'
<1>1. /\ phase = "none" /\ phase' = "start"
      /\ UNCHANGED <<conf, upstream, head, declared, content_length_n, given, ended,
                     body, buffered, out, out_last, seen, raised>>
      /\ status' \in {200, 500} /\ result' \in {"open", "error"}
      /\ "body" \in conf => body_length' = content_length_n
      /\ body_length' \in {body_length, content_length_n}
      /\ conf = {"body"} => header' = header
  <2>1. status \in {200, 500} /\ result \in {"open", "error"}
    BY DEF FilterInv, TypeOK
  <2>2. CASE HeaderPasses
    BY <2>1, <2>2 DEF HeaderPasses
  <2>3. CASE HeaderHeldBack
    BY <2>1, <2>3 DEF HeaderHeldBack
  <2>4. ASSUME NEW end \in ScriptEnds, HeaderScript(end)
        PROVE  /\ phase = "none" /\ phase' = "start"
               /\ UNCHANGED <<conf, upstream, head, declared, content_length_n, given, ended,
                              body, buffered, out, out_last, seen, raised>>
               /\ status' \in {200, 500} /\ result' \in {"open", "error"}
               /\ "body" \in conf => body_length' = content_length_n
               /\ body_length' \in {body_length, content_length_n}
               /\ conf = {"body"} => header' = header
    BY <2>1, <2>4 DEF HeaderScript, StatusAfter
  <2> QED
    BY <2>2, <2>3, <2>4
<1>2. /\ given = 0 /\ ~ended /\ content_length_n = declared /\ body = <<>> /\ out = <<>>
      /\ ~out_last /\ ~buffered /\ header = NoHeader /\ seen = <<>> /\ ~raised
  BY <1>1 DEF FilterInv
<1>3. TypeOK' /\ (out \in Seq(Int))' /\ (given \in 0 .. Total)'
  BY <1>1 DEF FilterInv, TypeOK, Total
<1>4. out = Bytes(0, given)
  BY <1>2 DEF Bytes
<1>5. Bytes(0, given)' = Bytes(0, given) /\ Passing' = Passing
  BY <1>1 DEF Bytes, Passing
<1>6. /\ phase' \in {"start", "read"} => seen' = <<>> /\ ~raised'
      /\ content_length_n' = declared'
      /\ "body" \in conf' => body_length' = declared'
      /\ conf' = {"body"} /\ declared' >= 0 => header' = NoHeader'
  BY <1>1, <1>2 DEF NoHeader
<1>7. /\ body' = <<>> /\ ~buffered'
      /\ IF Passing' THEN result' = "open" => out' = Bytes(0, given)' /\ out_last' = ended'
         ELSE given' = 0 /\ ~ended' /\ out' = <<>> /\ ~out_last'
  <2>1. out' = Bytes(0, given)' /\ out_last' = ended'
    <3>1. ended' = FALSE /\ out_last' = FALSE
      BY <1>1, <1>2, <1>3 DEF TypeOK
    <3> QED
      BY <1>1, <1>4, <1>5, <3>1
  <2> QED
    BY <1>1, <1>2, <2>1
<1> QED
  BY <1>1, <1>2, <1>3, <1>6, <1>7 DEF FilterInv

\* What a content handler gives keeps within the length it declared.
LEMMA GivesType ==
    ASSUME FilterInv, NEW in \in Chains, MayGive(in), Gives(in), declared' = declared
    PROVE  /\ Size(in) \in Nat /\ given \in Nat /\ given' = given + Size(in)
           /\ given' \in 0 .. Total /\ Total' = Total /\ Total \in 0 .. MaxBytes
           /\ in[Len(in)].last \in BOOLEAN /\ ended' = in[Len(in)].last /\ ~ended
<1>1. Len(in) \in Nat \ {0} /\ \A i \in 1 .. Len(in) : in[i] \in Buf
  BY ChainType
<1>2. in[Len(in)].last \in BOOLEAN
  BY <1>1 DEF Buf
<1>3. Size(in) \in Nat
  BY <1>1, SizeFold
<1>4. Total \in 0 .. MaxBytes
  BY FilterAssumption DEF FilterInv, TypeOK, Total, FilterAssumption
<1>5. given \in Nat /\ given \in 0 .. Total /\ Total' = Total
  BY <1>4 DEF FilterInv, Total
<1> QED
  BY <1>2, <1>3, <1>4, <1>5 DEF MayGive, Gives

\* A chain that is passed on continues what has been sent.
LEMMA PassKeeps ==
    ASSUME FilterInv, NEW in \in Chains, BodyPasses(in)
    PROVE  FilterInv'
<1>0. MaxBytes \in Nat
  BY FilterAssumption DEF FilterAssumption
<1>1. /\ phase = "start" /\ result = "open" /\ MayGive(in) /\ Gives(in)
      /\ "body" \notin conf \/ content_length_n < 0
      /\ UNCHANGED <<conf, upstream, head, declared, content_length_n, status,
                     phase, body_length, body, buffered, seen, raised>>
  BY DEF BodyPasses
<1>2. /\ out = Bytes(0, given) /\ out_last = ended /\ Passing /\ Passing'
      /\ content_length_n = declared /\ body = <<>> /\ ~buffered /\ seen = <<>> /\ ~raised
      /\ "body" \in conf => body_length = declared
  BY <1>1 DEF FilterInv, Passing
<1>3. /\ Size(in) \in Nat /\ given \in Nat /\ given' = given + Size(in)
      /\ given' \in 0 .. Total /\ Total' = Total /\ Total \in 0 .. MaxBytes
      /\ in[Len(in)].last \in BOOLEAN /\ ended' = in[Len(in)].last /\ ~ended
  BY <1>1, GivesType
<1>4. /\ result' = "error" /\ UNCHANGED <<out, out_last>>
      \/ /\ result' = "open" /\ out' = out \o Bytes(given, Size(in))
         /\ out_last' = (out_last \/ in[Len(in)].last)
  BY <1>1 DEF BodyPasses, Forwards, PassedOn
<1>5. /\ out' \in Seq(Int) /\ Len(out') <= MaxBytes /\ out_last' \in BOOLEAN
      /\ result' = "open" => out' = Bytes(0, given') /\ out_last' = ended'
  <2>1. CASE result' = "error" /\ UNCHANGED <<out, out_last>>
    BY <2>1 DEF FilterInv, TypeOK
  <2>2. CASE /\ result' = "open" /\ out' = out \o Bytes(given, Size(in))
             /\ out_last' = (out_last \/ in[Len(in)].last)
    <3>1. out' = Bytes(0, given')
      BY <1>2, <1>3, <2>2, BytesConcat
    <3>2. given' \in Nat /\ given' <= MaxBytes
      BY <1>0, <1>3
    <3>3. out' \in Seq(Int) /\ Len(out') = given'
      BY <3>1, <3>2, BytesType
    <3>4. out_last' = ended'
      BY <1>2, <1>3, <2>2
    <3> QED
      BY <1>3, <3>1, <3>2, <3>3, <3>4
  <2> QED
    BY <1>4, <2>1, <2>2
<1>6. TypeOK' /\ (out \in Seq(Int))' /\ (given \in 0 .. Total)'
  <2>1. given' \in 0 .. MaxBytes /\ ended' \in BOOLEAN /\ given' \in 0 .. Total'
    BY <1>0, <1>3
  <2>2. result' \in {"open", "error"}
    BY <1>4
  <2> QED
    BY <1>1, <1>5, <2>1, <2>2 DEF FilterInv, TypeOK
<1>7. conf = {"body"} /\ declared >= 0 => FALSE
  BY <1>2 DEF Passing, FilterInv, TypeOK
<1>8. Bytes(0, given)' = Bytes(0, given')
  BY DEF Bytes
<1> QED
  BY <1>1, <1>2, <1>5, <1>6, <1>7, <1>8 DEF FilterInv

\* The state in which a body is read: what is kept is what was given.
LEMMA Reading ==
    ASSUME FilterInv, NEW in \in Chains, phase \in {"start", "read"}, "body" \in conf,
           content_length_n >= 0, MayGive(in)
    PROVE  /\ declared \in Nat /\ declared <= MaxBytes /\ body_length = declared
           /\ content_length_n = declared /\ Total = declared
           /\ given \in 0 .. declared /\ body = Bytes(0, given)
           /\ ~Passing /\ out = <<>> /\ ~out_last /\ seen = <<>> /\ ~raised
           /\ conf = {"body"} => header = NoHeader
<1>1. content_length_n = declared /\ body_length = declared /\ seen = <<>> /\ ~raised
  BY DEF FilterInv
<1>2. declared \in Nat /\ declared <= MaxBytes /\ ~Passing
  BY <1>1, FilterAssumption DEF FilterInv, TypeOK, Passing, FilterAssumption
<1>3. Total = declared /\ given \in 0 .. declared
  BY <1>2 DEF Total, FilterInv
<1>4. out = <<>> /\ ~out_last /\ (conf = {"body"} => header = NoHeader)
  BY <1>2 DEF FilterInv
<1>5. body = Bytes(0, given)
  <2>1. CASE phase = "start"
    BY <1>2, <2>1 DEF FilterInv, Bytes
  <2>2. CASE phase = "read"
    BY <2>2 DEF FilterInv
  <2> QED
    BY <2>1, <2>2
<1> QED
  BY <1>1, <1>2, <1>3, <1>4, <1>5

\* A part of the body is kept, in its place.
LEMMA ReadKeeps ==
    ASSUME FilterInv, NEW in \in Chains, BodyIncomplete(in)
    PROVE  FilterInv'
<1>0. MaxBytes \in Nat
  BY FilterAssumption DEF FilterAssumption
<1>1. /\ phase \in {"start", "read"} /\ result = "open" /\ MayGive(in) /\ Gives(in)
      /\ "body" \in conf /\ content_length_n >= 0 /\ phase' = "read" /\ buffered' = TRUE
      /\ ~ReadBody(in).done /\ body' = ReadBody(in).body
      /\ UNCHANGED <<conf, upstream, head, declared, content_length_n, status,
                     body_length, header, out, out_last, result, seen, raised>>
  BY DEF BodyIncomplete
<1>2. /\ declared \in Nat /\ declared <= MaxBytes /\ body_length = declared
      /\ content_length_n = declared
      /\ given \in 0 .. declared /\ body = Bytes(0, given)
      /\ ~Passing /\ out = <<>> /\ ~out_last /\ seen = <<>> /\ ~raised
      /\ conf = {"body"} => header = NoHeader
  BY <1>1, Reading
<1>3. /\ given' = given + Size(in) /\ given' \in 0 .. Total /\ Total' = Total
      /\ Total \in 0 .. MaxBytes /\ ended' = in[Len(in)].last
  BY <1>1, GivesType
<1>4. body' = Bytes(0, given') /\ ~ended'
  BY <1>1, <1>2, <1>3, ReadBodyWhole
<1>5. given' \in Nat /\ given' <= MaxBytes /\ ended' = FALSE
  <2>1. ended' \in BOOLEAN
    BY <1>1, GivesType
  <2> QED
    BY <1>0, <1>3, <1>4, <2>1
<1>6. Len(body') <= MaxBytes
  BY <1>4, <1>5, BytesType
<1>7. TypeOK' /\ (out \in Seq(Int))' /\ (given \in 0 .. Total)'
  <2>1. given' \in 0 .. MaxBytes /\ given' \in 0 .. Total'
    BY <1>0, <1>3, <1>5
  <2>2. buffered' \in BOOLEAN /\ ended' \in BOOLEAN
    BY <1>1, <1>5
  <2> QED
    BY <1>1, <1>6, <2>1, <2>2 DEF FilterInv, TypeOK
<1>8. Bytes(0, given)' = Bytes(0, given') /\ Passing' = Passing
  BY <1>1 DEF Bytes, Passing
<1> QED
  BY <1>1, <1>2, <1>4, <1>7, <1>8 DEF FilterInv, NoHeader

\* The script reads the whole body, and leaves it or another one.
LEMMA ScriptBodies ==
    ASSUME declared \in Nat, declared <= MaxBytes, body_length = declared,
           NEW set \in Keep .. MaxBytes
    PROVE  /\ FilterBody(Bytes(0, declared)) = Bytes(0, declared)
           /\ NewBody(Bytes(0, declared), set) \in Seq(Int)
           /\ Len(NewBody(Bytes(0, declared), set)) \in 0 .. MaxBytes
<1>0. MaxBytes \in Nat
  BY FilterAssumption DEF FilterAssumption
<1>1. Bytes(0, declared) \in Seq(Int) /\ Len(Bytes(0, declared)) = declared
  BY BytesType
<1>2. FilterBody(Bytes(0, declared)) = Bytes(0, declared)
  BY <1>1 DEF FilterBody, Bytes
<1>3. CASE set = Keep
  BY <1>0, <1>1, <1>2, <1>3 DEF NewBody
<1>4. CASE set # Keep
  <2> DEFINE new == [i \in 1 .. set |-> Fresh]
  <2>1. set \in Nat /\ set <= MaxBytes
    BY <1>0, <1>4 DEF Keep
  <2>2. new \in [1 .. set -> Int]
    BY DEF Fresh
  <2>3. new \in Seq(Int) /\ Len(new) = set
    BY <2>1, <2>2
  <2>4. NewBody(Bytes(0, declared), set) = new
    BY <1>4 DEF NewBody
  <2> QED
    BY <1>0, <1>2, <2>1, <2>3, <2>4
<1> QED
  BY <1>3, <1>4

\* The body was complete, the script ran on it, and what it left is sent.
LEMMA CompleteKeeps ==
    ASSUME FilterInv, NEW in \in Chains, NEW set \in Keep .. MaxBytes, NEW end,
           BodyComplete(in, set, end)
    PROVE  FilterInv'
<1> DEFINE read == ReadBody(in).body
           new == NewBody(read, set)
<1>0. MaxBytes \in Nat
  BY FilterAssumption DEF FilterAssumption
<1>1. /\ phase \in {"start", "read"} /\ result = "open" /\ MayGive(in) /\ Gives(in)
      /\ "body" \in conf /\ content_length_n >= 0 /\ ReadBody(in).done
      /\ buffered' = FALSE /\ seen' = Append(seen, FilterBody(read))
      /\ status' = StatusAfter(end) /\ raised' = (raised \/ end = "raise")
      /\ body' = new /\ body_length' = Len(new)
      /\ UNCHANGED <<conf, upstream, head, declared>>
  BY DEF BodyComplete
<1>2. /\ declared \in Nat /\ declared <= MaxBytes /\ body_length = declared
      /\ content_length_n = declared
      /\ given \in 0 .. declared /\ body = Bytes(0, given)
      /\ ~Passing /\ out = <<>> /\ ~out_last /\ seen = <<>> /\ ~raised
      /\ conf = {"body"} => header = NoHeader
  BY <1>1, Reading
<1>3. /\ given' = given + Size(in) /\ given' \in 0 .. Total /\ Total' = Total
      /\ Total \in 0 .. MaxBytes /\ ended' \in BOOLEAN
  BY <1>1, GivesType
<1>4. read = Bytes(0, declared) /\ given' = declared
  BY <1>1, <1>2, <1>3, ReadBodyWhole
<1>5. new \in Seq(Int) /\ Len(new) \in 0 .. MaxBytes /\ FilterBody(read) = Bytes(0, declared)
  BY <1>2, <1>4, ScriptBodies
<1>6. seen' = <<Bytes(0, declared)>>
  BY <1>1, <1>2, <1>5
<1>7. status' \in {200, 500} /\ (raised' => status' = 500) /\ raised' \in BOOLEAN
  BY <1>1, <1>2 DEF StatusAfter, FilterInv, TypeOK
<1>8. (end = "error") =>
        phase' = "process" /\ result' = "error" /\ UNCHANGED <<content_length_n, header, out, out_last>>
  BY DEF BodyComplete
<1>9. (end # "error") =>
        /\ phase' = "pass" /\ content_length_n' = Len(new)
        /\ header' = NextHeaderFilter(content_length_n', status')
        /\ \/ result' = "error" /\ UNCHANGED <<out, out_last>>
           \/ result' = result /\ out' = out \o new /\ out_last' = (out_last \/ TRUE)
  BY DEF BodyComplete, LengthOf, Forwards
<1> HIDE DEF read, new
<1>10. /\ given' \in 0 .. MaxBytes /\ given' \in 0 .. Total' /\ buffered' \in BOOLEAN
       /\ body_length' \in -1 .. MaxBytes /\ Len(body') <= MaxBytes
  <2>1. given' \in 0 .. MaxBytes
    BY <1>0, <1>2, <1>4
  <2>2. Len(new) \in -1 .. MaxBytes /\ Len(new) <= MaxBytes
    BY <1>0, <1>5
  <2> QED
    BY <1>1, <1>3, <2>1, <2>2
<1>11. Ran'
  <2>1. Bytes(0, declared)' = Bytes(0, declared)
    BY <1>1 DEF Bytes
  <2> QED
    BY <1>1, <1>2, <1>6, <2>1 DEF Ran
<1>12. CASE end = "error"
  <2>1. TypeOK' /\ (out \in Seq(Int))' /\ (given \in 0 .. Total)'
    BY <1>1, <1>3, <1>7, <1>8, <1>10, <1>12 DEF FilterInv, TypeOK
  <2> QED
    BY <1>8, <1>11, <1>12, <2>1 DEF FilterInv
<1>13. CASE end # "error"
  <2>1. /\ out' \in Seq(Int) /\ Len(out') <= MaxBytes /\ out_last' \in BOOLEAN
        /\ result' \in {"open", "error"} /\ content_length_n' \in -1 .. MaxBytes
        /\ result' = "open" => out_last' /\ Len(out') = content_length_n'
    <3>0. content_length_n' \in -1 .. MaxBytes
      BY <1>0, <1>5, <1>9, <1>13
    <3>1. CASE result' = "error" /\ UNCHANGED <<out, out_last>>
      BY <1>0, <1>2, <3>0, <3>1 DEF FilterInv, TypeOK
    <3>2. CASE result' = result /\ out' = out \o new /\ out_last' = (out_last \/ TRUE)
      <4>1. out' = new
        BY <1>2, <1>5, <3>2
      <4>2. Len(out') = content_length_n' /\ out' \in Seq(Int)
        BY <1>5, <1>9, <1>13, <4>1
      <4>3. Len(out') <= MaxBytes
        BY <1>0, <1>5, <4>1
      <4> QED
        BY <1>1, <3>0, <3>2, <4>2, <4>3
    <3> QED
      BY <1>9, <1>13, <3>1, <3>2
  <2>2. TypeOK' /\ (out \in Seq(Int))' /\ (given \in 0 .. Total)'
    BY <1>1, <1>3, <1>7, <1>9, <1>10, <1>13, <2>1 DEF FilterInv, TypeOK
  <2>3. conf' = {"body"} =>
          header'.length = content_length_n' /\ (raised' => header'.status = 500)
    BY <1>1, <1>2, <1>7, <1>9, <1>13 DEF NextHeaderFilter
  <2>4. ~buffered' /\ given' = declared'
    BY <1>1, <1>4
  <2> QED
    BY <1>9, <1>11, <1>13, <2>1, <2>2, <2>3, <2>4 DEF FilterInv
<1> QED
  BY <1>12, <1>13

\* After the script nothing of the old body is left to come but empty buffers.
LEMMA TailKeeps ==
    ASSUME FilterInv, NEW in \in Chains, BodyTail(in)
    PROVE  FilterInv'
<1>1. /\ phase = "pass" /\ result = "open" /\ MayGive(in) /\ Gives(in)
      /\ out' = out \o Bytes(given, Size(in))
      /\ out_last' = (out_last \/ in[Len(in)].last)
      /\ UNCHANGED <<conf, upstream, head, declared, content_length_n, status,
                     phase, body_length, body, buffered, header, result, seen, raised>>
  BY DEF BodyTail, Forwards, PassedOn
<1>2. Ran /\ given = declared /\ declared >= 0 /\ out_last /\ out \in Seq(Int)
  BY <1>1 DEF FilterInv, Ran
<1>3. /\ Size(in) \in Nat /\ given \in Nat /\ given' = given + Size(in)
      /\ given' \in 0 .. Total /\ Total' = Total /\ ended' \in BOOLEAN
  BY <1>1, GivesType
<1>4. Size(in) = 0 /\ given' = given
  BY <1>2, <1>3 DEF Total
<1>5. out' = out
  <2>1. Bytes(given, 0) = <<>>
    BY DEF Bytes
  <2> QED
    BY <1>1, <1>2, <1>4, <2>1, ConcatEmptySeq
<1>6. out_last' = TRUE /\ out_last' = out_last
  BY <1>1, <1>2 DEF FilterInv, TypeOK
<1>7. TypeOK' /\ (out \in Seq(Int))' /\ (given \in 0 .. Total)'
  <2>1. {upstream', head', ended', buffered', out_last', raised'} \subseteq BOOLEAN
    BY <1>1, <1>3, <1>6 DEF FilterInv, TypeOK
  <2>2. given' \in 0 .. MaxBytes /\ Len(out') <= MaxBytes /\ out' \in Seq(Int)
    BY <1>4, <1>5 DEF FilterInv, TypeOK
  <2> QED
    BY <1>1, <1>3, <2>1, <2>2 DEF FilterInv, TypeOK
<1>8. Ran'
  <2>1. Bytes(0, declared)' = Bytes(0, declared)
    BY <1>1 DEF Bytes
  <2> QED
    BY <1>1, <1>2, <2>1 DEF Ran
<1> QED
  BY <1>1, <1>2, <1>4, <1>5, <1>6, <1>7, <1>8 DEF FilterInv

\* The invariant holds in every state.
LEMMA FilterHolds == Spec => []FilterInv
<1>1. Init => FilterInv
  <2>1. MaxBytes \in Nat
    BY FilterAssumption DEF FilterAssumption
  <2> SUFFICES ASSUME Init PROVE FilterInv
    OBVIOUS
  <2>2. out \in Seq(Int) /\ given \in 0 .. Total /\ Len(body) = 0 /\ Len(out) = 0
    BY <2>1 DEF Init, Total
  <2>3. TypeOK
    <3>1. {declared, content_length_n} \subseteq -1 .. MaxBytes /\ 0 \in 0 .. MaxBytes
      BY <2>1 DEF Init
    <3>2. 0 \in -1 .. MaxBytes /\ 0 <= MaxBytes
      BY <2>1
    <3> QED
      BY <2>2, <3>1, <3>2 DEF Init, TypeOK
  <2> QED
    BY <2>2, <2>3 DEF Init, FilterInv
<1>2. FilterInv /\ [Next]_vars => FilterInv'
  <2> SUFFICES ASSUME FilterInv, [Next]_vars PROVE FilterInv'
    OBVIOUS
  <2>1. CASE UNCHANGED vars
    BY <2>1 DEF vars, FilterInv, TypeOK, Total, Passing, Ran, Bytes, NoHeader
  <2>2. ASSUME NEW in \in Chains, BodyFilter(in)
        PROVE  FilterInv'
    BY <2>2, PassKeeps, ReadKeeps, CompleteKeeps, TailKeeps DEF BodyFilter
  <2> QED
    BY <2>1, <2>2, HeaderKeeps DEF Next
<1> QED
  BY <1>1, <1>2, PTL DEF Spec

\* Every variable keeps its type; neither what is kept of the body nor what
\* is sent for it outgrows the bound.
THEOREM FilterTyped == Spec => []TypeOK
<1>1. FilterInv => TypeOK
  BY DEF FilterInv
<1> QED
  BY <1>1, FilterHolds, PTL

\* The body script is run at most once, on exactly the bytes the content
\* handler gave, for any length and any cut into chains and buffers.
THEOREM WholeBody == Spec => []ScriptSeesWholeBody
<1>1. FilterInv => ScriptSeesWholeBody
  BY DEF FilterInv, TypeOK, Ran, ScriptSeesWholeBody
<1> QED
  BY <1>1, FilterHolds, PTL

\* When the content handler has given its last buffer and no filter failed,
\* the client has been sent the end of a body.
THEOREM BodyIsEnded == Spec => []NothingKeptBack
<1>1. FilterInv => NothingKeptBack
  BY DEF FilterInv, TypeOK, NothingKeptBack
<1> QED
  BY <1>1, FilterHolds, PTL

\* A response that no body script ran on is what the content handler gave.
THEOREM PassedUnchanged == Spec => []UnfilteredUnchanged
<1>1. FilterInv => UnfilteredUnchanged
  <2>1. Ran => seen # <<>>
    BY DEF Ran
  <2> QED
    BY <2>1 DEF FilterInv, TypeOK, UnfilteredUnchanged
<1> QED
  BY <1>1, FilterHolds, PTL

\* Where the body script decides alone, the header announces the body sent,
\* and the 500 of a script that raised.
THEOREM LengthAnnounced == Spec => []SoleFilterLength
<1>1. FilterInv => SoleFilterLength
  BY DEF FilterInv, TypeOK, SoleFilterLength
<1> QED
  BY <1>1, FilterHolds, PTL

-----------------------------------------------------------------------------
(* The header goes first.                                                  *)

USE FilterAssumption DEF FilterAssumption

\* Body bytes are passed on in two ways: by a location whose header went out
\* at once or with the first chain, and after the script, which sends it.
HeaderInv ==
    /\ conf \subseteq {"header", "body"}
    /\ status \in {200, 500}
    /\ phase = "none" => out = <<>> /\ ~out_last
    /\ phase # "none" /\ result = "open" /\ conf # {"body"} => header # NoHeader
    /\ phase = "pass" => header # NoHeader
    /\ HeaderBeforeBody

\* Calling the next header filter leaves a header sent, and the one that was
\* sent first.
LEMMA NextHeaderSends ==
    ASSUME NEW n, NEW st \in {200, 500}
    PROVE  NextHeaderFilter(n, st) # NoHeader
BY DEF NextHeaderFilter, NoHeader

\* A script leaves the status alone or makes it 500.
LEMMA StatusType ==
    ASSUME status \in {200, 500}, NEW end
    PROVE  StatusAfter(end) \in {200, 500}
BY DEF StatusAfter

\* The three ways of the header filter; none of them has sent a body yet.
LEMMA HeaderStep ==
    ASSUME HeaderInv,
           HeaderPasses \/ HeaderHeldBack \/ \E end \in ScriptEnds : HeaderScript(end)
    PROVE  HeaderInv'
<1>1. /\ phase = "none" /\ phase' = "start" /\ UNCHANGED <<conf, out, out_last>>
      /\ out = <<>> /\ ~out_last
  BY DEF HeaderInv, HeaderPasses, HeaderHeldBack, HeaderScript
<1>2. HeaderBeforeBody'
  BY <1>1 DEF HeaderBeforeBody
<1>3. CASE HeaderPasses
  BY <1>1, <1>2, <1>3, NextHeaderSends DEF HeaderPasses, HeaderInv
<1>4. CASE HeaderHeldBack
  BY <1>1, <1>2, <1>4 DEF HeaderHeldBack, HeaderInv
<1>5. ASSUME NEW end \in ScriptEnds, HeaderScript(end)
      PROVE  HeaderInv'
  <2>1. status' \in {200, 500} /\ status' = StatusAfter(end)
    BY <1>5, StatusType DEF HeaderScript, HeaderInv
  <2>2. end # "error" => header' # NoHeader
    BY <1>5, <2>1, NextHeaderSends DEF HeaderScript
  <2>3. end = "error" => result' = "error"
    BY <1>5 DEF HeaderScript
  <2> QED
    BY <1>1, <1>2, <2>1, <2>2, <2>3 DEF HeaderInv
<1> QED
  BY <1>3, <1>4, <1>5

\* A chain that is passed on as it is follows the header, sent now if the
\* body filter had held it back.
LEMMA PassStep ==
    ASSUME HeaderInv, NEW in, BodyPasses(in)
    PROVE  HeaderInv'
<1>1. /\ phase = "start" /\ result = "open"
      /\ UNCHANGED <<conf, status, phase>> /\ header' = HeaderNow
  BY DEF BodyPasses
<1>2. header' # NoHeader
  <2>1. CASE "body" \in conf
    BY <1>1, <2>1, NextHeaderSends DEF HeaderNow, HeaderInv
  <2>2. CASE "body" \notin conf
    BY <1>1, <2>2 DEF HeaderNow, HeaderInv
  <2> QED
    BY <2>1, <2>2
<1> QED
  BY <1>1, <1>2 DEF HeaderInv, HeaderBeforeBody

\* A body that is not complete is kept, and nothing is sent.
LEMMA KeepStep ==
    ASSUME HeaderInv, NEW in, BodyIncomplete(in)
    PROVE  HeaderInv'
BY DEF BodyIncomplete, HeaderInv, HeaderBeforeBody

\* The script has run: the header goes first, and without it no body.
LEMMA CompleteStep ==
    ASSUME HeaderInv, NEW in, NEW set, NEW end, BodyComplete(in, set, end)
    PROVE  HeaderInv'
<1>1. /\ phase \in {"start", "read"} /\ result = "open" /\ conf' = conf
      /\ status' = StatusAfter(end)
  BY DEF BodyComplete
<1>2. status' \in {200, 500}
  BY <1>1, StatusType DEF HeaderInv
<1>3. CASE end = "error"
  <2>1. phase' = "process" /\ result' = "error" /\ UNCHANGED <<header, out, out_last>>
    BY <1>3 DEF BodyComplete
  <2> QED
    BY <1>1, <1>2, <2>1 DEF HeaderInv, HeaderBeforeBody
<1>4. CASE end # "error"
  <2>1. phase' = "pass" /\ header' = NextHeaderFilter(content_length_n', status')
    BY <1>4 DEF BodyComplete
  <2>2. header' # NoHeader
    BY <1>2, <2>1, NextHeaderSends
  <2> QED
    BY <1>1, <1>2, <2>1, <2>2 DEF HeaderInv, HeaderBeforeBody
<1> QED
  BY <1>3, <1>4

\* What follows a body that has been sent follows its header, too.
LEMMA TailStep ==
    ASSUME HeaderInv, NEW in, BodyTail(in)
    PROVE  HeaderInv'
BY DEF BodyTail, HeaderInv, HeaderBeforeBody

\* The client never gets a byte of the body before the header, for any
\* filters, any length and any way the body is cut into buffers.
THEOREM HeaderFirst == Spec => []HeaderBeforeBody
<1>1. Init => HeaderInv
  BY DEF Init, HeaderInv, HeaderBeforeBody
<1>2. HeaderInv /\ [Next]_vars => HeaderInv'
  <2> SUFFICES ASSUME HeaderInv, [Next]_vars PROVE HeaderInv'
    OBVIOUS
  <2>1. CASE UNCHANGED vars
    BY <2>1 DEF vars, HeaderInv, HeaderBeforeBody
  <2>2. ASSUME NEW in \in Chains, BodyFilter(in)
        PROVE  HeaderInv'
    BY <2>2, PassStep, KeepStep, TailStep, CompleteStep DEF BodyFilter
  <2> QED
    BY <2>1, <2>2, HeaderStep DEF Next
<1>3. HeaderInv => HeaderBeforeBody
  BY DEF HeaderInv
<1> QED
  BY <1>1, <1>2, <1>3, PTL DEF Spec
=============================================================================
