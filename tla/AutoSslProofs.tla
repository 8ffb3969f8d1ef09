--------------------------- MODULE AutoSslProofs ---------------------------
(***************************************************************************)
(* Proofs about AutoSsl, for every set of workers and domains, every       *)
(* choice of styles and any number of failures.                            *)
(***************************************************************************)
EXTENDS AutoSsl, TLAPS

\* The part of the type invariant about the handshakes.
JobsOK == job \in [Workers -> Jobs] /\ \A w \in Workers : WellInformed(job[w])

\* The handshakes of the other workers are left alone.
OthersStay(w) == \A v \in Workers \ {w} : job'[v] = job[v]

\* A worker that takes up a good record leaves the others with theirs.
LEMMA TurnTyped ==
    ASSUME JobsOK, NEW w \in Workers, NEW j \in Jobs, WellInformed(j), Turns(w, j)
    PROVE  JobsOK' /\ job'[w] = j /\ OthersStay(w)
<1>1. job' = [job EXCEPT ![w] = j] /\ job \in [Workers -> Jobs]
  BY DEF Turns, JobsOK
<1>2. job' \in [Workers -> Jobs] /\ job'[w] = j /\ OthersStay(w)
  BY <1>1 DEF OthersStay
<1>3. \A v \in Workers : WellInformed(job'[v])
  BY <1>2 DEF JobsOK, OthersStay
<1> QED
  BY <1>2, <1>3 DEF JobsOK

\* A handshake that goes on.
LEMMA GoTyped ==
    ASSUME JobsOK, NEW w \in Workers, job[w].pc # "idle",
           NEW pc \in Pcs \ {"idle"}, NEW key \in Nat, NEW a \in Nat, NEW cert \in Nat,
           pc \in {"client", "fetch", "set_token", "set_uri"} => a # 0,
           pc \in {"register", "authorize", "fetch", "issue"} => key # 0,
           pc \in {"set_crt", "set_key"} => cert # 0,
           Go(w, pc, key, a, cert)
    PROVE  /\ JobsOK' /\ OthersStay(w)
           /\ job'[w] = Job(pc, job[w].dom, key, a, cert)
           /\ job'[w].pc = pc /\ job'[w].dom = job[w].dom /\ job'[w].dom \in Domains
           /\ job'[w].cert = cert /\ job'[w].answer = "none"
<1> DEFINE j == Job(pc, job[w].dom, key, a, cert)
<1>1. job[w].dom \in Domains
  BY DEF JobsOK, WellInformed
<1>2. j \in Jobs
  BY <1>1 DEF Job, Jobs, Names
<1>3. j.pc = pc /\ j.dom = job[w].dom /\ j.key = key /\ j.authz = a /\ j.cert = cert /\ j.answer = "none"
  BY DEF Job
<1>4. WellInformed(j)
  BY <1>1, <1>3 DEF WellInformed
<1>5. Turns(w, j)
  BY DEF Go
<1> HIDE DEF j
<1>6. JobsOK' /\ job'[w] = j /\ OthersStay(w)
  BY <1>2, <1>4, <1>5, TurnTyped
<1> QED
  BY <1>1, <1>3, <1>6 DEF j

\* A handler that returns.
LEMMA ReturnTyped ==
    ASSUME JobsOK, NEW w \in Workers, NEW dom \in Names,
           NEW answer \in {"none", "refused", "default", "pair"}, NEW d \in Names,
           Turns(w, Returned(dom, answer, d))
    PROVE  /\ JobsOK' /\ OthersStay(w)
           /\ job'[w].pc = "idle" /\ job'[w].dom = dom
           /\ job'[w].answer = answer /\ job'[w].shown = d
<1> DEFINE j == Returned(dom, answer, d)
<1>1. j \in Jobs
  BY DEF Returned, Jobs, Pcs
<1>2. j.pc = "idle" /\ j.dom = dom /\ j.answer = answer /\ j.shown = d
  BY DEF Returned
<1>3. WellInformed(j)
  BY <1>2 DEF WellInformed
<1> HIDE DEF j
<1>4. JobsOK' /\ job'[w] = j /\ OthersStay(w)
  BY <1>1, <1>3, TurnTyped DEF j
<1> QED
  BY <1>2, <1>4

\* A handler that returns 0.
LEMMA RefuseTyped ==
    ASSUME JobsOK, NEW w \in Workers, Refuse(w)
    PROVE  /\ JobsOK' /\ OthersStay(w)
           /\ job'[w].pc = "idle" /\ job'[w].answer = "refused"
BY ReturnTyped DEF Refuse, Returns, Names

\* Certificate i of cs was issued for d.
OwnedIn(cs, i, d) == i \in 1 .. Len(cs) /\ cs[i] = d
Owned(i, d) == OwnedIn(certs, i, d)

\* Certificates stay with the domain they were requested for, in redis, in
\* the hands of a worker and in the members of its server configuration.
CertsOwn ==
    /\ \A d \in Domains : redis[d]["crt"] # 0 => Owned(redis[d]["crt"], d)
    /\ \A w \in Workers :
         /\ job[w].pc \in {"set_crt", "set_key"} => Owned(job[w].cert, job[w].dom)
         /\ job[w].pc = "load_key" => Owned(member[w].data, job[w].dom)

\* The inductive invariant of the handshakes.
OwnInv == TypeOK /\ CertsOwn /\ OwnCertificate

\* The second half arrives: the handler returns with the domain's own pair
\* or refuses.
LEMMA LoadKeyJob ==
    ASSUME TypeOK, CertsOwn, NEW w \in Workers, LoadKey(w)
    PROVE  /\ JobsOK' /\ OthersStay(w)
           /\ job'[w].pc = "idle"
           /\ \/ job'[w].answer = "refused"
              \/ job'[w].answer = "pair" /\ job'[w].shown = job'[w].dom
<1>1. JobsOK /\ job[w].dom \in Domains
  BY DEF TypeOK, JobsOK, LoadKey, WellInformed
<1>2. CASE Get(w, "key") = 0 /\ Refuse(w)
  BY <1>1, <1>2, RefuseTyped
<1>3. CASE /\ Get(w, "key") # 0
           /\ member' = [member EXCEPT ![w].key_data = Get(w, "key")]
           /\ Decide(w, job[w].dom, member'[w])
  <2> DEFINE m == member'[w]
  <2>1. m.data = member[w].data /\ m.key_data # 0
    BY <1>3 DEF TypeOK, Members
  <2>2. m.data # 0 /\ m.data \in 1 .. Len(certs) /\ certs[m.data] = job[w].dom
    BY <2>1 DEF LoadKey, CertsOwn, Owned, OwnedIn
  <2> HIDE DEF m
  <2>3. \/ Turns(w, Returned(job[w].dom, "pair", job[w].dom))
        \/ Refuse(w)
    BY <1>3, <2>1, <2>2 DEF Decide, Returns, m
  <2> QED
    BY <1>1, <2>3, RefuseTyped, ReturnTyped DEF Names
<1> QED
  BY <1>2, <1>3 DEF LoadKey

\* What the worker's own step in the script does to its handshake: it keeps
\* its domain until it returns, and never turns to a step of the deployment
\* with a certificate it was not given.
LEMMA StepJob ==
    ASSUME TypeOK, CertsOwn, NEW w \in Workers, Step(w)
    PROVE  /\ job[w].pc # "idle" /\ job[w].dom \in Domains
           /\ JobsOK' /\ OthersStay(w)
           /\ job'[w].pc # "idle" => job'[w].dom = job[w].dom
<1>0. JobsOK /\ job[w] \in Jobs /\ redis \in [Domains -> [Entries -> Nat]] /\ keys \in Nat
  BY DEF TypeOK, JobsOK
<1>00. /\ job[w].key \in Nat /\ job[w].authz \in Nat /\ job[w].cert \in Nat
       /\ WellInformed(job[w])
  BY <1>0 DEF Jobs, JobsOK
<1>000. \A d \in Domains : \A e \in Entries : redis[d][e] \in Nat
  BY <1>0
<1> DEFINE Goal == /\ job[w].pc # "idle" /\ job[w].dom \in Domains
                   /\ JobsOK' /\ OthersStay(w)
                   /\ job'[w].pc # "idle" => job'[w].dom = job[w].dom
<1>a. ASSUME NEW pc \in Pcs \ {"idle"}, job[w].pc # "idle", To(w, pc),
             pc \in {"client", "fetch", "set_token", "set_uri"} => job[w].authz # 0,
             pc \in {"register", "authorize", "fetch", "issue"} => job[w].key # 0,
             pc \in {"set_crt", "set_key"} => job[w].cert # 0
      PROVE  Goal
  BY <1>a, <1>0, <1>00, GoTyped DEF To, WellInformed
<1>b. ASSUME job[w].pc # "idle", Load(w) PROVE Goal
  BY <1>b, <1>0, <1>00, GoTyped DEF Load, WellInformed, Pcs
<1>c. ASSUME job[w].pc # "idle", Refuse(w) PROVE Goal
  BY <1>c, <1>0, <1>00, RefuseTyped DEF WellInformed
<1>d. ASSUME NEW pc \in {"register", "fetch"}, PrivateKey(w, pc), job[w].pc # "idle",
             pc = "fetch" => job[w].authz # 0
      PROVE  Goal
  <2>1. job[w].dom \in Domains
    BY <1>d, <1>00 DEF WellInformed
  <2>2. Get(w, "private_key") \in Nat
    BY <2>1, <1>000 DEF Get, Entries
  <2>3. ASSUME NEW k \in Nat \ {0}, Go(w, pc, k, job[w].authz, 0) PROVE Goal
    BY <2>1, <2>3, <1>d, <1>0, <1>00, GoTyped DEF Pcs, Steps
  <2> QED
    BY <2>2, <2>3, <1>0, <1>00, <1>c, <1>d DEF PrivateKey
<1>1. CASE AskCrt(w)
  BY <1>1, <1>a, <1>b DEF AskCrt, Goes, AfterCrt, Deploy, Pcs, Steps
<1>2. CASE AskKey(w)
  BY <1>2, <1>a, <1>b DEF AskKey, Goes, AfterKey, Deploy, Pcs, Steps
<1>3. CASE LoadCrt(w)
  BY <1>3, <1>a, <1>c DEF LoadCrt, Pcs, Steps
<1>4. CASE LoadKey(w)
  BY <1>4, <1>00, LoadKeyJob DEF LoadKey, WellInformed
<1>5. CASE AskToken(w)
  BY <1>5, <1>a DEF AskToken, Pcs, Steps
<1>6. CASE Account(w)
  BY <1>6, <1>d DEF Account
<1>7. CASE Register(w)
  BY <1>7, <1>a, <1>00 DEF Register, Pcs, Steps, WellInformed
<1>8. CASE Authorize(w)
  <2>1. Len(authz) \in Nat
    BY DEF TypeOK
  <2>2. job[w].pc # "idle"
    BY <1>8 DEF Authorize
  <2>3. ASSUME Go(w, "set_token", job[w].key, Len(authz) + 1, 0) PROVE Goal
    BY <2>1, <2>2, <2>3, <1>0, <1>00, GoTyped DEF Pcs, Steps, WellInformed
  <2> QED
    BY <1>8, <2>2, <2>3, <1>c DEF Authorize
<1>9. CASE SetToken(w)
  BY <1>9, <1>a, <1>00 DEF SetToken, Pcs, Steps, WellInformed
<1>10. CASE SetUri(w)
  BY <1>10, <1>a, <1>b DEF SetUri, Pcs, Steps
<1>11. CASE AskUri(w)
  <2>1. job[w].pc # "idle"
    BY <1>11 DEF AskUri
  <2>2. Get(w, "uri") \in Nat
    BY <2>1, <1>00, <1>000 DEF Get, Entries, WellInformed
  <2>3. ASSUME Get(w, "uri") # 0, Go(w, "client", job[w].key, Get(w, "uri"), 0) PROVE Goal
    BY <2>1, <2>2, <2>3, <1>0, <1>00, GoTyped DEF Pcs, Steps, WellInformed
  <2> QED
    BY <1>11, <2>1, <2>3, <1>b DEF AskUri, AfterUri
<1>12. CASE Client(w)
  BY <1>12, <1>d, <1>00 DEF Client, WellInformed
<1>13. CASE Fetch(w)
  BY <1>13, <1>a, <1>b, <1>00 DEF Fetch, Pcs, Steps, WellInformed
<1>14. CASE Issue(w)
  <2>1. Len(certs) \in Nat
    BY DEF TypeOK
  <2>2. job[w].pc # "idle"
    BY <1>14 DEF Issue
  <2>3. ASSUME Go(w, "set_crt", job[w].key, job[w].authz, Len(certs) + 1) PROVE Goal
    BY <2>1, <2>2, <2>3, <1>0, <1>00, GoTyped DEF Pcs, Steps, WellInformed
  <2> QED
    BY <1>14, <2>2, <2>3, <1>a DEF Issue, Pcs, Steps
<1>15. CASE SetCrt(w)
  BY <1>15, <1>a, <1>00 DEF SetCrt, Pcs, Steps, WellInformed
<1>16. CASE SetKey(w)
  BY <1>16, <1>b DEF SetKey
<1>17. CASE Clear(w)
  BY <1>17, <1>a, <1>b DEF Clear, ClearPcs, Pcs, Steps
<1> QED
  BY <1>1, <1>2, <1>3, <1>4, <1>5, <1>6, <1>7, <1>8, <1>9, <1>10, <1>11, <1>12,
     <1>13, <1>14, <1>15, <1>16, <1>17 DEF Step

\* A client's hello: the script of a domain that deploys begins, any other
\* one ends at once, and with the default certificate only if it named half
\* a pair.
LEMMA HandshakeJob ==
    ASSUME TypeOK, NEW w \in Workers, NEW d \in Domains, Handshake(w, d)
    PROVE  /\ JobsOK' /\ OthersStay(w)
           /\ \/ job'[w].pc = "crt?" /\ job'[w].answer = "none"
              \/ job'[w].pc = "idle" /\ job'[w].answer = "refused"
              \/ job'[w].pc = "idle" /\ job'[w].answer = "pair" /\ job'[w].shown = job'[w].dom
              \/ /\ job'[w].pc = "idle" /\ job'[w].answer = "default"
                 /\ job'[w].dom = d /\ Style[d] = "half"
<1> USE DEF Names
<1>1. JobsOK /\ d # NoDomain
  BY AutoSslAssumption DEF TypeOK, JobsOK
<1>2. CASE Style[d] = "acme" /\ Turns(w, Job("crt?", d, 0, 0, 0))
  <2> DEFINE j == Job("crt?", d, 0, 0, 0)
  <2>1. j \in Jobs /\ j.pc = "crt?" /\ j.answer = "none" /\ j.dom = d
    BY DEF Job, Jobs, Pcs
  <2>2. WellInformed(j)
    BY <2>1 DEF WellInformed
  <2> HIDE DEF j
  <2>3. Turns(w, j)
    BY <1>2 DEF j
  <2> QED
    BY <1>1, <2>1, <2>2, <2>3, TurnTyped
<1>3. CASE Style[d] = "denied" /\ Refuse(w)
  BY <1>1, <1>3, RefuseTyped
<1>4. ASSUME NEW m, m.data = 0, m.path = d, m.key_path \in Names,
             Style[d] # "half" => m.key_path = d, Decide(w, d, m)
      PROVE  \/ Turns(w, Returned(d, "pair", d))
             \/ Refuse(w)
             \/ Style[d] = "half" /\ Turns(w, Returned(d, "default", NoDomain))
  BY <1>1, <1>4 DEF Decide, Returns, Default
<1>5. CASE /\ Style[d] \in {"paths", "half"}
           /\ Decide(w, d, [SslInit(member[w]) EXCEPT !.path = d,
                              !.key_path = IF Style[d] = "half" THEN @ ELSE d])
  <2> DEFINE m == [SslInit(member[w]) EXCEPT !.path = d,
                              !.key_path = IF Style[d] = "half" THEN @ ELSE d]
  <2>1. /\ m.data = 0 /\ m.path = d /\ m.key_path \in Names
        /\ Style[d] # "half" => m.key_path = d
    BY DEF SslInit, NoMember
  <2>2. Decide(w, d, m)
    BY <1>5
  <2> HIDE DEF m
  <2>3. \/ Turns(w, Returned(d, "pair", d))
        \/ Refuse(w)
        \/ Style[d] = "half" /\ Turns(w, Returned(d, "default", NoDomain))
    BY <2>1, <2>2, <1>4
  <2> QED
    BY <1>1, <2>3, RefuseTyped, ReturnTyped
<1> QED
  BY <1>2, <1>3, <1>5 DEF Handshake

\* A failed call ends the handshake, or the begin/rescue turns to clear; a
\* worker that dies has no handshake.
LEMMA FaultJob ==
    ASSUME TypeOK, NEW w \in Workers, CallFails(w) \/ Dies(w)
    PROVE  /\ JobsOK' /\ OthersStay(w)
           /\ \/ job'[w].pc = "idle" /\ job'[w].answer \in {"none", "refused"}
              \/ /\ job'[w].pc = "del_token" /\ job'[w].answer = "none"
                 /\ job'[w].dom = job[w].dom
                 /\ job[w].pc \in {"issue", "set_crt", "set_key"}
<1>1. JobsOK
  BY DEF TypeOK, JobsOK
<1>2. job[w].key \in Nat /\ job[w].authz \in Nat /\ job[w].cert \in Nat
  BY <1>1 DEF JobsOK, Jobs
<1>3. CASE Refuse(w)
  BY <1>1, <1>3, RefuseTyped
<1>4. CASE job[w].pc \in {"issue", "set_crt", "set_key"} /\ To(w, "del_token")
  BY <1>1, <1>2, <1>4, GoTyped DEF To, Pcs, Steps
<1>5. CASE Turns(w, NoJob)
  BY <1>1, <1>5, ReturnTyped DEF NoJob, Names
<1> QED
  BY <1>3, <1>4, <1>5 DEF CallFails, Dies

\* A handshake that the handler accepts without running the script.
LEMMA UnscriptedJob ==
    ASSUME TypeOK, NEW w \in Workers, HandshakeUnscripted(w)
    PROVE  /\ JobsOK' /\ OthersStay(w)
           /\ job'[w].pc = "idle" /\ job'[w].answer = "default" /\ job'[w].dom = NoDomain
BY ReturnTyped DEF TypeOK, JobsOK, HandshakeUnscripted, Default, Returns, Names

\* The part of the type invariant about everything else.
StoresOK ==
    /\ async \in BOOLEAN
    /\ redis \in [Domains -> [Entries -> Nat]]
    /\ member \in [Workers -> Members]
    /\ authz \in Seq(Authzs)
    /\ certs \in Seq(Domains)
    /\ keys \in Nat /\ faults \in Nat
    /\ overlap \in [Domains -> BOOLEAN] /\ cut \in [Domains -> BOOLEAN]

\* Append adds one element and keeps the others.
LEMMA AppendTyped ==
    ASSUME NEW S, NEW s \in Seq(S), NEW x \in S
    PROVE  /\ Append(s, x) \in Seq(S)
           /\ Len(s) \in Nat /\ Len(Append(s, x)) = Len(s) + 1
           /\ \A i \in 1 .. Len(s) : Append(s, x)[i] = s[i]
           /\ Append(s, x)[Len(s) + 1] = x
OBVIOUS

\* redis.set and redis.del touch one entry of one domain.
LEMMA PutTyped ==
    ASSUME redis \in [Domains -> [Entries -> Nat]], NEW w \in Workers, job[w].dom \in Domains,
           NEW e \in Entries, NEW n \in Nat, Put(w, e, n)
    PROVE  /\ redis' \in [Domains -> [Entries -> Nat]]
           /\ redis'[job[w].dom][e] = n
           /\ \A d \in Domains : \A f \in Entries :
                d # job[w].dom \/ f # e => redis'[d][f] = redis[d][f]
BY DEF Put

\* StoresOK is kept by every step of the script.
LEMMA StepStores ==
    ASSUME TypeOK, NEW w \in Workers, Step(w), job[w].dom \in Domains
    PROVE  StoresOK'
<1>0. /\ StoresOK /\ job[w].key \in Nat /\ job[w].authz \in Nat /\ job[w].cert \in Nat
      /\ \A e \in Entries : Get(w, e) \in Nat
  BY DEF TypeOK, StoresOK, Jobs, Get
<1>1. CASE AskCrt(w)
  BY <1>0, <1>1 DEF AskCrt, Goes, Deploy, StoresOK
<1>2. CASE AskKey(w)
  BY <1>0, <1>2 DEF AskKey, Goes, Deploy, StoresOK
<1>3. CASE LoadCrt(w)
  BY <1>0, <1>3 DEF LoadCrt, StoresOK, Entries, Members
<1>4. CASE LoadKey(w)
  BY <1>0, <1>4 DEF LoadKey, StoresOK, Entries, Members
<1>5. CASE AskToken(w) \/ AskUri(w) \/ Fetch(w)
  BY <1>0, <1>5 DEF AskToken, AskUri, Fetch, StoresOK
<1>6. CASE Account(w) \/ Client(w)
  BY <1>0, <1>6 DEF Account, Client, PrivateKey, StoresOK
<1>7. CASE Register(w)
  BY <1>0, <1>7, PutTyped DEF Register, Registered, StoresOK, Entries
<1>8. CASE Authorize(w)
  <2>1. [dom |-> job[w].dom, key |-> job[w].key, status |-> "pending"] \in Authzs
    BY <1>0 DEF Authzs
  <2>2. Append(authz, [dom |-> job[w].dom, key |-> job[w].key, status |-> "pending"]) \in Seq(Authzs)
    BY <1>0, <2>1, AppendTyped DEF StoresOK
  <2>3. authz' \in Seq(Authzs)
    BY <1>0, <1>8, <2>2, Zenon DEF Authorize, StoresOK
  <2> QED
    BY <1>0, <1>8, <2>3 DEF Authorize, StoresOK
<1>9. CASE SetToken(w) \/ SetUri(w)
  BY <1>0, <1>9, PutTyped DEF SetToken, SetUri, StoresOK, Entries
<1>14. CASE Issue(w)
  <2>1. Append(certs, job[w].dom) \in Seq(Domains)
    BY <1>0, AppendTyped DEF StoresOK
  <2>2. certs' \in Seq(Domains)
    BY <1>0, <1>14, <2>1, Zenon DEF Issue, StoresOK
  <2> QED
    BY <1>0, <1>14, <2>2 DEF Issue, StoresOK
<1>15. CASE SetCrt(w) \/ SetKey(w)
  BY <1>0, <1>15, PutTyped DEF SetCrt, SetKey, RequestKey, StoresOK, Entries
<1>17. CASE Clear(w)
  <2>1. \A i \in 1 .. 3 : ClearOrder[i] \in Entries
    BY DEF ClearOrder, Entries
  <2> QED
    BY <1>0, <1>17, <2>1, PutTyped DEF Clear, StoresOK
<1> QED
  BY <1>1, <1>2, <1>3, <1>4, <1>5, <1>6, <1>7, <1>8, <1>9, <1>14, <1>15, <1>17 DEF Step

\* The type invariant holds when the workers start.
LEMMA TypeInit == Init => TypeOK
<1> SUFFICES ASSUME Init PROVE TypeOK
  OBVIOUS
<1>1. NoJob \in Jobs /\ WellInformed(NoJob)
  BY DEF NoJob, Returned, Jobs, WellInformed, Pcs, Names
<1>2. NoMember \in Members
  BY DEF NoMember, Names, Members
<1> QED
  BY <1>1, <1>2, AutoSslAssumption DEF Init, TypeOK

\* It is kept by every step, given that no certificate id is made up.
LEMMA TypeNext == TypeOK /\ CertsOwn /\ [Next]_vars => TypeOK'
<1> SUFFICES ASSUME TypeOK, CertsOwn, [Next]_vars PROVE TypeOK'
  OBVIOUS
<1>0. StoresOK /\ JobsOK /\ (StoresOK' /\ JobsOK' => TypeOK')
  BY DEF TypeOK, StoresOK, JobsOK
<1>00. NoMember \in Members
  BY DEF NoMember, Names, Members
<1>1. ASSUME NEW w \in Workers, NEW d \in Domains, Handshake(w, d) PROVE TypeOK'
  <2> DEFINE m == SslInit(member[w])
             named == [m EXCEPT !.path = d, !.key_path = IF Style[d] = "half" THEN @ ELSE d]
  <2>1. m \in Members /\ named \in Members
    BY <1>00 DEF SslInit, Members, Names
  <2>2. \/ member' = [member EXCEPT ![w] = m]
        \/ member' = [member EXCEPT ![w] = named]
    BY <1>1 DEF Handshake
  <2> HIDE DEF m, named
  <2>3. member' \in [Workers -> Members]
    BY <1>0, <2>1, <2>2 DEF StoresOK
  <2>4. UNCHANGED <<async, redis, authz, certs, keys, faults, overlap, cut>>
    BY <1>1 DEF Handshake
  <2> QED
    BY <1>0, <1>1, <2>3, <2>4, HandshakeJob DEF StoresOK
<1>2. ASSUME NEW w \in Workers, HandshakeUnscripted(w) PROVE TypeOK'
  BY <1>0, <1>2, UnscriptedJob DEF HandshakeUnscripted, StoresOK
<1>3. ASSUME NEW w \in Workers, Step(w) PROVE TypeOK'
  BY <1>0, <1>3, StepJob, StepStores
<1>4. ASSUME NEW i \in 1 .. Len(authz), Validate(i) PROVE TypeOK'
  <2>1. authz[i] \in Authzs /\ i \in DOMAIN authz
    BY <1>0, <1>4 DEF StoresOK
  <2>2. PICK st \in {"valid", "invalid"} : authz' = [authz EXCEPT ![i].status = st]
    BY <1>4 DEF Validate
  <2>3. [authz[i] EXCEPT !.status = st] \in Authzs
    BY <2>1, <2>2 DEF Authzs
  <2>4. authz' = [authz EXCEPT ![i] = [authz[i] EXCEPT !.status = st]]
    BY <2>2
  <2>5. authz' \in Seq(Authzs)
    BY <1>0, <2>1, <2>3, <2>4 DEF StoresOK
  <2> QED
    BY <1>0, <1>4, <2>5 DEF Validate, StoresOK, JobsOK
<1>5. ASSUME NEW w \in Workers, CallFails(w) \/ Dies(w) PROVE TypeOK'
  <2>1. JobsOK'
    BY <1>5, FaultJob
  <2>2. faults' \in Nat
    BY <1>0, <1>5 DEF CallFails, Dies, StoresOK
  <2>5. cut' \in [Domains -> BOOLEAN]
    BY <1>5, Zenon DEF CallFails, Dies, Cuts
  <2>3. member' \in [Workers -> Members]
    BY <1>0, <1>00, <1>5 DEF CallFails, Dies, StoresOK
  <2>4. UNCHANGED <<async, redis, authz, certs, keys, overlap>>
    BY <1>5 DEF CallFails, Dies
  <2> QED
    BY <1>0, <2>1, <2>2, <2>5, <2>3, <2>4 DEF StoresOK
<1>6. CASE UNCHANGED vars
  BY <1>0, <1>6 DEF vars, StoresOK, JobsOK
<1> QED
  BY <1>1, <1>2, <1>3, <1>4, <1>5, <1>6 DEF Next

-----------------------------------------------------------------------------
\* Where a step of the script leads, and the only steps that lead to the
\* places where something is about to be written or shown.
LEMMA StepPc ==
    ASSUME TypeOK, CertsOwn, NEW w \in Workers, Step(w)
    PROVE  /\ job'[w].pc = "set_crt" =>
                certs' = Append(certs, job[w].dom) /\ job'[w].cert = Len(certs) + 1
           /\ job'[w].pc = "set_key" => SetCrt(w) /\ job'[w].cert = job[w].cert
           /\ job'[w].pc = "load_key" => LoadCrt(w) /\ Get(w, "crt") # 0
           /\ job'[w].pc = "set_uri" => SetToken(w)
           /\ job'[w].pc = "del_uri" => Clear(w) /\ job[w].pc = "del_token"
           /\ job[w].pc = "set_key" => job'[w].pc = "load_crt"
           /\ job[w].pc = "set_token" => job'[w].pc = "set_uri"
           /\ job'[w].pc \in Steps => job[w].pc \in Steps \/ AskCrt(w) \/ AskKey(w)
           /\ job'[w].pc = "idle" =>
                \/ job'[w].answer = "refused"
                \/ job'[w].answer = "pair" /\ job'[w].shown = job'[w].dom
<1>0. JobsOK
  BY DEF TypeOK, JobsOK
<1>a. ASSUME NEW pc, NEW k, NEW a, NEW c, Go(w, pc, k, a, c)
      PROVE  job'[w].pc = pc /\ job'[w].cert = c
  BY <1>0, <1>a DEF JobsOK, Go, Turns, Job
<1>b. ASSUME NEW pc, To(w, pc) PROVE job'[w].pc = pc /\ job'[w].cert = job[w].cert
  BY <1>a, <1>b DEF To
<1>c. ASSUME Load(w) PROVE job'[w].pc = "load_crt"
  BY <1>a, <1>c DEF Load
<1>d. ASSUME Refuse(w) PROVE job'[w].pc = "idle" /\ job'[w].answer = "refused"
  BY <1>0, <1>d, RefuseTyped
<1> USE DEF Steps
<1>1. CASE AskCrt(w)
  BY <1>1, <1>b, <1>c DEF AskCrt, Goes, Deploy
<1>2. CASE AskKey(w)
  BY <1>2, <1>b, <1>c DEF AskKey, Goes, Deploy
<1>3. CASE LoadCrt(w)
  BY <1>3, <1>b, <1>d DEF LoadCrt
<1>4. CASE LoadKey(w)
  BY <1>4, LoadKeyJob DEF LoadKey
<1>5. CASE AskToken(w)
  BY <1>5, <1>b DEF AskToken
<1>6. CASE Account(w)
  BY <1>6, <1>a, <1>d DEF Account, PrivateKey
<1>7. CASE Register(w)
  BY <1>7, <1>b DEF Register
<1>8. CASE Authorize(w)
  BY <1>8, <1>a, <1>d DEF Authorize
<1>9. CASE SetToken(w)
  BY <1>9, <1>b DEF SetToken
<1>10. CASE SetUri(w)
  BY <1>10, <1>b, <1>c DEF SetUri
<1>11. CASE AskUri(w)
  BY <1>11, <1>a, <1>c DEF AskUri
<1>12. CASE Client(w)
  BY <1>12, <1>a, <1>d DEF Client, PrivateKey
<1>13. CASE Fetch(w)
  BY <1>13, <1>b, <1>c DEF Fetch
<1>14. CASE Issue(w)
  BY <1>14, <1>a, <1>b DEF Issue
<1>15. CASE SetCrt(w)
  BY <1>15, <1>b DEF SetCrt
<1>16. CASE SetKey(w)
  BY <1>16, <1>c DEF SetKey
<1>17. CASE Clear(w)
  BY <1>17, <1>b, <1>c DEF Clear, ClearPcs
<1> QED
  BY <1>1, <1>2, <1>3, <1>4, <1>5, <1>6, <1>7, <1>8, <1>9, <1>10, <1>11, <1>12,
     <1>13, <1>14, <1>15, <1>16, <1>17 DEF Step

\* What the steps of the script write to redis: one entry of the own domain,
\* in the five places that write.
LEMMA StepRedis ==
    ASSUME TypeOK, CertsOwn, NEW w \in Workers, Step(w)
    PROVE  /\ \A d \in Domains, e \in Entries :
                d # job[w].dom \/ job[w].pc \notin Steps => redis'[d][e] = redis[d][e]
           /\ job[w].pc # "set_crt" => redis'[job[w].dom]["crt"] = redis[job[w].dom]["crt"]
           /\ job[w].pc # "set_key" => redis'[job[w].dom]["key"] = redis[job[w].dom]["key"]
           /\ job[w].pc \notin {"set_token", "del_token"} =>
                redis'[job[w].dom]["token"] = redis[job[w].dom]["token"]
           /\ job[w].pc \notin {"set_uri", "del_uri"} =>
                redis'[job[w].dom]["uri"] = redis[job[w].dom]["uri"]
           /\ job[w].pc = "set_crt" => redis'[job[w].dom]["crt"] = job[w].cert
           /\ job[w].pc = "set_key" => redis'[job[w].dom]["key"] = job[w].cert
           /\ job[w].pc = "del_token" => redis'[job[w].dom]["token"] = 0
           /\ job[w].pc = "set_uri" => redis'[job[w].dom]["uri"] = job[w].authz
<1>0. job[w].dom \in Domains /\ redis \in [Domains -> [Entries -> Nat]]
  BY StepJob DEF TypeOK
<1>a. job[w].key \in Nat /\ job[w].authz \in Nat /\ job[w].cert \in Nat /\ 0 \in Nat
  BY DEF TypeOK, Jobs
<1>b. ASSUME NEW e \in Entries, NEW n \in Nat, Put(w, e, n)
      PROVE  /\ redis'[job[w].dom][e] = n
             /\ \A d \in Domains : \A f \in Entries :
                  d # job[w].dom \/ f # e => redis'[d][f] = redis[d][f]
  BY <1>0, <1>b, PutTyped
<1> USE DEF Steps, Entries
<1>1. CASE AskCrt(w) \/ AskKey(w) \/ LoadCrt(w) \/ LoadKey(w) \/ AskToken(w) \/ AskUri(w) \/ Fetch(w)
  BY <1>1 DEF AskCrt, AskKey, LoadCrt, LoadKey, AskToken, AskUri, Fetch
<1>2. CASE Account(w) \/ Client(w) \/ Authorize(w) \/ Issue(w)
  BY <1>2 DEF Account, Client, PrivateKey, Authorize, Issue
<1>3. CASE Register(w)
  BY <1>0, <1>a, <1>b, <1>3 DEF Register, Registered
<1>4. CASE SetToken(w)
  BY <1>0, <1>a, <1>b, <1>4 DEF SetToken
<1>5. CASE SetUri(w)
  BY <1>0, <1>a, <1>b, <1>5 DEF SetUri
<1>6. CASE SetCrt(w)
  BY <1>0, <1>a, <1>b, <1>6 DEF SetCrt
<1>7. CASE SetKey(w)
  BY <1>0, <1>a, <1>b, <1>7 DEF SetKey, RequestKey
<1>8. CASE Clear(w)
  <2>1. PICK i \in 1 .. 3 : job[w].pc = ClearPcs[i] /\ Put(w, ClearOrder[i], 0)
    BY <1>8 DEF Clear
  <2>2. \/ job[w].pc = "del_token" /\ Put(w, "token", 0)
        \/ job[w].pc = "del_uri" /\ Put(w, "uri", 0)
        \/ job[w].pc = "del_private_key" /\ Put(w, "private_key", 0)
    BY <2>1 DEF ClearPcs, ClearOrder
  <2> QED
    BY <1>0, <1>a, <1>b, <2>2
<1> QED
  BY <1>1, <1>2, <1>3, <1>4, <1>5, <1>6, <1>7, <1>8 DEF Step

-----------------------------------------------------------------------------
\* A certificate issued later does not take an earlier one away.
LEMMA OwnedStays ==
    ASSUME NEW cs \in Seq(Domains), NEW x \in Domains, NEW i, NEW d, OwnedIn(cs, i, d)
    PROVE  OwnedIn(Append(cs, x), i, d)
<1>1. Len(cs) \in Nat /\ Len(Append(cs, x)) = Len(cs) + 1 /\ Append(cs, x)[i] = cs[i]
  BY AppendTyped DEF OwnedIn
<1> QED
  BY <1>1 DEF OwnedIn

\* A step of the script keeps certificates with their domains: what it
\* stores was issued for the domain, what it loads is the domain's entry.
LEMMA StepOwn ==
    ASSUME OwnInv, NEW w \in Workers, Step(w)
    PROVE  CertsOwn'
<1>0. TypeOK /\ CertsOwn /\ certs \in Seq(Domains)
  BY DEF OwnInv, TypeOK
<1>1. /\ job[w].dom \in Domains /\ OthersStay(w) /\ JobsOK'
      /\ job'[w].pc # "idle" => job'[w].dom = job[w].dom
  BY <1>0, StepJob
<1>2. certs' = certs \/ certs' = Append(certs, job[w].dom)
  BY DEF Step, AskCrt, AskKey, LoadCrt, LoadKey, AskToken, Account, Client, PrivateKey, Register,
         Authorize, SetToken, SetUri, AskUri, Fetch, Issue, SetCrt, SetKey, Clear
<1>3. \A i, d : OwnedIn(certs, i, d) => OwnedIn(certs', i, d)
  BY <1>0, <1>1, <1>2, OwnedStays
<1>4. ASSUME NEW d \in Domains, redis'[d]["crt"] # 0 PROVE OwnedIn(certs', redis'[d]["crt"], d)
  <2>1. CASE redis'[d]["crt"] = redis[d]["crt"]
    BY <1>0, <1>3, <1>4, <2>1 DEF CertsOwn, Owned
  <2>2. CASE redis'[d]["crt"] # redis[d]["crt"]
    <3>1. d = job[w].dom /\ job[w].pc = "set_crt" /\ redis'[d]["crt"] = job[w].cert
      BY <1>0, <2>2, StepRedis DEF Entries
    <3> QED
      BY <1>0, <1>3, <3>1 DEF CertsOwn, Owned
  <2> QED
    BY <2>1, <2>2
<1>5. /\ job'[w].pc = "set_crt" => OwnedIn(certs', job'[w].cert, job'[w].dom)
      /\ job'[w].pc = "set_key" => OwnedIn(certs', job'[w].cert, job'[w].dom)
  <2>1. CASE job'[w].pc = "set_crt"
    <3>1. /\ certs' = Append(certs, job[w].dom) /\ job'[w].cert = Len(certs) + 1
          /\ job'[w].dom = job[w].dom
      BY <1>0, <1>1, <2>1, StepPc
    <3>2. /\ Len(certs) \in Nat /\ Len(Append(certs, job[w].dom)) = Len(certs) + 1
          /\ Append(certs, job[w].dom)[Len(certs) + 1] = job[w].dom
      BY <1>0, <1>1, AppendTyped
    <3> QED
      BY <2>1, <3>1, <3>2 DEF OwnedIn
  <2>2. CASE job'[w].pc = "set_key"
    <3>1. SetCrt(w) /\ job'[w].cert = job[w].cert /\ job'[w].dom = job[w].dom
      BY <1>0, <1>1, <2>2, StepPc
    <3> QED
      BY <1>0, <1>3, <2>2, <3>1 DEF SetCrt, CertsOwn, Owned
  <2> QED
    BY <2>1, <2>2
<1>6. job'[w].pc = "load_key" => OwnedIn(certs', member'[w].data, job'[w].dom)
  <2> SUFFICES ASSUME job'[w].pc = "load_key" PROVE OwnedIn(certs', member'[w].data, job'[w].dom)
    OBVIOUS
  <2>1. LoadCrt(w) /\ Get(w, "crt") # 0 /\ job'[w].dom = job[w].dom
    BY <1>0, <1>1, StepPc
  <2>2. member'[w].data = redis[job[w].dom]["crt"]
    BY <1>0, <2>1 DEF LoadCrt, Get, TypeOK, Members
  <2> QED
    BY <1>0, <1>1, <1>3, <2>1, <2>2 DEF CertsOwn, Owned, Get
<1>7. \A v \in Workers \ {w} : member'[v] = member[v]
  BY <1>0 DEF TypeOK, Step, AskCrt, AskKey, LoadCrt, LoadKey, AskToken, Account, Client, PrivateKey,
         Register, Authorize, SetToken, SetUri, AskUri, Fetch, Issue, SetCrt, SetKey, Clear
<1>8. ASSUME NEW v \in Workers \ {w}
      PROVE  /\ job'[v].pc \in {"set_crt", "set_key"} => OwnedIn(certs', job'[v].cert, job'[v].dom)
             /\ job'[v].pc = "load_key" => OwnedIn(certs', member'[v].data, job'[v].dom)
  BY <1>0, <1>1, <1>3, <1>7, <1>8 DEF CertsOwn, Owned, OthersStay
<1> QED
  BY <1>4, <1>5, <1>6, <1>8 DEF CertsOwn, Owned

\* The invariant of the handshakes is inductive.
LEMMA OwnNext == OwnInv /\ [Next]_vars => OwnInv'
<1> SUFFICES ASSUME OwnInv, [Next]_vars PROVE OwnInv'
  OBVIOUS
<1>0. TypeOK /\ CertsOwn /\ OwnCertificate
  BY DEF OwnInv
<1>1. TypeOK'
  BY <1>0, TypeNext
<1>a. ASSUME NEW w \in Workers, OthersStay(w), UNCHANGED <<redis, certs>>,
             \A v \in Workers \ {w} : member'[v] = member[v],
             job'[w].pc \notin {"set_crt", "set_key", "load_key"}
      PROVE  CertsOwn'
  BY <1>0, <1>a DEF CertsOwn, OthersStay, Owned, OwnedIn
<1>b. ASSUME NEW w \in Workers, OthersStay(w),
             \/ job'[w].answer \in {"none", "refused"}
             \/ job'[w].answer = "pair" /\ job'[w].shown = job'[w].dom
             \/ job'[w].answer = "default" /\ job'[w].dom = NoDomain
             \/ job'[w].answer = "default" /\ Style[job'[w].dom] = "half"
      PROVE  OwnCertificate'
  BY <1>0, <1>b DEF OwnCertificate, OthersStay
<1>2. ASSUME NEW w \in Workers, NEW d \in Domains, Handshake(w, d) PROVE CertsOwn' /\ OwnCertificate'
  <2>1. UNCHANGED <<redis, certs>> /\ \A v \in Workers \ {w} : member'[v] = member[v]
    BY <1>0, <1>2 DEF Handshake, TypeOK
  <2> QED
    BY <1>0, <1>2, <2>1, <1>a, <1>b, HandshakeJob
<1>3. ASSUME NEW w \in Workers, HandshakeUnscripted(w) PROVE CertsOwn' /\ OwnCertificate'
  <2>1. UNCHANGED <<redis, certs, member>>
    BY <1>3 DEF HandshakeUnscripted
  <2> QED
    BY <1>0, <1>3, <2>1, <1>a, <1>b, UnscriptedJob
<1>4. ASSUME NEW w \in Workers, Step(w) PROVE CertsOwn' /\ OwnCertificate'
  <2>1. OthersStay(w) /\ JobsOK'
    BY <1>0, <1>4, StepJob
  <2>2. job'[w].pc # "idle" => job'[w].answer = "none"
    BY <2>1 DEF JobsOK, WellInformed
  <2> QED
    BY <1>0, <1>4, <2>1, <2>2, <1>b, StepOwn, StepPc
<1>5. ASSUME NEW i \in 1 .. Len(authz), Validate(i) PROVE CertsOwn' /\ OwnCertificate'
  BY <1>0, <1>5 DEF Validate, CertsOwn, OwnCertificate, Owned, OwnedIn
<1>6. ASSUME NEW w \in Workers, CallFails(w) \/ Dies(w) PROVE CertsOwn' /\ OwnCertificate'
  <2>1. UNCHANGED <<redis, certs>> /\ \A v \in Workers \ {w} : member'[v] = member[v]
    BY <1>0, <1>6 DEF CallFails, Dies, TypeOK
  <2> QED
    BY <1>0, <1>6, <2>1, <1>a, <1>b, FaultJob
<1>7. CASE UNCHANGED vars
  BY <1>0, <1>1, <1>7 DEF vars, OwnInv, CertsOwn, OwnCertificate, Owned, OwnedIn
<1> QED
  BY <1>1, <1>2, <1>3, <1>4, <1>5, <1>6, <1>7 DEF Next, OwnInv

\* It holds when the workers start: no certificate, no answer.
LEMMA OwnInit == Init => OwnInv
<1> SUFFICES ASSUME Init PROVE OwnInv
  OBVIOUS
<1>1. \A w \in Workers : job[w].pc = "idle" /\ job[w].answer = "none"
  BY DEF Init, NoJob, Returned
<1>2. \A d \in Domains : redis[d]["crt"] = 0
  BY DEF Init, Entries
<1> QED
  BY <1>1, <1>2, TypeInit DEF OwnInv, CertsOwn, OwnCertificate

\* The states of workers, redis and the ACME server are always well formed,
\* for any number of workers, domains and failures.
THEOREM TypeCorrect == Spec => []TypeOK
<1>1. OwnInv => TypeOK
  BY DEF OwnInv
<1> QED
  BY OwnInit, OwnNext, <1>1, PTL DEF Spec

\* ngx_http_mruby_ssl_cert_handler never presents the pair of another name,
\* however handshakes follow each other in a worker, deployments overlap
\* and workers die.
THEOREM HandshakesAreOwn == Spec => []OwnCertificate
<1>1. OwnInv => OwnCertificate
  BY DEF OwnInv
<1> QED
  BY OwnInit, OwnNext, <1>1, PTL DEF Spec

-----------------------------------------------------------------------------
\* What keeps the entries of a domain together while no two deployments of
\* it have overlapped: there is one deployment at most, it began because
\* the key was missing, the certificate next to a key about to be written
\* is the key's, and a token without uri is somebody's or a failure's.
DomainSafe(d) ==
    /\ \A v, w \in Workers : Deploying(v, d) /\ Deploying(w, d) => v = w
    /\ \A w \in Workers :
         Deploying(w, d) =>
             /\ redis[d]["key"] = 0
             /\ job[w].pc = "set_key" => redis[d]["crt"] = job[w].cert
             /\ job[w].pc = "del_uri" => redis[d]["token"] = 0
    /\ redis[d]["key"] \in {0, redis[d]["crt"]}
    /\ redis[d]["token"] # 0 /\ redis[d]["uri"] = 0 =>
         cut[d] \/ \E w \in Workers : Deploying(w, d) /\ job[w].pc = "set_uri"

DomainsSafe == \A d \in Domains : overlap[d] \/ DomainSafe(d)
DeployInv == OwnInv /\ DomainsSafe

\* A step of w that writes nothing, and leads to no place where something
\* is about to be written half, keeps every domain safe.
LEMMA QuietSafe ==
    ASSUME DomainsSafe, NEW w \in Workers, OthersStay(w), UNCHANGED <<redis, overlap>>,
           job'[w].pc \in Steps => job[w].pc \in Steps /\ job'[w].dom = job[w].dom,
           job'[w].pc \notin {"set_key", "del_uri"},
           \A d \in Domains : cut[d] => cut'[d],
           job[w].pc = "set_uri" /\ job[w].dom \in Domains => cut'[job[w].dom]
    PROVE  DomainsSafe'
<1> SUFFICES ASSUME NEW d \in Domains, ~overlap'[d] PROVE DomainSafe(d)'
  BY DEF DomainsSafe
<1>1. DomainSafe(d)
  BY DEF DomainsSafe
<1>2. \A v \in Workers : Deploying(v, d)' => Deploying(v, d)
  BY DEF Deploying, OthersStay
<1>3. \A v, u \in Workers : Deploying(v, d)' /\ Deploying(u, d)' => v = u
  BY <1>1, <1>2 DEF DomainSafe
<1>4. \A v \in Workers : Deploying(v, d)' =>
         /\ redis'[d]["key"] = 0
         /\ job'[v].pc = "set_key" => redis'[d]["crt"] = job'[v].cert
         /\ job'[v].pc = "del_uri" => redis'[d]["token"] = 0
  BY <1>1, <1>2 DEF DomainSafe, OthersStay
<1>5. redis'[d]["token"] # 0 /\ redis'[d]["uri"] = 0 =>
         cut'[d] \/ \E v \in Workers : Deploying(v, d)' /\ job'[v].pc = "set_uri"
  BY <1>1 DEF DomainSafe, OthersStay, Deploying, Steps
<1> QED
  BY <1>1, <1>3, <1>4, <1>5 DEF DomainSafe

\* A step of the script that is not the call of auto_cert_deploy.
LEMMA StepSafe ==
    ASSUME DeployInv, NEW w \in Workers, Step(w), UNCHANGED <<overlap, cut>>,
           job'[w].pc \in Steps => job[w].pc \in Steps
    PROVE  DomainsSafe'
<1> SUFFICES ASSUME NEW d \in Domains, ~overlap'[d] PROVE DomainSafe(d)'
  BY DEF DomainsSafe
<1>0. TypeOK /\ CertsOwn /\ DomainSafe(d)
  BY DEF DeployInv, OwnInv, DomainsSafe
<1>1. /\ job[w].dom \in Domains /\ OthersStay(w)
      /\ job'[w].pc # "idle" => job'[w].dom = job[w].dom
  BY <1>0, StepJob
<1>2. \A v \in Workers : Deploying(v, d)' => Deploying(v, d)
  BY <1>1 DEF Deploying, OthersStay, Steps
<1>3. \A v, u \in Workers : Deploying(v, d)' /\ Deploying(u, d)' => v = u
  BY <1>0, <1>2 DEF DomainSafe
<1>4. CASE ~Deploying(w, d)
  <2>1. \A e \in Entries : redis'[d][e] = redis[d][e]
    BY <1>0, <1>4, StepRedis DEF Deploying
  <2>2. \A v \in Workers : Deploying(v, d) => v # w /\ job'[v] = job[v] /\ Deploying(v, d)'
    BY <1>1, <1>4 DEF OthersStay, Deploying
  <2>3. \A v \in Workers : Deploying(v, d)' =>
         /\ redis'[d]["key"] = 0
         /\ job'[v].pc = "set_key" => redis'[d]["crt"] = job'[v].cert
         /\ job'[v].pc = "del_uri" => redis'[d]["token"] = 0
    BY <1>0, <1>2, <2>1, <2>2 DEF DomainSafe, Entries
  <2>4. redis'[d]["token"] # 0 /\ redis'[d]["uri"] = 0 =>
         cut'[d] \/ \E v \in Workers : Deploying(v, d)' /\ job'[v].pc = "set_uri"
    BY <1>0, <2>1, <2>2 DEF DomainSafe, Entries
  <2>5. redis'[d]["key"] \in {0, redis'[d]["crt"]}
    BY <1>0, <2>1 DEF DomainSafe, Entries
  <2> QED
    BY <1>3, <2>3, <2>4, <2>5 DEF DomainSafe
<1>5. CASE Deploying(w, d)
  <2>1. d = job[w].dom /\ job[w].pc \in Steps /\ redis[d]["key"] = 0
    BY <1>0, <1>5 DEF DomainSafe, Deploying
  <2>2. \A v \in Workers : Deploying(v, d) => v = w
    BY <1>0, <1>5 DEF DomainSafe
  <2>3. job[w].pc = "set_key" => job'[w].pc \notin Steps
    BY <1>0, StepPc DEF Steps
  <2>4. Deploying(w, d)' =>
         /\ redis'[d]["key"] = 0
         /\ job'[w].pc = "set_key" => redis'[d]["crt"] = job'[w].cert
         /\ job'[w].pc = "del_uri" => redis'[d]["token"] = 0
    <3>1. Deploying(w, d)' => redis'[d]["key"] = 0
      BY <1>0, <2>1, <2>3, StepRedis DEF Deploying
    <3>2. job'[w].pc = "set_key" => redis'[d]["crt"] = job'[w].cert
      BY <1>0, <2>1, StepPc, StepRedis DEF SetCrt
    <3>3. job'[w].pc = "del_uri" => redis'[d]["token"] = 0
      BY <1>0, <2>1, StepPc, StepRedis
    <3> QED
      BY <3>1, <3>2, <3>3
  <2>5. redis'[d]["key"] \in {0, redis'[d]["crt"]}
    BY <1>0, <1>5, <2>1, StepRedis DEF DomainSafe
  <2>6. redis'[d]["token"] # 0 /\ redis'[d]["uri"] = 0 =>
         cut'[d] \/ (Deploying(w, d)' /\ job'[w].pc = "set_uri")
    <3>1. CASE job[w].pc = "set_token"
      BY <1>0, <1>1, <2>1, <3>1, StepPc DEF Deploying, Steps
    <3>2. CASE job[w].pc = "set_uri"
      <4>1. redis'[d]["uri"] = job[w].authz
        BY <1>0, <2>1, <3>2, StepRedis
      <4>2. job[w].authz # 0
        BY <1>0, <3>2 DEF TypeOK, WellInformed
      <4> QED
        BY <4>1, <4>2
    <3>3. CASE job[w].pc \in {"del_token", "del_uri"}
      BY <1>0, <1>5, <2>1, <3>3, StepRedis DEF DomainSafe
    <3>4. CASE job[w].pc \notin {"set_token", "set_uri", "del_token", "del_uri"}
      <4>1. redis'[d]["token"] = redis[d]["token"] /\ redis'[d]["uri"] = redis[d]["uri"]
        BY <1>0, <2>1, <3>4, StepRedis
      <4>2. redis[d]["token"] # 0 /\ redis[d]["uri"] = 0 => cut[d]
        BY <1>0, <2>2, <3>4 DEF DomainSafe
      <4> QED
        BY <4>1, <4>2
    <3> QED
      BY <3>1, <3>2, <3>3, <3>4
  <2> QED
    BY <1>2, <1>3, <2>2, <2>4, <2>5, <2>6 DEF DomainSafe
<1> QED
  BY <1>4, <1>5

\* The call of auto_cert_deploy: the key is missing, and either nobody else
\* deploys the domain or the overlap is noted.
LEMMA DeploySafe ==
    ASSUME DeployInv, NEW w \in Workers, AskCrt(w) \/ AskKey(w), job'[w].pc \in Steps
    PROVE  DomainsSafe'
<1> SUFFICES ASSUME NEW d \in Domains, ~overlap'[d] PROVE DomainSafe(d)'
  BY DEF DomainsSafe
<1>0. TypeOK /\ CertsOwn /\ Step(w) /\ overlap \in [Domains -> BOOLEAN]
  BY DEF DeployInv, OwnInv, Step, TypeOK
<1>1. /\ job[w].dom \in Domains /\ OthersStay(w) /\ job'[w].dom = job[w].dom
      /\ UNCHANGED <<redis, cut>> /\ job[w].pc \notin Steps
  BY <1>0, StepJob DEF AskCrt, AskKey, Steps
<1>2. Deploy(w) /\ job'[w].pc = "token?"
  <2>1. \A pc : To(w, pc) => job'[w].pc = pc
    BY <1>0 DEF TypeOK, To, Go, Turns, Job
  <2>2. Load(w) => job'[w].pc = "load_crt"
    BY <1>0 DEF TypeOK, Load, Go, Turns, Job
  <2> QED
    BY <2>1, <2>2 DEF AskCrt, AskKey, Goes, Deploy, Steps
<1>3. overlap' = [overlap EXCEPT ![job[w].dom] =
                    @ \/ \E v \in Workers : Deploying(v, job[w].dom)]
  BY <1>2 DEF Deploy
<1>4. ~overlap[d] /\ (d = job[w].dom => \A v \in Workers : ~Deploying(v, d))
  BY <1>0, <1>1, <1>3
<1>5. DomainSafe(d)
  BY <1>4 DEF DeployInv, DomainsSafe
<1>6. \A v \in Workers : Deploying(v, d)' => Deploying(v, d) \/ (v = w /\ d = job[w].dom)
  BY <1>1 DEF Deploying, OthersStay
<1>7. d = job[w].dom => redis[d]["key"] = 0
  <2>1. redis[job[w].dom]["crt"] = 0 \/ redis[job[w].dom]["key"] = 0
    <3>1. \A pc : To(w, pc) => job'[w].pc = pc
      BY <1>0 DEF TypeOK, To, Go, Turns, Job
    <3>2. Load(w) => job'[w].pc = "load_crt"
      BY <1>0 DEF TypeOK, Load, Go, Turns, Job
    <3> QED
      BY <3>1, <3>2, <1>2 DEF AskCrt, AskKey, Goes, AfterCrt, AfterKey, Get
  <2> QED
    BY <1>5, <2>1 DEF DomainSafe
<1>8. \A v, u \in Workers : Deploying(v, d)' /\ Deploying(u, d)' => v = u
  BY <1>4, <1>5, <1>6 DEF DomainSafe
<1>9. \A v \in Workers : Deploying(v, d)' =>
         /\ redis'[d]["key"] = 0
         /\ job'[v].pc = "set_key" => redis'[d]["crt"] = job'[v].cert
         /\ job'[v].pc = "del_uri" => redis'[d]["token"] = 0
  BY <1>1, <1>2, <1>4, <1>5, <1>6, <1>7 DEF DomainSafe, OthersStay
<1>10. redis'[d]["token"] # 0 /\ redis'[d]["uri"] = 0 =>
         cut'[d] \/ \E v \in Workers : Deploying(v, d)' /\ job'[v].pc = "set_uri"
  BY <1>1, <1>5 DEF DomainSafe, OthersStay, Deploying
<1> QED
  BY <1>1, <1>5, <1>8, <1>9, <1>10 DEF DomainSafe

\* The invariant of the deployments is inductive.
LEMMA DeployNext == DeployInv /\ [Next]_vars => DeployInv'
<1> SUFFICES ASSUME DeployInv, [Next]_vars PROVE DeployInv'
  OBVIOUS
<1>0. OwnInv /\ TypeOK /\ CertsOwn /\ DomainsSafe
  BY DEF DeployInv, OwnInv
<1>1. OwnInv'
  BY <1>0, OwnNext
<1>2. ASSUME NEW w \in Workers, NEW d \in Domains, Handshake(w, d) PROVE DomainsSafe'
  <2>1. UNCHANGED <<redis, overlap, cut>> /\ job[w].pc = "idle"
    BY <1>2 DEF Handshake
  <2>2. OthersStay(w) /\ job'[w].pc \notin Steps /\ job'[w].pc \notin {"set_key", "del_uri"}
    BY <1>0, <1>2, HandshakeJob DEF Steps
  <2> QED
    BY <1>0, <2>1, <2>2, QuietSafe
<1>3. ASSUME NEW w \in Workers, HandshakeUnscripted(w) PROVE DomainsSafe'
  <2>1. UNCHANGED <<redis, overlap, cut>> /\ job[w].pc = "idle"
    BY <1>3 DEF HandshakeUnscripted
  <2>2. OthersStay(w) /\ job'[w].pc \notin Steps /\ job'[w].pc \notin {"set_key", "del_uri"}
    BY <1>0, <1>3, UnscriptedJob DEF Steps
  <2> QED
    BY <1>0, <2>1, <2>2, QuietSafe
<1>4. ASSUME NEW w \in Workers, Step(w) PROVE DomainsSafe'
  <2>1. CASE (AskCrt(w) \/ AskKey(w)) /\ job'[w].pc \in Steps
    BY <2>1, DeploySafe
  <2>2. CASE ~((AskCrt(w) \/ AskKey(w)) /\ job'[w].pc \in Steps)
    <3>1. job'[w].pc \in Steps => job[w].pc \in Steps
      BY <1>0, <1>4, <2>2, StepPc
    <3>2. UNCHANGED cut
      BY <1>4 DEF Step, AskCrt, AskKey, LoadCrt, LoadKey, AskToken, Account, Client, PrivateKey,
         Register, Authorize, SetToken, SetUri, AskUri, Fetch, Issue, SetCrt, SetKey, Clear
    <3>3. UNCHANGED overlap
      <4>1. Deploy(w) => job'[w].pc = "token?"
        BY <1>0 DEF TypeOK, Deploy, To, Go, Turns, Job
      <4> QED
        BY <1>4, <2>2, <4>1 DEF Steps, Goes, Step, AskCrt, AskKey, LoadCrt, LoadKey, AskToken, Account,
           Client, PrivateKey, Register, Authorize, SetToken, SetUri, AskUri, Fetch, Issue, SetCrt,
           SetKey, Clear
    <3> QED
      BY <1>4, <3>1, <3>2, <3>3, StepSafe
  <2> QED
    BY <2>1, <2>2
<1>5. ASSUME NEW i \in 1 .. Len(authz), Validate(i) PROVE DomainsSafe'
  BY <1>0, <1>5 DEF Validate, DomainsSafe, DomainSafe, Deploying
<1>6. ASSUME NEW w \in Workers, CallFails(w) \/ Dies(w) PROVE DomainsSafe'
  <2>1. UNCHANGED <<redis, overlap>> /\ Cuts(w)
    BY <1>6 DEF CallFails, Dies
  <2>2. /\ \A d \in Domains : cut[d] => cut'[d]
        /\ job[w].pc = "set_uri" /\ job[w].dom \in Domains => cut'[job[w].dom]
    BY <2>1 DEF Cuts
  <2>3. /\ OthersStay(w) /\ job'[w].pc \notin {"set_key", "del_uri"}
        /\ job'[w].pc \in Steps => job[w].pc \in Steps /\ job'[w].dom = job[w].dom
    BY <1>0, <1>6, FaultJob DEF Steps
  <2> QED
    BY <1>0, <2>1, <2>2, <2>3, QuietSafe
<1>7. CASE UNCHANGED vars
  BY <1>0, <1>1, <1>7 DEF vars, DeployInv, DomainsSafe, DomainSafe, Deploying
<1> QED
  BY <1>1, <1>2, <1>3, <1>4, <1>5, <1>6, <1>7 DEF Next, DeployInv

\* It holds when the workers start: redis is empty.
LEMMA DeployInit == Init => DeployInv
<1> SUFFICES ASSUME Init PROVE DeployInv
  OBVIOUS
<1>1. \A w \in Workers : job[w].pc = "idle"
  BY DEF Init, NoJob, Returned
<1>2. \A d \in Domains : redis[d]["key"] = 0 /\ redis[d]["token"] = 0
  BY DEF Init, Entries
<1> QED
  BY <1>1, <1>2, OwnInit DEF DeployInv, DomainsSafe, DomainSafe, Deploying, Steps

\* auto_cert_deploy never leaves a certificate with another one's key, at
\* whatever call it fails or its worker dies, if deployments of a domain do
\* not overlap.
THEOREM PairsMatch == Spec => []StoredPairMatches
<1>1. DeployInv => StoredPairMatches
  BY DEF DeployInv, DomainsSafe, DomainSafe, StoredPairMatches
<1> QED
  BY DeployInit, DeployNext, <1>1, PTL DEF Spec

\* The one failure that leaves a domain with a token and no authorization
\* uri is the one between the two writes of auto_cert_deploy.
THEOREM StrandedByCut == Spec => []NotStranded
<1>1. DeployInv => NotStranded
  BY DEF DeployInv, DomainsSafe, DomainSafe, NotStranded
<1> QED
  BY DeployInit, DeployNext, <1>1, PTL DEF Spec

\* A domain that has both halves is not certified again: the handshake
\* script calls auto_cert_deploy only for a missing half.
THEOREM NeverAgain == Spec => DeployedOnce
<1> DEFINE Kept == \A d \in Domains :
             Deployed(d) /\ ~overlap'[d] =>
                 redis'[d]["crt"] = redis[d]["crt"] /\ redis'[d]["key"] = redis[d]["key"]
<1>1. DeployInv /\ [Next]_vars => [Kept]_vars
  <2> SUFFICES ASSUME DeployInv, Next PROVE Kept
    OBVIOUS
  <2>0. TypeOK /\ CertsOwn /\ DomainsSafe /\ overlap \in [Domains -> BOOLEAN]
    BY DEF DeployInv, OwnInv, TypeOK
  <2>1. ASSUME NEW w \in Workers, Step(w) PROVE Kept
    <3> SUFFICES ASSUME NEW d \in Domains, Deployed(d), ~overlap'[d]
                 PROVE redis'[d]["crt"] = redis[d]["crt"] /\ redis'[d]["key"] = redis[d]["key"]
      OBVIOUS
    <3>1. \/ UNCHANGED overlap
          \/ overlap' = [overlap EXCEPT ![job[w].dom] =
                            @ \/ \E v \in Workers : Deploying(v, job[w].dom)]
      BY <2>1 DEF Deploy, Goes, Step, AskCrt, AskKey, LoadCrt, LoadKey, AskToken, Account,
         Client, PrivateKey, Register, Authorize, SetToken, SetUri, AskUri, Fetch, Issue, SetCrt,
         SetKey, Clear
    <3>2. ~overlap[d]
      BY <2>0, <3>1
    <3>3. ~Deploying(w, d)
      BY <2>0, <3>2 DEF DomainsSafe, DomainSafe, Deployed
    <3> QED
      BY <2>0, <2>1, <3>3, StepRedis DEF Deploying, Entries
  <2>2. ASSUME UNCHANGED redis PROVE Kept
    BY <2>2
  <2>3. Next => UNCHANGED redis \/ \E w \in Workers : Step(w)
    BY DEF Next, Handshake, HandshakeUnscripted, Validate, CallFails, Dies
  <2> QED
    BY <2>1, <2>2, <2>3
<1> QED
  BY DeployInit, DeployNext, <1>1, PTL DEF Spec, DeployedOnce

-----------------------------------------------------------------------------
\* Authorization i of the ACME server is the one of domain d and account key k.
HeldIn(az, i, d, k) == i \in 1 .. Len(az) /\ az[i].dom = d /\ az[i].key = k

\* The authorization that redis names belongs to the account it names.
UriHolds(d) ==
    redis[d]["uri"] # 0 =>
        /\ redis[d]["private_key"] # 0
        /\ HeldIn(authz, redis[d]["uri"], d, redis[d]["private_key"])

\* What the client of worker w, which deploys d, has in hand at each of its
\* steps: no key, or the one of the account in redis; and an authorization
\* that this account holds.
ClientHolds(w, d) ==
    LET stored == redis[d]["private_key"]
        j == job[w]
    IN  /\ j.pc \in {"token?", "account"} => j.key = 0
        /\ j.pc = "register" => stored \in {0, j.key}
        /\ j.pc \in {"authorize", "set_token", "set_uri", "fetch"} => j.key = stored
        /\ j.pc \in {"uri?", "client"} => j.key \in {0, stored}
        /\ j.pc \in {"authorize", "set_token", "set_uri", "client", "fetch"} => stored # 0
        /\ j.pc \in {"set_token", "set_uri", "client", "fetch"} => HeldIn(authz, j.authz, d, stored)
        /\ j.pc = "issue" => HeldIn(authz, j.authz, d, j.key) /\ authz[j.authz].status = "valid"
        /\ j.pc = "del_private_key" => redis[d]["uri"] = 0

\* A client object is made without a key.
NoKeyYet == \A w \in Workers : job[w].pc \in {"crt?", "key?"} => job[w].key = 0

AccountSafe(d) == UriHolds(d) /\ \A w \in Workers : Deploying(w, d) => ClientHolds(w, d)
AccountsSafe == \A d \in Domains : overlap[d] \/ AccountSafe(d)

\* The inductive invariant of the accounts.
AccountInv == DeployInv /\ NoKeyYet /\ AccountsSafe

\* Nothing takes an authorization from its domain and account, and a valid
\* one stays valid.
AuthzKept ==
    /\ \A i, d, k : HeldIn(authz, i, d, k) => HeldIn(authz', i, d, k)
    /\ \A i \in 1 .. Len(authz) : authz[i].status = "valid" => authz'[i].status = "valid"

\* It is so when an authorization is added,
LEMMA AppendKeeps ==
    ASSUME authz \in Seq(Authzs), NEW x \in Authzs, authz' = Append(authz, x)
    PROVE  AuthzKept /\ HeldIn(authz', Len(authz) + 1, x.dom, x.key)
<1>1. /\ Len(authz) \in Nat /\ Len(authz') = Len(authz) + 1
      /\ \A i \in 1 .. Len(authz) : authz'[i] = authz[i]
      /\ authz'[Len(authz) + 1] = x
  BY AppendTyped
<1> QED
  BY <1>1 DEF AuthzKept, HeldIn

\* and when the ACME server decides about a pending one.
LEMMA ValidateKeeps ==
    ASSUME authz \in Seq(Authzs), NEW i \in 1 .. Len(authz), Validate(i)
    PROVE  AuthzKept
<1>1. i \in DOMAIN authz /\ DOMAIN authz = 1 .. Len(authz) /\ Len(authz) \in Nat
  OBVIOUS
<1>2. \A j \in 1 .. Len(authz) : authz[j] \in Authzs
  BY <1>1
<1>3. PICK st : authz' = [authz EXCEPT ![i].status = st]
  BY DEF Validate
<1>4. authz[i].status = "pending"
  BY DEF Validate
<1>5. /\ \A j \in 1 .. Len(authz) : j # i => authz'[j] = authz[j]
      /\ authz'[i].dom = authz[i].dom /\ authz'[i].key = authz[i].key
      /\ DOMAIN authz' = DOMAIN authz
  BY <1>1, <1>2, <1>3 DEF Authzs
<1>6. Len(authz') = Len(authz)
  BY <1>1, <1>5
<1> QED
  BY <1>4, <1>5, <1>6 DEF AuthzKept, HeldIn

\* What a step that goes on leaves of the handshake.
LEMMA GoFields ==
    ASSUME TypeOK, NEW w \in Workers, NEW pc, NEW k, NEW a, NEW c, Go(w, pc, k, a, c)
    PROVE  job'[w].pc = pc /\ job'[w].key = k /\ job'[w].authz = a
BY DEF TypeOK, Go, Turns, Job

\* The steps of the client of w, from the call of auto_cert_deploy on.
LEMMA ClientStep ==
    ASSUME TypeOK, CertsOwn, NEW w \in Workers, Step(w), NEW d, d = job[w].dom,
           UriHolds(d), job[w].pc \in Steps => ClientHolds(w, d),
           job[w].pc \in {"crt?", "key?"} => job[w].key = 0
    PROVE  /\ AuthzKept /\ UriHolds(d)'
           /\ job'[w].pc \in Steps => ClientHolds(w, d)'
           /\ job'[w].pc \in {"crt?", "key?"} => job'[w].key = 0
<1> DEFINE Fresh == job'[w].pc \in {"crt?", "key?"} => job'[w].key = 0
           Client2 == job'[w].pc \in Steps => ClientHolds(w, d)'
           stored == redis[d]["private_key"]
<1>0. /\ d \in Domains /\ redis \in [Domains -> [Entries -> Nat]] /\ JobsOK
      /\ job[w].key \in Nat /\ job[w].authz \in Nat /\ job[w].cert \in Nat
      /\ authz \in Seq(Authzs) /\ WellInformed(job[w]) /\ keys \in Nat
  BY StepJob DEF TypeOK, JobsOK, Jobs
<1>a. ASSUME NEW pc, NEW k, NEW a, NEW c, Go(w, pc, k, a, c)
      PROVE  job'[w].pc = pc /\ job'[w].key = k /\ job'[w].authz = a
  BY <1>a, GoFields
<1>b. ASSUME NEW pc, To(w, pc)
      PROVE  job'[w].pc = pc /\ job'[w].key = job[w].key /\ job'[w].authz = job[w].authz
  BY <1>a, <1>b DEF To
<1>c. ASSUME Load(w) PROVE job'[w].pc = "load_crt"
  BY <1>a, <1>c DEF Load
<1>d. ASSUME Refuse(w) PROVE job'[w].pc = "idle"
  BY <1>0, <1>d, RefuseTyped
<1>e. ASSUME UNCHANGED authz PROVE AuthzKept
  BY <1>e DEF AuthzKept
<1>f. ASSUME UNCHANGED <<redis, authz>> PROVE UriHolds(d)'
  BY <1>f DEF UriHolds
<1>g. ASSUME NEW e \in Entries, NEW n \in Nat, Put(w, e, n)
      PROVE  redis'[d][e] = n /\ \A f \in Entries : f # e => redis'[d][f] = redis[d][f]
  BY <1>0, <1>g, PutTyped
<1>h. \A v \in {"load_crt", "load_key", "idle", "crt?", "key?"} : v \notin Steps
  BY DEF Steps
<1>1. CASE AskCrt(w) \/ AskKey(w)
  <2>1. /\ UNCHANGED <<redis, authz>> /\ job[w].key = 0
        /\ To(w, "token?") \/ To(w, "key?") \/ Load(w)
    BY <1>1 DEF AskCrt, AskKey, Goes, Deploy
  <2>2. \/ job'[w].pc \in {"token?", "key?"} /\ job'[w].key = 0
        \/ job'[w].pc = "load_crt"
    BY <2>1, <1>b, <1>c
  <2> QED
    BY <2>1, <2>2, <1>e, <1>f, <1>h DEF ClientHolds
<1>2. CASE LoadCrt(w) \/ LoadKey(w)
  <2>1. UNCHANGED <<redis, authz>>
    BY <1>2 DEF LoadCrt, LoadKey
  <2>2. job'[w].pc \in {"idle", "load_key"}
    <3>1. CASE LoadCrt(w)
      BY <3>1, <1>b, <1>d DEF LoadCrt
    <3>2. CASE LoadKey(w)
      BY <3>2, LoadKeyJob
    <3> QED
      BY <1>2, <3>1, <3>2
  <2> QED
    BY <2>1, <2>2, <1>e, <1>f, <1>h
<1>3. CASE AskToken(w)
  <2>1. UNCHANGED <<redis, authz>> /\ job[w].pc = "token?" /\ (To(w, "account") \/ To(w, "uri?"))
    BY <1>3 DEF AskToken
  <2>2. job[w].key = 0
    BY <2>1 DEF ClientHolds, Steps
  <2>3. job'[w].pc \in {"account", "uri?"} /\ job'[w].key = 0
    BY <2>1, <2>2, <1>b
  <2> QED
    BY <2>1, <2>3, <1>e, <1>f DEF ClientHolds
<1>4. CASE Account(w)
  <2>1. UNCHANGED <<redis, authz>> /\ job[w].pc = "account"
    BY <1>4 DEF Account, PrivateKey
  <2>2. job[w].key = 0
    BY <2>1 DEF ClientHolds, Steps
  <2>3. \/ job'[w].pc = "idle"
        \/ job'[w].pc = "register" /\ stored \in {0, job'[w].key}
    BY <1>4, <2>2, <1>a, <1>d DEF Account, PrivateKey, Get
  <2> QED
    BY <2>1, <2>3, <1>e, <1>f, <1>h DEF ClientHolds
<1>5. CASE Register(w)
  <2>1. /\ UNCHANGED authz /\ job[w].pc = "register" /\ To(w, "authorize")
        /\ Put(w, "private_key", job[w].key)
    BY <1>5 DEF Register, Registered
  <2>2. stored \in {0, job[w].key} /\ job[w].key # 0
    BY <1>0, <2>1 DEF ClientHolds, Steps, WellInformed
  <2>3. redis'[d]["private_key"] = job[w].key /\ redis'[d]["uri"] = redis[d]["uri"]
    BY <1>0, <1>g, <2>1 DEF Entries
  <2>4. UriHolds(d)'
    BY <2>1, <2>2, <2>3 DEF UriHolds
  <2>5. job'[w].pc = "authorize" /\ job'[w].key = job[w].key
    BY <2>1, <1>b
  <2> QED
    BY <2>1, <2>2, <2>3, <2>4, <2>5, <1>e DEF ClientHolds
<1>6. CASE Authorize(w)
  <2>1. job[w].pc = "authorize" /\ UNCHANGED redis
    BY <1>6 DEF Authorize
  <2>2. job[w].key = stored /\ stored # 0
    BY <2>1 DEF ClientHolds, Steps
  <2> DEFINE x == [dom |-> job[w].dom, key |-> job[w].key, status |-> "pending"]
  <2>3. CASE /\ authz' = Append(authz, x)
             /\ Go(w, "set_token", job[w].key, Len(authz) + 1, 0)
    <3>1. x \in Authzs /\ x.dom = d /\ x.key = stored
      BY <1>0, <2>2 DEF Authzs
    <3> HIDE DEF x
    <3>2. AuthzKept /\ HeldIn(authz', Len(authz) + 1, d, stored)
      BY <1>0, <2>3, <3>1, AppendKeeps
    <3>3. UriHolds(d)'
      BY <2>1, <3>2 DEF UriHolds, AuthzKept
    <3>4. job'[w].pc = "set_token" /\ job'[w].key = stored /\ job'[w].authz = Len(authz) + 1
      BY <2>2, <2>3, <1>a
    <3> QED
      BY <2>1, <2>2, <3>2, <3>3, <3>4 DEF ClientHolds
  <2>4. CASE Refuse(w) /\ UNCHANGED authz
    BY <2>1, <2>4, <1>d, <1>e, <1>f, <1>h
  <2> QED
    BY <1>6, <2>3, <2>4 DEF Authorize
<1>7. CASE SetToken(w)
  <2>1. /\ UNCHANGED authz /\ job[w].pc = "set_token" /\ To(w, "set_uri")
        /\ Put(w, "token", job[w].authz)
    BY <1>7 DEF SetToken
  <2>2. job[w].key = stored /\ HeldIn(authz, job[w].authz, d, stored) /\ stored # 0
    BY <2>1 DEF ClientHolds, Steps
  <2>3. redis'[d]["private_key"] = stored /\ redis'[d]["uri"] = redis[d]["uri"]
    BY <1>0, <1>g, <2>1 DEF Entries
  <2>4. UriHolds(d)'
    BY <2>1, <2>3 DEF UriHolds
  <2>5. job'[w].pc = "set_uri" /\ job'[w].key = job[w].key /\ job'[w].authz = job[w].authz
    BY <2>1, <1>b
  <2> QED
    BY <2>1, <2>2, <2>3, <2>4, <2>5, <1>e DEF ClientHolds
<1>8. CASE SetUri(w)
  <2>1. /\ UNCHANGED authz /\ job[w].pc = "set_uri" /\ (Load(w) \/ To(w, "uri?"))
        /\ Put(w, "uri", job[w].authz)
    BY <1>8 DEF SetUri
  <2>2. job[w].key = stored /\ HeldIn(authz, job[w].authz, d, stored) /\ stored # 0
    BY <2>1 DEF ClientHolds, Steps
  <2>3. redis'[d]["private_key"] = stored /\ redis'[d]["uri"] = job[w].authz
    BY <1>0, <1>g, <2>1 DEF Entries
  <2>4. UriHolds(d)'
    BY <2>1, <2>2, <2>3 DEF UriHolds
  <2>5. \/ job'[w].pc = "load_crt"
        \/ job'[w].pc = "uri?" /\ job'[w].key = job[w].key
    <3>1. CASE Load(w)
      BY <3>1, <1>c
    <3>2. CASE To(w, "uri?")
      BY <3>2, <1>b
    <3> QED
      BY <2>1, <3>1, <3>2
  <2> QED
    BY <2>1, <2>2, <2>3, <2>4, <2>5, <1>e, <1>h DEF ClientHolds
<1>9. CASE AskUri(w)
  <2>1. UNCHANGED <<redis, authz>> /\ job[w].pc = "uri?"
    BY <1>9 DEF AskUri
  <2>2. job[w].key \in {0, stored}
    BY <2>1 DEF ClientHolds, Steps
  <2>3. \/ job'[w].pc = "load_crt"
        \/ /\ redis[d]["uri"] # 0 /\ job'[w].pc = "client" /\ job'[w].key = job[w].key
           /\ job'[w].authz = redis[d]["uri"]
    BY <1>9, <1>a, <1>c DEF AskUri, AfterUri, Get
  <2> QED
    BY <2>1, <2>2, <2>3, <1>e, <1>f, <1>h DEF ClientHolds, UriHolds
<1>10. CASE Client(w)
  <2>1. UNCHANGED <<redis, authz>> /\ job[w].pc = "client"
    BY <1>10 DEF Client, PrivateKey
  <2>2. job[w].key \in {0, stored} /\ stored # 0 /\ HeldIn(authz, job[w].authz, d, stored)
    BY <2>1 DEF ClientHolds, Steps
  <2>3. job'[w].pc = "fetch" /\ job'[w].key = stored /\ job'[w].authz = job[w].authz
    BY <1>10, <2>2, <1>a DEF Client, PrivateKey, Get
  <2> QED
    BY <2>1, <2>2, <2>3, <1>e, <1>f DEF ClientHolds
<1>11. CASE Fetch(w)
  <2>1. UNCHANGED <<redis, authz>> /\ job[w].pc = "fetch"
    BY <1>11 DEF Fetch
  <2>2. job[w].key = stored /\ HeldIn(authz, job[w].authz, d, stored) /\ stored # 0
    BY <2>1 DEF ClientHolds, Steps
  <2>3. \/ job'[w].pc = "load_crt"
        \/ /\ authz[job[w].authz].status = "valid" /\ job'[w].pc = "issue"
           /\ job'[w].key = job[w].key /\ job'[w].authz = job[w].authz
    BY <1>11, <1>b, <1>c DEF Fetch
  <2> QED
    BY <2>1, <2>2, <2>3, <1>e, <1>f, <1>h DEF ClientHolds
<1>12. CASE Issue(w)
  <2>1. UNCHANGED <<redis, authz>> /\ job'[w].pc \in {"set_crt", "del_token"}
    BY <1>12, <1>a, <1>b DEF Issue
  <2> QED
    BY <2>1, <1>e, <1>f DEF ClientHolds
<1>13. CASE SetCrt(w) \/ SetKey(w)
  <2>1. /\ UNCHANGED authz
        /\ Put(w, "crt", job[w].cert) \/ Put(w, "key", job[w].cert)
        /\ To(w, "set_key") \/ Load(w)
    BY <1>13 DEF SetCrt, SetKey, RequestKey
  <2>2. redis'[d]["private_key"] = stored /\ redis'[d]["uri"] = redis[d]["uri"]
    BY <1>0, <1>g, <2>1 DEF Entries
  <2>3. UriHolds(d)'
    BY <2>1, <2>2 DEF UriHolds
  <2>4. job'[w].pc \in {"set_key", "load_crt"}
    BY <2>1, <1>b, <1>c
  <2> QED
    BY <2>1, <2>3, <2>4, <1>e DEF ClientHolds
<1>14. CASE Clear(w)
  <2>1. PICK i \in 1 .. 3 : /\ job[w].pc = ClearPcs[i] /\ Put(w, ClearOrder[i], 0)
                            /\ IF i < 3 THEN To(w, ClearPcs[i + 1]) ELSE Load(w)
                            /\ UNCHANGED authz
    BY <1>14 DEF Clear
  <2>2. CASE i = 1
    <3>1. Put(w, "token", 0) /\ To(w, "del_uri")
      BY <2>1, <2>2 DEF ClearPcs, ClearOrder
    <3>2. redis'[d]["private_key"] = stored /\ redis'[d]["uri"] = redis[d]["uri"]
      BY <1>0, <1>g, <3>1 DEF Entries
    <3>3. UriHolds(d)'
      BY <2>1, <3>2 DEF UriHolds
    <3> QED
      BY <2>1, <3>1, <3>3, <1>b, <1>e DEF ClientHolds
  <2>3. CASE i = 2
    <3>1. Put(w, "uri", 0) /\ To(w, "del_private_key")
      BY <2>1, <2>3 DEF ClearPcs, ClearOrder
    <3>2. redis'[d]["uri"] = 0
      BY <1>0, <1>g, <3>1 DEF Entries
    <3>3. UriHolds(d)'
      BY <3>2 DEF UriHolds
    <3> QED
      BY <2>1, <3>1, <3>2, <3>3, <1>b, <1>e DEF ClientHolds
  <2>4. CASE i = 3
    <3>1. job[w].pc = "del_private_key" /\ Put(w, "private_key", 0) /\ Load(w)
      BY <2>1, <2>4 DEF ClearPcs, ClearOrder
    <3>2. redis'[d]["uri"] = 0
      BY <1>0, <1>g, <3>1 DEF Entries, ClientHolds, Steps
    <3>3. UriHolds(d)'
      BY <3>2 DEF UriHolds
    <3> QED
      BY <2>1, <3>1, <3>3, <1>c, <1>e, <1>h
  <2> QED
    BY <2>2, <2>3, <2>4
<1> QED
  BY <1>1, <1>2, <1>3, <1>4, <1>5, <1>6, <1>7, <1>8, <1>9, <1>10, <1>11, <1>12,
     <1>13, <1>14 DEF Step

\* The entries of a domain that its deployment, and nobody else, works on.
LEMMA AccountStep ==
    ASSUME AccountInv, DeployInv', NEW w \in Workers, Step(w)
    PROVE  NoKeyYet' /\ AccountsSafe'
<1>0. TypeOK /\ CertsOwn /\ DomainsSafe /\ DomainsSafe' /\ NoKeyYet /\ AccountsSafe
  BY DEF AccountInv, DeployInv, OwnInv
<1>1. /\ job[w].dom \in Domains /\ OthersStay(w)
      /\ job'[w].pc # "idle" => job'[w].dom = job[w].dom
  BY <1>0, StepJob
<1>2. \A d \in Domains : overlap[d] => overlap'[d]
  <2>1. \/ UNCHANGED overlap
        \/ overlap' = [overlap EXCEPT ![job[w].dom] =
                          @ \/ \E v \in Workers : Deploying(v, job[w].dom)]
    BY DEF Deploy, Goes, Step, AskCrt, AskKey, LoadCrt, LoadKey, AskToken, Account,
       Client, PrivateKey, Register, Authorize, SetToken, SetUri, AskUri, Fetch, Issue, SetCrt,
       SetKey, Clear
  <2> QED
    BY <1>0, <2>1 DEF TypeOK
<1>3. AuthzKept
  <2>1. UNCHANGED authz \/ Authorize(w)
    BY DEF Step, AskCrt, AskKey, LoadCrt, LoadKey, AskToken, Account,
       Client, PrivateKey, Register, SetToken, SetUri, AskUri, Fetch, Issue, SetCrt,
       SetKey, Clear
  <2>2. CASE UNCHANGED authz
    BY <2>2 DEF AuthzKept
  <2>3. CASE Authorize(w)
    <3> DEFINE x == [dom |-> job[w].dom, key |-> job[w].key, status |-> "pending"]
    <3>1. x \in Authzs /\ authz \in Seq(Authzs)
      BY <1>0, <1>1 DEF Authzs, TypeOK, Jobs
    <3>2. UNCHANGED authz \/ authz' = Append(authz, x)
      BY <2>3 DEF Authorize
    <3> HIDE DEF x
    <3> QED
      BY <2>2, <3>1, <3>2, AppendKeeps
  <2> QED
    BY <2>1, <2>2, <2>3
<1>4. NoKeyYet'
  <2>1. job'[w].pc \in {"crt?", "key?"} => job'[w].key = 0
    <3>1. \A pc : To(w, pc) => job'[w].pc = pc /\ job'[w].key = job[w].key
      BY <1>0, GoFields DEF To
    <3>2. job'[w].pc \in {"crt?", "key?"} => To(w, "key?") /\ job[w].pc = "crt?"
      <4>1. \A pc, k, a, c : Go(w, pc, k, a, c) => job'[w].pc = pc
        BY <1>0, GoFields
      <4>2. Refuse(w) => job'[w].pc = "idle"
        BY <1>0, RefuseTyped DEF TypeOK, JobsOK
      <4>3. LoadKey(w) => job'[w].pc = "idle"
        BY <1>0, LoadKeyJob
      <4>4. CASE AskCrt(w) \/ AskKey(w) \/ LoadCrt(w) \/ LoadKey(w)
        BY <4>1, <4>2, <4>3, <4>4 DEF AskCrt, AskKey, LoadCrt, Goes, Deploy, To, Load, AfterKey
      <4>5. CASE Account(w) \/ Client(w)
        BY <4>1, <4>2, <4>5 DEF Account, Client, PrivateKey
      <4>6. CASE AskToken(w) \/ Register(w) \/ Authorize(w) \/ SetToken(w) \/ SetUri(w)
                 \/ AskUri(w) \/ Fetch(w) \/ Issue(w) \/ SetCrt(w) \/ SetKey(w)
        BY <4>1, <4>2, <4>6 DEF AskToken, Register, Authorize, SetToken, SetUri, AskUri,
           Fetch, Issue, SetCrt, SetKey, To, Load
      <4>7. CASE Clear(w)
        BY <4>1, <4>7 DEF Clear, ClearPcs, To, Load
      <4> QED
        BY <4>4, <4>5, <4>6, <4>7 DEF Step
    <3> QED
      BY <1>0, <3>1, <3>2 DEF NoKeyYet
  <2> QED
    BY <1>0, <1>1, <2>1 DEF NoKeyYet, OthersStay
<1>5. ASSUME NEW d \in Domains, ~overlap'[d]
      PROVE  AccountSafe(d)'
  <2>1. AccountSafe(d) /\ DomainSafe(d) /\ DomainSafe(d)'
    BY <1>0, <1>2, <1>5 DEF AccountsSafe, DomainsSafe
  <2>2. ASSUME \A e \in Entries : redis'[d][e] = redis[d][e]
        PROVE  /\ UriHolds(d)'
               /\ \A v \in Workers \ {w} : Deploying(v, d)' => ClientHolds(v, d)'
    <3>1. UriHolds(d)'
      BY <1>3, <2>1, <2>2 DEF AccountSafe, UriHolds, AuthzKept, Entries
    <3>2. ASSUME NEW v \in Workers \ {w}, Deploying(v, d)'
          PROVE  ClientHolds(v, d)'
      <4>1. job'[v] = job[v] /\ ClientHolds(v, d)
        BY <1>1, <2>1, <3>2 DEF OthersStay, AccountSafe, Deploying
      <4>2. /\ redis'[d]["private_key"] = redis[d]["private_key"]
            /\ redis'[d]["uri"] = redis[d]["uri"]
        BY <2>2 DEF Entries
      <4> QED
        BY <1>3, <4>1, <4>2 DEF ClientHolds, AuthzKept, HeldIn
    <3> QED
      BY <3>1, <3>2
  <2>3. CASE d # job[w].dom
    <3>1. \A e \in Entries : redis'[d][e] = redis[d][e]
      BY <1>0, <2>3, StepRedis
    <3>2. ~Deploying(w, d)'
      BY <1>1, <2>3 DEF Deploying, Steps
    <3> QED
      BY <2>2, <3>1, <3>2 DEF AccountSafe
  <2>4. CASE d = job[w].dom
    <3>1. /\ UriHolds(d)'
          /\ job'[w].pc \in Steps => ClientHolds(w, d)'
      BY <1>0, <2>1, <2>4, ClientStep DEF AccountSafe, Deploying, NoKeyYet
    <3>2. CASE Deploying(w, d)
      <4>1. \A v \in Workers : Deploying(v, d)' => v = w
        BY <1>1, <2>1, <3>2 DEF DomainSafe, Deploying, OthersStay
      <4> QED
        BY <3>1, <4>1 DEF AccountSafe, Deploying
    <3>3. CASE ~Deploying(w, d)
      <4>1. \A e \in Entries : redis'[d][e] = redis[d][e]
        BY <1>0, <2>4, <3>3, StepRedis DEF Deploying
      <4> QED
        BY <2>2, <3>1, <4>1 DEF AccountSafe, Deploying
    <3> QED
      BY <3>2, <3>3
  <2> QED
    BY <2>3, <2>4
<1> QED
  BY <1>4, <1>5 DEF AccountsSafe

\* Steps that do not touch redis and leave a deployment only to be cleared.
LEMMA AccountQuiet ==
    ASSUME NoKeyYet, AccountsSafe, NEW w \in Workers, OthersStay(w),
           UNCHANGED <<redis, overlap, authz>>,
           job'[w].pc \in Steps => job'[w].pc = "del_token",
           job'[w].pc \in {"crt?", "key?"} => job'[w].key = 0
    PROVE  NoKeyYet' /\ AccountsSafe'
<1>1. NoKeyYet'
  BY DEF NoKeyYet, OthersStay
<1>2. ASSUME NEW d \in Domains, ~overlap'[d]
      PROVE  AccountSafe(d)'
  <2>1. AccountSafe(d)
    BY <1>2 DEF AccountsSafe
  <2>2. UriHolds(d)'
    BY <2>1 DEF AccountSafe, UriHolds
  <2>3. ASSUME NEW v \in Workers, Deploying(v, d)'
        PROVE  ClientHolds(v, d)'
    <3>1. CASE v = w
      BY <2>3, <3>1 DEF Deploying, ClientHolds
    <3>2. CASE v # w
      BY <2>1, <2>3, <3>2 DEF Deploying, ClientHolds, OthersStay, AccountSafe
    <3> QED
      BY <3>1, <3>2
  <2> QED
    BY <2>2, <2>3 DEF AccountSafe
<1> QED
  BY <1>1, <1>2 DEF AccountsSafe

\* The invariant of the accounts is inductive.
LEMMA AccountNext == AccountInv /\ [Next]_vars => AccountInv'
<1> SUFFICES ASSUME AccountInv, [Next]_vars PROVE AccountInv'
  OBVIOUS
<1>0. TypeOK /\ CertsOwn /\ DeployInv /\ NoKeyYet /\ AccountsSafe
  BY DEF AccountInv, DeployInv, OwnInv
<1>1. DeployInv'
  BY <1>0, DeployNext
<1>2. ASSUME NEW w \in Workers, NEW d \in Domains, Handshake(w, d)
      PROVE  NoKeyYet' /\ AccountsSafe'
  <2>1. UNCHANGED <<redis, overlap, authz>>
    BY <1>2 DEF Handshake
  <2>2. OthersStay(w) /\ job'[w].pc \in {"crt?", "idle"}
    BY <1>0, <1>2, HandshakeJob
  <2>3. job'[w].pc = "crt?" => job'[w].key = 0
    <3>1. \A j : Turns(w, j) => job'[w] = j
      BY <1>0 DEF TypeOK, Turns
    <3>2. Job("crt?", d, 0, 0, 0).key = 0
      BY DEF Job
    <3>3. \A e, a, s : Returned(e, a, s).pc = "idle"
      BY DEF Returned
    <3>4. \/ Turns(w, Job("crt?", d, 0, 0, 0))
          \/ \E e, a, s : Turns(w, Returned(e, a, s))
      BY <1>2, Zenon DEF Handshake, Decide, Refuse, Default, Returns
    <3> QED
      BY <3>1, <3>2, <3>3, <3>4
  <2> QED
    BY <1>0, <2>1, <2>2, <2>3, AccountQuiet DEF Steps
<1>3. ASSUME NEW w \in Workers, HandshakeUnscripted(w) PROVE NoKeyYet' /\ AccountsSafe'
  <2>1. UNCHANGED <<redis, overlap, authz>>
    BY <1>3 DEF HandshakeUnscripted
  <2>2. OthersStay(w) /\ job'[w].pc = "idle"
    BY <1>0, <1>3, UnscriptedJob
  <2> QED
    BY <1>0, <2>1, <2>2, AccountQuiet DEF Steps
<1>4. ASSUME NEW w \in Workers, Step(w) PROVE NoKeyYet' /\ AccountsSafe'
  BY <1>1, <1>4, AccountStep
<1>5. ASSUME NEW i \in 1 .. Len(authz), Validate(i) PROVE NoKeyYet' /\ AccountsSafe'
  <2>1. UNCHANGED <<redis, job, overlap>>
    BY <1>5 DEF Validate
  <2>2. AuthzKept
    BY <1>0, <1>5, ValidateKeeps DEF TypeOK
  <2>3. ASSUME NEW d \in Domains, UriHolds(d) PROVE UriHolds(d)'
    BY <2>1, <2>2, <2>3 DEF UriHolds, AuthzKept
  <2>4. ASSUME NEW d \in Domains, NEW w \in Workers, ClientHolds(w, d) PROVE ClientHolds(w, d)'
    BY <2>1, <2>2, <2>4 DEF ClientHolds, AuthzKept, HeldIn
  <2>5. \A d \in Domains, w \in Workers : Deploying(w, d)' => Deploying(w, d)
    BY <2>1 DEF Deploying
  <2> QED
    BY <1>0, <2>1, <2>3, <2>4, <2>5 DEF NoKeyYet, AccountsSafe, AccountSafe
<1>6. ASSUME NEW w \in Workers, CallFails(w) \/ Dies(w) PROVE NoKeyYet' /\ AccountsSafe'
  <2>1. UNCHANGED <<redis, overlap, authz>>
    BY <1>6 DEF CallFails, Dies
  <2>2. OthersStay(w) /\ job'[w].pc \in {"idle", "del_token"}
    BY <1>0, <1>6, FaultJob
  <2> QED
    BY <1>0, <2>1, <2>2, AccountQuiet DEF Steps
<1>7. CASE UNCHANGED vars
  <2>1. UNCHANGED <<redis, job, overlap, authz>>
    BY <1>7 DEF vars
  <2> QED
    BY <1>0, <1>1, <2>1 DEF AccountInv, NoKeyYet, AccountsSafe, AccountSafe, UriHolds,
       ClientHolds, Deploying
<1> QED
  BY <1>1, <1>2, <1>3, <1>4, <1>5, <1>6, <1>7 DEF Next, AccountInv

\* new_certificate is only called with the account that holds a valid
\* authorization of the domain, across failures, deaths and handshakes of
\* other workers, if deployments of the domain do not overlap.
THEOREM AccountsHold == Spec => []AccountHolds
<1>1. Init => AccountInv
  <2> SUFFICES ASSUME Init PROVE AccountInv
    OBVIOUS
  <2>1. \A w \in Workers : job[w].pc = "idle"
    BY DEF Init, NoJob, Returned
  <2>2. \A d \in Domains : redis[d]["uri"] = 0
    BY DEF Init, Entries
  <2> QED
    BY <2>1, <2>2, DeployInit DEF AccountInv, NoKeyYet, AccountsSafe, AccountSafe, UriHolds,
       Deploying, Steps
<1>2. AccountInv => AccountHolds
  <2> SUFFICES ASSUME AccountInv, NEW w \in Workers, job[w].pc = "issue", ~overlap[job[w].dom]
               PROVE  Entitled(w)
    BY DEF AccountHolds
  <2>1. TypeOK /\ AccountsSafe
    BY DEF AccountInv, DeployInv, OwnInv
  <2>2. job[w].dom \in Domains /\ Deploying(w, job[w].dom)
    BY <2>1 DEF TypeOK, WellInformed, Deploying, Steps
  <2>3. ClientHolds(w, job[w].dom)
    BY <2>1, <2>2 DEF AccountsSafe, AccountSafe
  <2> DEFINE i == job[w].authz
  <2>4. /\ i \in 1 .. Len(authz) /\ authz[i].dom = job[w].dom /\ authz[i].key = job[w].key
        /\ authz[i].status = "valid"
    BY <2>3 DEF ClientHolds, HeldIn
  <2>5. authz[i] \in Authzs
    BY <2>1, <2>4 DEF TypeOK
  <2>6. authz[i] = [dom |-> job[w].dom, key |-> job[w].key, status |-> "valid"]
    BY <2>4, <2>5 DEF Authzs
  <2> QED
    BY <2>4, <2>6 DEF Entitled
<1> QED
  BY <1>1, AccountNext, <1>2, PTL DEF Spec
=============================================================================
