------------------------------ MODULE AutoSsl ------------------------------
(***************************************************************************)
(* TLS handshakes whose certificate a mruby script chooses, in several     *)
(* worker processes: ngx_http_mruby_ssl_cert_handler, the members that     *)
(* Nginx::SSL keeps in the server configuration of the process, and        *)
(* Nginx::SSL::ACME::Client, which obtains a certificate during a          *)
(* handshake and shares its progress with the other workers through redis. *)
(*                                                                         *)
(* The script is the one of test/conf/auto-ssl: it looks for the pair of   *)
(* the domain in redis, deploys one if a half is missing, and hands both   *)
(* halves to Nginx::SSL.  Other domains of the same server name files.     *)
(* A handshake blocks its worker, so a worker has one at a time; between   *)
(* any two calls to redis or to the ACME server the other workers run,     *)
(* a call may fail, and the process may die.                               *)
(***************************************************************************)
EXTENDS Integers, Sequences, FiniteSets

CONSTANTS
    Workers,     \* worker processes
    Domains,     \* server names that clients ask for
    NoDomain,
    Style,       \* Style[d]: what the script does for d
    Asyncs,      \* values of the async argument of ACME::Client.new
    Quota,       \* bound: keys, authorizations and certificates ever made
    MaxFaults    \* bound: calls that fail and workers that die

Styles == {"acme",         \* deploys the certificate
           "paths",        \* names two files
           "half",         \* names a certificate and no key
           "denied"}       \* raises: not an allowed server name

ASSUME AutoSslAssumption ==
    /\ NoDomain \notin Domains
    /\ Style \in [Domains -> Styles]
    /\ Asyncs \subseteq BOOLEAN
    /\ Quota \in Nat /\ MaxFaults \in Nat

VARIABLES
    async,     \* the client's @async
    redis,     \* redis[d]: the five entries of a domain, 0 for nil
    job,       \* job[w]: the handshake of worker w
    member,    \* member[w]: cert_path ... cert_key_data of its mscf
    authz,     \* the authorizations of the ACME server
    certs,     \* certs[i]: the domain of the certificate i and its key i
    keys,      \* account keys generated
    faults,    \* failures so far
    overlap,   \* history: two deployments of d have overlapped
    cut        \* history: d had its token stored and its uri not

vars == <<async, redis, job, member, authz, certs, keys, faults, overlap, cut>>

-----------------------------------------------------------------------------
NoMember == [path |-> NoDomain, key_path |-> NoDomain, data |-> 0, key_data |-> 0]

\* A handshake under way: the key, authorization and certificate that the
\* client object has come to; and one that the handler has returned from.
Job(pc, dom, key, a, cert) ==
    [pc |-> pc, dom |-> dom, key |-> key, authz |-> a, cert |-> cert,
     answer |-> "none", shown |-> NoDomain]
Returned(dom, answer, shown) ==
    [pc |-> "idle", dom |-> dom, key |-> 0, authz |-> 0, cert |-> 0,
     answer |-> answer, shown |-> shown]
NoJob == Returned(NoDomain, "none", NoDomain)

Entries == {"private_key", "token", "uri", "crt", "key"}

Init ==
    /\ async \in Asyncs
    /\ redis = [d \in Domains |-> [e \in Entries |-> 0]]
    /\ job = [w \in Workers |-> NoJob]
    /\ member = [w \in Workers |-> NoMember]
    /\ authz = <<>> /\ certs = <<>> /\ keys = 0
    /\ faults = 0
    /\ overlap = [d \in Domains |-> FALSE]
    /\ cut = [d \in Domains |-> FALSE]

Get(w, entry) == redis[job[w].dom][entry]
Put(w, entry, value) == redis' = [redis EXCEPT ![job[w].dom][entry] = value]

\* The worker goes on to another step; at the end of the deployment the
\* client object goes out of use.
Turns(w, j) == job' = [job EXCEPT ![w] = j]
Go(w, pc, key, a, cert) == Turns(w, Job(pc, job[w].dom, key, a, cert))
To(w, pc) == Go(w, pc, job[w].key, job[w].authz, job[w].cert)
Load(w) == Go(w, "load_crt", 0, 0, 0)

\* The handler returns: 0 refuses the handshake, 1 accepts it with the
\* certificate of ssl_certificate or with the one of the domain d.
Returns(w, dom, answer, d) == Turns(w, Returned(dom, answer, d))
Refuse(w) == Returns(w, NoDomain, "refused", NoDomain)
Default(w, dom) == Returns(w, dom, "default", NoDomain)

-----------------------------------------------------------------------------
(* The handler and Nginx::SSL.                                             *)

\* Nginx::SSL.new
SslKeepsData(m) == [m EXCEPT !.path = NoDomain, !.key_path = NoDomain]
SslInit(m) == NoMember

\* OpenSSL takes a key only with the certificate it belongs to.
PairFits(m) == m.data = m.key_data

\* The tail of the handler: data before files, the default certificate
\* unless both halves are there, refusal if OpenSSL will not take the pair or
\* the files cannot be read.
Decide(w, dom, m) ==
    IF m.data # 0 /\ m.key_data # 0
    THEN IF PairFits(m)
         THEN Returns(w, dom, "pair", certs[m.data]) ELSE Refuse(w)
    ELSE IF m.path # NoDomain /\ m.key_path # NoDomain
    THEN Returns(w, dom, "pair", m.path) \/ Refuse(w)
    ELSE Default(w, dom)

\* A client says hello to an idle worker; all of the handler up to the
\* first call to redis.  Scripts that name files reach the end at once.
Handshake(w, d) ==
    /\ job[w].pc = "idle"
    /\ LET m == SslInit(member[w])
           named == [m EXCEPT !.path = d,
                              !.key_path = IF Style[d] = "half" THEN @ ELSE d]
       IN  \/ /\ Style[d] = "acme"
              /\ member' = [member EXCEPT ![w] = m]
              /\ Turns(w, Job("crt?", d, 0, 0, 0))
           \/ /\ Style[d] = "denied"
              /\ member' = [member EXCEPT ![w] = m]
              /\ Refuse(w)
           \/ /\ Style[d] \in {"paths", "half"}
              /\ member' = [member EXCEPT ![w] = named]
              /\ Decide(w, d, named)
    /\ UNCHANGED <<async, redis, authz, certs, keys, faults, overlap, cut>>

\* The script does not run: the name sent is empty, or the script's file is
\* not cached and does not compile any more.
HandshakeUnscripted(w) ==
    /\ job[w].pc = "idle"
    /\ Default(w, NoDomain)
    /\ UNCHANGED <<async, redis, member, authz, certs, keys, faults, overlap, cut>>

-----------------------------------------------------------------------------
(* The script: is a half missing?                                          *)

Steps == {"token?", "account", "register", "authorize", "set_token", "set_uri",
          "uri?", "client", "fetch", "issue", "set_crt", "set_key",
          "del_token", "del_uri", "del_private_key"}
Deploying(w, d) == job[w].dom = d /\ job[w].pc \in Steps

\* auto_cert_deploy is called.
Deploy(w) ==
    /\ To(w, "token?")
    /\ overlap' = [overlap EXCEPT ![job[w].dom] =
                     @ \/ \E v \in Workers : Deploying(v, job[w].dom)]

\* What the script does after it has read one half, given its value.
AfterKeyAlways(value) == "deploy"
AfterCrt(value) == IF value = 0 THEN "deploy" ELSE "key?"
AfterKey(value) == IF value = 0 THEN "deploy" ELSE "load_crt"

Goes(w, pc) ==
    \/ pc = "deploy" /\ Deploy(w)
    \/ pc = "key?" /\ To(w, pc) /\ UNCHANGED overlap
    \/ pc = "load_crt" /\ Load(w) /\ UNCHANGED overlap

AskCrt(w) ==
    /\ job[w].pc = "crt?"
    /\ Goes(w, AfterCrt(Get(w, "crt")))
    /\ UNCHANGED <<async, redis, member, authz, certs, keys, faults, cut>>

AskKey(w) ==
    /\ job[w].pc = "key?"
    /\ Goes(w, AfterKey(Get(w, "key")))
    /\ UNCHANGED <<async, redis, member, authz, certs, keys, faults, cut>>

\* ssl.certificate_data = redis[...]: nil is a TypeError.
LoadCrt(w) ==
    LET value == Get(w, "crt")
    IN  /\ job[w].pc = "load_crt"
        /\ \/ value = 0 /\ Refuse(w) /\ UNCHANGED member
           \/ /\ value # 0
              /\ member' = [member EXCEPT ![w].data = value]
              /\ To(w, "load_key")
        /\ UNCHANGED <<async, redis, authz, certs, keys, faults, overlap, cut>>

LoadKey(w) ==
    LET value == Get(w, "key")
    IN  /\ job[w].pc = "load_key"
        /\ \/ value = 0 /\ Refuse(w) /\ UNCHANGED member
           \/ /\ value # 0
              /\ member' = [member EXCEPT ![w].key_data = value]
              /\ Decide(w, job[w].dom, member'[w])
        /\ UNCHANGED <<async, redis, authz, certs, keys, faults, overlap, cut>>

-----------------------------------------------------------------------------
(* ACME::Client#auto_cert_deploy.                                          *)

AskToken(w) ==
    /\ job[w].pc = "token?"
    /\ To(w, IF Get(w, "token") = 0 THEN "account" ELSE "uri?")
    /\ UNCHANGED <<async, redis, member, authz, certs, keys, faults, overlap, cut>>

\* private_key: what the client has, else what redis has, else a new one.
PrivateKey(w, next) ==
    LET known == IF job[w].key # 0 THEN job[w].key ELSE Get(w, "private_key")
    IN  /\ \/ /\ known # 0
              /\ Go(w, next, known, job[w].authz, 0)
              /\ UNCHANGED keys
           \/ /\ known = 0 /\ keys < Quota
              /\ keys' = keys + 1
              /\ Go(w, next, keys + 1, job[w].authz, 0)
           \/ known = 0 /\ keys = Quota /\ Refuse(w) /\ UNCHANGED keys
        /\ UNCHANGED <<async, redis, member, authz, certs, faults, overlap, cut>>

Account(w) == job[w].pc = "account" /\ PrivateKey(w, "register")
Client(w) == job[w].pc = "client" /\ PrivateKey(w, "fetch")

\* register: the account of the key is made and the terms are agreed to.
RegisteredOnly(w) == UNCHANGED redis
Registered(w) == Put(w, "private_key", job[w].key)
Register(w) ==
    /\ job[w].pc = "register"
    /\ Registered(w)
    /\ To(w, "authorize")
    /\ UNCHANGED <<async, member, authz, certs, keys, faults, overlap, cut>>

\* authorize, http01 and request_verification: from here on the ACME server
\* may look at the token, which is not stored yet.
Authorize(w) ==
    /\ job[w].pc = "authorize"
    /\ \/ /\ Len(authz) < Quota
          /\ authz' = Append(authz, [dom |-> job[w].dom, key |-> job[w].key,
                                     status |-> "pending"])
          /\ Go(w, "set_token", job[w].key, Len(authz) + 1, 0)
       \/ Len(authz) = Quota /\ Refuse(w) /\ UNCHANGED authz
    /\ UNCHANGED <<async, redis, member, certs, keys, faults, overlap, cut>>

SetToken(w) ==
    /\ job[w].pc = "set_token"
    /\ Put(w, "token", job[w].authz)
    /\ To(w, "set_uri")
    /\ UNCHANGED <<async, member, authz, certs, keys, faults, overlap, cut>>

SetUri(w) ==
    /\ job[w].pc = "set_uri"
    /\ Put(w, "uri", job[w].authz)
    /\ IF async THEN Load(w) ELSE To(w, "uri?")
    /\ UNCHANGED <<async, member, authz, certs, keys, faults, overlap, cut>>

AfterUriTrusting(uri) == "client"
AfterUri(uri) == IF uri = 0 THEN "load_crt" ELSE "client"
AskUri(w) ==
    /\ job[w].pc = "uri?"
    /\ \/ /\ AfterUri(Get(w, "uri")) = "client"
          /\ Go(w, "client", job[w].key, Get(w, "uri"), 0)
       \/ AfterUri(Get(w, "uri")) = "load_crt" /\ Load(w)
    /\ UNCHANGED <<async, redis, member, authz, certs, keys, faults, overlap, cut>>

Fetch(w) ==
    /\ job[w].pc = "fetch"
    /\ IF authz[job[w].authz].status = "valid" THEN To(w, "issue") ELSE Load(w)
    /\ UNCHANGED <<async, redis, member, authz, certs, keys, faults, overlap, cut>>

\* The ACME server (external): an account is given certificates for the
\* domains that it holds a valid authorization of.
Entitled(w) ==
    \E i \in 1 .. Len(authz) :
        authz[i] = [dom |-> job[w].dom, key |-> job[w].key, status |-> "valid"]

\* new_certificate: an error is rescued, and everything is cleared.
Issue(w) ==
    /\ job[w].pc = "issue"
    /\ \/ /\ Entitled(w) /\ Len(certs) < Quota
          /\ certs' = Append(certs, job[w].dom)
          /\ Go(w, "set_crt", job[w].key, job[w].authz, Len(certs) + 1)
       \/ ~(Entitled(w) /\ Len(certs) < Quota) /\ To(w, "del_token") /\ UNCHANGED certs
    /\ UNCHANGED <<async, redis, member, authz, keys, faults, overlap, cut>>

SetCrt(w) ==
    /\ job[w].pc = "set_crt"
    /\ Put(w, "crt", job[w].cert)
    /\ To(w, "set_key")
    /\ UNCHANGED <<async, member, authz, certs, keys, faults, overlap, cut>>

\* The key of the certificate request, not the one of the account.
AccountKey(w) == job[w].key
RequestKey(w) == job[w].cert
SetKey(w) ==
    /\ job[w].pc = "set_key"
    /\ Put(w, "key", RequestKey(w))
    /\ Load(w)
    /\ UNCHANGED <<async, member, authz, certs, keys, faults, overlap, cut>>

\* clear
ClearUriFirst == <<"uri", "token", "private_key">>
ClearOrder == <<"token", "uri", "private_key">>
ClearPcs == <<"del_token", "del_uri", "del_private_key">>
Clear(w) ==
    \E i \in 1 .. 3 :
        /\ job[w].pc = ClearPcs[i]
        /\ Put(w, ClearOrder[i], 0)
        /\ IF i < 3 THEN To(w, ClearPcs[i + 1]) ELSE Load(w)
        /\ UNCHANGED <<async, member, authz, certs, keys, faults, overlap, cut>>

-----------------------------------------------------------------------------
(* The ACME server (external) and failures.                                *)

\* It asks the content handler of port 5002 for the token, which answers
\* with the one in redis.
Validate(i) ==
    /\ authz[i].status = "pending"
    /\ authz' = [authz EXCEPT ![i].status =
                   IF redis[authz[i].dom]["token"] = i THEN "valid" ELSE "invalid"]
    /\ UNCHANGED <<async, redis, job, member, certs, keys, faults, overlap, cut>>

Cuts(w) == cut' = [d \in Domains |->
                     cut[d] \/ (d = job[w].dom /\ job[w].pc = "set_uri")]

\* The call of the current step fails.  Only new_certificate and the two
\* writes after it are inside begin/rescue.
CallFails(w) ==
    /\ job[w].pc # "idle" /\ faults < MaxFaults
    /\ faults' = faults + 1
    /\ IF job[w].pc \in {"issue", "set_crt", "set_key"}
       THEN To(w, "del_token")
       ELSE Refuse(w)
    /\ Cuts(w)
    /\ UNCHANGED <<async, redis, member, authz, certs, keys, overlap>>

\* The process dies and the master starts another.
Dies(w) ==
    /\ faults < MaxFaults
    /\ faults' = faults + 1
    /\ Turns(w, NoJob)
    /\ member' = [member EXCEPT ![w] = NoMember]
    /\ Cuts(w)
    /\ UNCHANGED <<async, redis, authz, certs, keys, overlap>>

-----------------------------------------------------------------------------
Step(w) ==
    \/ AskCrt(w) \/ AskKey(w) \/ LoadCrt(w) \/ LoadKey(w)
    \/ AskToken(w) \/ Account(w) \/ Register(w) \/ Authorize(w)
    \/ SetToken(w) \/ SetUri(w) \/ AskUri(w) \/ Client(w) \/ Fetch(w)
    \/ Issue(w) \/ SetCrt(w) \/ SetKey(w) \/ Clear(w)

Next ==
    \/ \E w \in Workers, d \in Domains : Handshake(w, d)
    \/ \E w \in Workers : HandshakeUnscripted(w)
    \/ \E w \in Workers : Step(w)
    \/ \E i \in 1 .. Len(authz) : Validate(i)
    \/ \E w \in Workers : CallFails(w) \/ Dies(w)

Spec == Init /\ [][Next]_vars

-----------------------------------------------------------------------------
(* Properties.                                                             *)

Names == Domains \cup {NoDomain}
Pcs == Steps \cup {"idle", "crt?", "key?", "load_crt", "load_key"}

Jobs == [pc : Pcs, dom : Names, key : Nat, authz : Nat, cert : Nat,
         answer : {"none", "refused", "default", "pair"}, shown : Names]
Members == [path : Names, key_path : Names, data : Nat, key_data : Nat]
Authzs == [dom : Domains, key : Nat, status : {"pending", "valid", "invalid"}]
WellInformed(j) ==
    /\ j.pc # "idle" => j.dom \in Domains /\ j.answer = "none"
    /\ j.pc \in {"client", "fetch", "set_token", "set_uri"} => j.authz # 0
    /\ j.pc \in {"register", "authorize", "fetch", "issue"} => j.key # 0
    /\ j.pc \in {"set_crt", "set_key"} => j.cert # 0

\* Type invariant; a worker that is past the start of a handshake knows the
\* domain, and the authorization, account and certificate it has come to.
TypeOK ==
    /\ async \in BOOLEAN
    /\ redis \in [Domains -> [Entries -> Nat]]
    /\ job \in [Workers -> Jobs]
    /\ member \in [Workers -> Members]
    /\ authz \in Seq(Authzs)
    /\ certs \in Seq(Domains)
    /\ keys \in Nat /\ faults \in Nat
    /\ overlap \in [Domains -> BOOLEAN] /\ cut \in [Domains -> BOOLEAN]
    /\ \A w \in Workers : WellInformed(job[w])

\* A handshake is accepted with a pair only if it is the pair of the name
\* the client asked for, whatever the handshakes before it in the same
\* worker left in the server configuration; and a domain that deploys never
\* falls back on the certificate of ssl_certificate while its script runs.
OwnCertificate ==
    \A w \in Workers :
        /\ job[w].answer = "pair" => job[w].shown = job[w].dom
        /\ job[w].answer = "default" /\ job[w].dom # NoDomain => Style[job[w].dom] = "half"

\* Whatever fails and whoever dies, the certificate and the key of a domain
\* in redis belong together, even between the two writes, as long as the
\* deployments of the domain have not overlapped.
StoredPairMatches ==
    \A d \in Domains : overlap[d] \/ redis[d]["key"] \in {0, redis[d]["crt"]}

\* A token without an authorization uri stops every later deployment of the
\* domain; without overlaps only a failure between the two writes leaves one.
NotStranded ==
    \A d \in Domains :
        redis[d]["token"] # 0 /\ redis[d]["uri"] = 0 =>
            \/ overlap[d] \/ cut[d]
            \/ \E w \in Workers : Deploying(w, d) /\ job[w].pc = "set_uri"

\* The worker that asks for a certificate, usually not the one that asked
\* for the authorization, has the account that holds it.
AccountHolds ==
    \A w \in Workers :
        job[w].pc = "issue" => overlap[job[w].dom] \/ Entitled(w)

\* A pair that is complete stays: without overlaps no later handshake has
\* the domain certified again or takes a half away.
Deployed(d) == redis[d]["crt"] # 0 /\ redis[d]["key"] # 0
DeployedOnce ==
    [][\A d \in Domains :
         Deployed(d) /\ ~overlap'[d] =>
             redis'[d]["crt"] = redis[d]["crt"] /\ redis'[d]["key"] = redis[d]["key"]]_vars
=============================================================================
