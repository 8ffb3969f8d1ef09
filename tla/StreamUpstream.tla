--------------------------- MODULE StreamUpstream ---------------------------
(***************************************************************************)
(* StreamAsync together with Nginx::Stream::Connection#upstream_server=:   *)
(* scripts choose the server their session is proxied to by overwriting    *)
(* the one peer of an upstream block.  That peer belongs to the worker, so *)
(* every other session sees the change; and the address written into it is *)
(* allocated from the pool of the session that ictx names.                 *)
(*                                                                         *)
(* Each step of StreamAsync in which a script runs may assign a server     *)
(* (the last one, if it assigns several); a session that is passed on      *)
(* connects in the same event.  Sessions end, and their pools with them.   *)
(***************************************************************************)
EXTENDS StreamAsync

CONSTANTS
    Servers,     \* addresses scripts assign
    Configured   \* the address in the configuration

ASSUME UpstreamAssumption == Configured \notin Servers

VARIABLES
    peer,        \* ctx->target: its address and the session whose pool holds it
    connected,   \* connected[s]: the address s was proxied to
    ended,       \* sessions whose connection and pool are gone
    choice       \* history: the last assignment, and whose script made it

uvars == <<vars, peer, connected, ended, choice>>

Nowhere == "nowhere"       \* not connected yet
Freed == "freed"           \* whatever the memory of a destroyed pool holds

UInit ==
    /\ Init
    /\ peer = [address |-> Configured, pool |-> NoSession]
    /\ connected = [s \in Sessions |-> Nowhere]
    /\ ended = {}
    /\ choice = [server |-> Configured, by |-> NoSession]

-----------------------------------------------------------------------------
\* ngx_parse_url allocates the address from the pool of the session in ictx.
PoolOfPreviousSession == ictx.s
AddressPool == ictx'.s

\* A script that does not assign, or whose Connection.new raised.
KeepsServer == UNCHANGED <<peer, choice>>

\* upstream_server= u by the script of f.
AssignsServer(f, u) ==
    /\ peer' = [address |-> u, pool |-> AddressPool]
    /\ choice' = [server |-> u, by |-> f]

Ran(f) == KeepsServer \/ \E u \in Servers : AssignsServer(f, u)

\* The address nginx reads from the peer now.
PeerAddress == IF peer'.pool \in ended THEN Freed ELSE peer'.address

\* The proxy (external): a session that is passed on connects to the peer.
Connect ==
    connected' = [s \in Sessions |->
        IF phase[s] # "passed" /\ phase'[s] = "passed" THEN PeerAddress ELSE connected[s]]

UHandler(s) ==
    /\ \/ (HandlerSkips(s) \/ HandlerMeetsStaleExc(s)) /\ KeepsServer
       \/ /\ \E a \in Assignment :
               HandlerSleeps(s, a) \/ HandlerReturns(s, a) \/ HandlerRaises(s, a)
          /\ Ran(s)
    /\ Connect
    /\ UNCHANGED ended

UTimerHandler(s) ==
    /\ \/ TimerMeetsStaleExc(s) /\ KeepsServer
       \/ /\ \E a \in Assignment :
               TimerSleeps(s, a) \/ TimerReturns(s, a) \/ TimerRaises(s, a)
          /\ Ran(re[s].fiber)
    /\ Connect
    /\ UNCHANGED ended

\* A session that was passed on or closed comes to its end (external).
End(s) ==
    /\ phase[s] \in {"passed", "closed"} /\ s \notin ended
    /\ ended' = ended \cup {s}
    /\ UNCHANGED <<vars, peer, connected, choice>>

UNext == \E s \in Sessions : UHandler(s) \/ UTimerHandler(s) \/ End(s)

UFairness ==
    \A s \in Sessions : WF_uvars(UHandler(s)) /\ WF_uvars(UTimerHandler(s))

USpec == UInit /\ [][UNext]_uvars
UFairSpec == USpec /\ UFairness

-----------------------------------------------------------------------------
\* A session is proxied to the server assigned last by any script of the
\* worker; a choice is lost only with the session that made it, never while
\* that session is waiting or is itself the one that connects.
LastChoiceReached ==
    [][\A s \in Sessions : connected'[s] # connected[s] =>
          \/ connected'[s] = choice'.server
          \/ choice'.by \in ended /\ choice'.by # s]_uvars
=============================================================================
