---------------------------------- MODULE Hub ----------------------------------
(***************************************************************************)
(* The web server's live updates (internal/web/websocket.go and the        *)
(* broadcaster of server.go) over the engine: once a second the            *)
(* broadcaster looks through the tenants and sends the counters that have  *)
(* changed to the tenant's clients, without waiting for a client whose     *)
(* channel is full.  A client's handler reads the connection, its write    *)
(* pump the channel; the hub's Run closes every channel when the program   *)
(* ends.  Register, Unregister, Run's end and Broadcast hold the hub's     *)
(* lock, so each is a step.                                                *)
(***************************************************************************)
EXTENDS Engine

CONSTANTS
  Clients,   \* connections that may be made, each once
  SendDepth  \* room in a client's channel: 64 in the code

ASSUME HubAssumption ==
  /\ SendDepth \in Nat \ {0}
  /\ None \notin [tenant : EngineTenants, open : BOOLEAN, pump : {"runs", "ends", "done"}]

VARIABLES
  ended,     \* the server's context is cancelled
  hubRuns,   \* Run has not returned
  clients,   \* Hub.clients, of all tenants
  conn,      \* tenant, connection and write pump of each client
  send,      \* the messages in its channel
  closed,    \* the channels that are closed
  panicked,  \* a closed channel was sent to or closed again
  round,     \* tenants the broadcaster has yet to look at, None between rounds
  update,    \* the message it is about to broadcast
  lastCount, \* lastLogCount
  got        \* the message each client was sent last, until it has gone

hubVars == <<ended, hubRuns, clients, conn, send, closed, panicked, round, update, lastCount, got>>
broadcasterVars == <<round, update, lastCount>>

(* close(c.send) *)
Close(S) ==
  /\ closed' = closed \cup S
  /\ panicked' = (panicked \/ S \cap closed # {})

(* handleWebSocket: the identity, or an admin's choice, fixes the tenant;   *)
(* the client is registered and its pumps start.                            *)
Connect(c) ==
  /\ conn[c] = None
  /\ \E caller \in Callers, requested \in EngineTenants \cup {Unset} :
       conn' = [conn EXCEPT ![c] =
         [tenant |-> resolveTenant(caller, requested), open |-> TRUE, pump |-> "runs"]]
  /\ clients' = clients \cup {c}
  /\ UNCHANGED <<ended, hubRuns, send, closed, panicked, broadcasterVars, got>>

Connected(c) == conn[c] # None
Pumping(c)   == Connected(c) /\ conn[c].pump = "runs"

(* The read pump fails, for the peer has gone or conn was closed: the       *)
(* handler returns, and with it the request's context ends.                 *)
Disconnect(c) ==
  /\ Connected(c) /\ conn[c].open
  /\ conn' = [conn EXCEPT ![c].open = FALSE]
  /\ UNCHANGED <<ended, hubRuns, clients, send, closed, panicked, broadcasterVars, got>>

(* The write pump takes a message and writes it; a write that fails or      *)
(* times out ends the pump.                                                 *)
Pump(c) ==
  /\ Pumping(c)
  /\ send[c] # <<>>
  /\ send' = [send EXCEPT ![c] = Tail(@)]
  /\ \/ conn[c].open /\ got' = [got EXCEPT ![c] = <<Head(send[c])>>] /\ UNCHANGED conn
     \/ conn' = [conn EXCEPT ![c].pump = "ends"] /\ UNCHANGED got
  /\ UNCHANGED <<ended, hubRuns, clients, closed, panicked, broadcasterVars>>

(* It ends when the context has, or when the channel is closed and empty.   *)
PumpEnds(c) ==
  /\ Pumping(c)
  /\ ~conn[c].open \/ (c \in closed /\ send[c] = <<>>)
  /\ conn' = [conn EXCEPT ![c].pump = "ends"]
  /\ UNCHANGED <<ended, hubRuns, clients, send, closed, panicked, broadcasterVars, got>>

(* Mutant: the client is not looked up before its channel is closed. *)
ToUnregisterAlways(c) == {c}

(* What Unregister closes and deletes: nothing that Run has dealt with. *)
ToUnregister(c) == clients \cap {c}

(* The pump's deferred calls: Unregister, and the connection is closed. *)
Unregister(c) ==
  /\ Connected(c) /\ conn[c].pump = "ends"
  /\ Close(ToUnregister(c))
  /\ clients' = clients \ ToUnregister(c)
  /\ conn' = [conn EXCEPT ![c].pump = "done", ![c].open = FALSE]
  /\ got' = [got EXCEPT ![c] = <<>>]
  /\ UNCHANGED <<ended, hubRuns, send, broadcasterVars>>

-----------------------------------------------------------------------------
(* The program ends. *)
End ==
  /\ ~ended
  /\ ended' = TRUE
  /\ UNCHANGED <<hubRuns, clients, conn, send, closed, panicked, broadcasterVars, got>>

(* Run closes every channel and returns. *)
RunReturns ==
  /\ ended /\ hubRuns
  /\ hubRuns' = FALSE
  /\ Close(clients)
  /\ clients' = {}
  /\ UNCHANGED <<ended, conn, send, broadcasterVars, got>>

(* The broadcaster's ticker fires: ActiveTenants. *)
StartBroadcasts ==
  /\ round = None
  /\ round' = {t \in EngineTenants : tenants[t] # None}
  /\ UNCHANGED <<ended, hubRuns, clients, conn, send, closed, panicked, update, lastCount, got>>

(* StatsFor one of them; what has not changed is not sent. *)
ReadStats ==
  /\ round # None /\ update = None
  /\ \E t \in round :
       LET total == states[tenants[t]].total IN
       /\ round' = round \ {t}
       /\ lastCount' = [lastCount EXCEPT ![t] = total]
       /\ update' = IF lastCount[t] = total THEN None ELSE [tenant |-> t, total |-> total]
  /\ UNCHANGED <<ended, hubRuns, clients, conn, send, closed, panicked, got>>

ClientsOf(t) == {c \in clients : conn[c].tenant = t}

(* Hub.Broadcast: a full channel is passed over. *)
Broadcast ==
  LET to == {c \in ClientsOf(update.tenant) : c \in closed \/ Len(send[c]) < SendDepth} IN
  /\ update # None
  /\ send' = [c \in Clients |-> IF c \in to \ closed THEN Append(send[c], update) ELSE send[c]]
  /\ panicked' = (panicked \/ to \cap closed # {})
  /\ update' = None
  /\ UNCHANGED <<ended, hubRuns, clients, conn, closed, round, lastCount, got>>

(* The round is over. *)
EndBroadcasts ==
  /\ round = {} /\ update = None
  /\ round' = None
  /\ UNCHANGED <<ended, hubRuns, clients, conn, send, closed, panicked, update, lastCount, got>>

-----------------------------------------------------------------------------
HubInit ==
  /\ ended = FALSE /\ hubRuns = TRUE /\ panicked = FALSE
  /\ clients = {} /\ closed = {}
  /\ conn = [c \in Clients |-> None]
  /\ send = [c \in Clients |-> <<>>]
  /\ got = [c \in Clients |-> <<>>]
  /\ round = None /\ update = None
  /\ lastCount = [t \in EngineTenants |-> 0]

HubStep ==
  \/ \E c \in Clients : Connect(c) \/ Disconnect(c) \/ Pump(c) \/ PumpEnds(c) \/ Unregister(c)
  \/ End \/ RunReturns
  \/ StartBroadcasts \/ ReadStats \/ Broadcast \/ EndBroadcasts

HubNext ==
  \/ HubStep /\ UNCHANGED engineVars
  \/ EngineNext /\ UNCHANGED hubVars

HubSpec == EngineInit /\ HubInit /\ [][HubNext]_<<engineVars, hubVars>>

-----------------------------------------------------------------------------
Increasing(s) == \A i, j \in DOMAIN s : i < j => s[i].total < s[j].total

AdmittedFor(t) == Cardinality({k \in DOMAIN admitted : admitted[k].tenant = t})

(* Whatever order clients come, go and stall in, and the program ends in:   *)
(* no channel is closed twice or sent to once closed, either of which would *)
(* end the process; and a client is sent its own tenant's counters only,    *)
(* each newer than the last and none above what the engine has admitted.    *)
FeedsSound ==
  /\ ~panicked
  /\ \A c \in Clients : Connected(c) =>
       LET feed == got[c] \o send[c] IN
       /\ Increasing(feed)
       /\ \A i \in DOMAIN feed :
            /\ feed[i].tenant = conn[c].tenant
            /\ feed[i].total <= AdmittedFor(conn[c].tenant)
=============================================================================
