-------------------------- MODULE CommandDelivery --------------------------
(***************************************************************************)
(* How a command queued for a node reaches the agent on it.                *)
(*                                                                         *)
(* Three server paths hand the same database row to the agent:             *)
(*   - the handler that creates it pushes it over the node's WebSocket     *)
(*     (CommandHandler.Create / pushCommand, NodeHandler.Decommission);    *)
(*   - a (re)connecting agent is sent what is Pending                      *)
(*     (AgentHandler.HandleAgentWS / sendPendingCommands);                 *)
(*   - the agent polls over REST (NodeHandler.GetCommands).                *)
(* Each handler is a goroutine of its own; every database statement and    *)
(* every operation on the hub is one step, and steps of different handlers *)
(* interleave.  The agent is external: it receives what is written to its  *)
(* socket or returned by its poll, runs it and reports the stages.         *)
(*                                                                         *)
(* managed_node_id never changes once a row exists, so it is the constant  *)
(* Addressee.  Teardown holds the `unregister' commands of Decommission,   *)
(* the only ones with an ExpiresAt.                                        *)
(***************************************************************************)
EXTENDS Naturals, AgentHub

CONSTANTS Cmd,          \* command ids
          Poll,         \* concurrent GET .../commands requests of agents
          Addressee,    \* NodeCommand.ManagedNodeID
          Teardown,     \* commands created by Decommission
          Stranger,     \* other nodes, that only report on these commands
          AdminPhases,  \* phases an admin's PUT .../status may carry
          MaxRequeues   \* bound: status updates that put a row back to Pending

Phases == {"Pending", "Delivered", "Running", "Completed", "Failed", "Expired"}

ASSUME DeliveryAssumption ==
    /\ Addressee \in [Cmd -> Node]
    /\ Teardown \subseteq Cmd
    /\ AdminPhases \subseteq Phases
    /\ MaxRequeues \in Nat

VARIABLES
    nodes,      \* ids with a managed_nodes row
    purging,    \* nodes whose Delete has removed the commands, not yet the row
    phase,      \* NodeCommand.Phase, "None" when there is no row
    expired,    \* commands whose ExpiresAt has passed
    push,       \* where the handler that creates the command stands
    hub,        \* Hub.connections
    \* per WebSocket: the HandleAgentWS goroutine and its socket
    serve,      \* where the goroutine stands
    peer,       \* the node it authenticated
    up,         \* the socket is alive
    todo,       \* what is left of the snapshot of sendPendingCommands
    out,        \* the command it has claimed and not yet written
    wire,       \* commands written to the socket and not yet read
    \* per REST poll: the GetCommands goroutine
    poll,       \* where the goroutine stands
    rest,       \* what is left of its snapshot
    got,        \* what it has claimed for its response
    stages,     \* execution stages the agent has entered for a command
    \* history, read by properties and bounds only
    received,   \* how many times the agent was handed the command
    requeues,   \* how many status updates put the row back to Pending
    edited,     \* commands whose status an admin has overwritten
    skipped,    \* commands that a failed GetPending or ClaimForDelivery left behind
    late        \* <<k, c>>: connection k authenticated after c had expired

connVars == <<serve, peer, up, todo, out, wire>>
pollVars == <<poll, rest, got>>
serverVars == <<nodes, purging, phase, expired, push, hub, connVars, pollVars>>
agentVars == <<stages, received>>
auditVars == <<requeues, edited, skipped, late>>
vars == <<serverVars, agentVars, auditVars>>

Terminal == {"Completed", "Failed"}
Stages == {"Running", "Completed", "Failed"}
PushPC == {"idle", "queued", "checked", "claiming", "sending", "done"}
ConnPC == {"new", "auth", "registered", "loaded", "claimed", "reading", "closed"}
PollPC == {"idle", "loaded"}

Init ==
    /\ nodes = Node /\ purging = {}
    /\ phase = [c \in Cmd |-> "None"]
    /\ expired = {}
    /\ push = [c \in Cmd |-> "idle"]
    /\ hub = NewHub
    /\ serve = [k \in Conn |-> "new"] /\ peer = [k \in Conn |-> NoConn]
    /\ up = [k \in Conn |-> FALSE]
    /\ todo = [k \in Conn |-> {}] /\ out = [k \in Conn |-> {}] /\ wire = [k \in Conn |-> {}]
    /\ poll = [p \in Poll |-> "idle"]
    /\ rest = [p \in Poll |-> {}] /\ got = [p \in Poll |-> {}]
    /\ stages = [c \in Cmd |-> {}]
    /\ received = [c \in Cmd |-> 0]
    /\ requeues = [c \in Cmd |-> 0]
    /\ edited = {} /\ skipped = {} /\ late = {}

-----------------------------------------------------------------------------
(* CommandStore statements.                                                *)

\* Slip: the snapshot forgets ExpiresAt.
PendingOfNode(n) == {c \in Cmd : Addressee[c] = n /\ phase[c] = "Pending"}

\* Slip: expires_at > now without "expires_at IS NULL OR".
PendingWithDeadline(n) ==
    {c \in Teardown : Addressee[c] = n /\ phase[c] = "Pending" /\ c \notin expired}

\* Slip: expires_at IS NULL without "OR expires_at > now".
PendingWithoutDeadline(n) ==
    {c \in Cmd \ Teardown : Addressee[c] = n /\ phase[c] = "Pending"}

\* Rows a poll or a reconnect may try to claim.
GetPending(n) ==
    {c \in Cmd : Addressee[c] = n /\ phase[c] = "Pending" /\ c \notin expired}

\* The rows that ClaimForDelivery's WHERE clause matches.
CanClaim(c) == phase[c] = "Pending"

\* UPDATE ... SET phase = Delivered WHERE id = c AND phase = Pending, with
\* RowsAffected = 1.
ClaimForDelivery(c) ==
    /\ CanClaim(c)
    /\ phase' = [phase EXCEPT ![c] = "Delivered"]

-----------------------------------------------------------------------------
(* The handler that creates the command and pushes it.                     *)

\* Create, CreateBulk and CreateForGroup insert the row Pending for a node id
\* that is not looked up.
Create(c) ==
    /\ c \notin Teardown
    /\ push[c] = "idle"
    /\ phase' = [phase EXCEPT ![c] = "Pending"]
    /\ push' = [push EXCEPT ![c] = "queued"]
    /\ UNCHANGED <<nodes, purging, expired, hub, connVars, pollVars, agentVars, auditVars>>

\* pushCommand: the node is offline, so the row is left for a poll or a
\* reconnect; otherwise go on to the claim.
PushIfOnline(c) ==
    /\ push[c] = "queued"
    /\ push' = [push EXCEPT ![c] =
                   IF IsOnline(hub, Addressee[c]) THEN "claiming" ELSE "done"]
    /\ UNCHANGED <<nodes, purging, phase, expired, hub, connVars, pollVars, agentVars, auditVars>>

\* Decommission answers 404 for an unknown node and nodeOnline=false for an
\* offline one: no command is created in either case.
DecommissionCheck(c) ==
    /\ c \in Teardown
    /\ push[c] = "idle"
    /\ push' = [push EXCEPT ![c] =
                   IF Addressee[c] \in nodes /\ IsOnline(hub, Addressee[c])
                   THEN "checked" ELSE "done"]
    /\ UNCHANGED <<nodes, purging, phase, expired, hub, connVars, pollVars, agentVars, auditVars>>

\* The unregister row is inserted with its deadline.
DecommissionCreate(c) ==
    /\ push[c] = "checked"
    /\ phase' = [phase EXCEPT ![c] = "Pending"]
    /\ push' = [push EXCEPT ![c] = "claiming"]
    /\ UNCHANGED <<nodes, purging, expired, hub, connVars, pollVars, agentVars, auditVars>>

\* Claim before pushing.  A lost race leaves the delivery to the winner.
PushClaim(c) ==
    /\ push[c] = "claiming"
    /\ \/ /\ ClaimForDelivery(c)
          /\ push' = [push EXCEPT ![c] = "sending"]
       \/ /\ ~CanClaim(c)
          /\ push' = [push EXCEPT ![c] = "done"]
          /\ UNCHANGED phase
    /\ UNCHANGED <<nodes, purging, expired, hub, connVars, pollVars, agentVars, auditVars>>

\* The claim returned an error (the admin's request context was cancelled, the
\* database stayed locked): the handler gives up and leaves the row alone.
PushClaimError(c) ==
    /\ push[c] = "claiming"
    /\ push' = [push EXCEPT ![c] = "done"]
    /\ skipped' = skipped \cup {c}
    /\ UNCHANGED <<nodes, purging, phase, expired, hub, connVars, pollVars, agentVars,
                   requeues, edited, late>>

Live(k) == k # NoConn /\ up[k]

\* Hub.SendCommand, its error ignored: with no entry, or a dead socket, the
\* message is gone and the row stays Delivered.
SendCommand(c) ==
    /\ push[c] = "sending"
    /\ push' = [push EXCEPT ![c] = "done"]
    /\ LET k == hub[Addressee[c]] IN
       \/ /\ Live(k)
          /\ wire' = [wire EXCEPT ![k] = @ \cup {c}]
          /\ UNCHANGED <<serve, peer, up, todo, out>>
       \/ ~Live(k) /\ UNCHANGED connVars
    /\ UNCHANGED <<nodes, purging, phase, expired, hub, pollVars, agentVars,
                   requeues, edited, skipped, late>>

-----------------------------------------------------------------------------
(* HandleAgentWS, one goroutine per connection.                            *)

\* GetByAPIKey and the upgrade.  An agent may reconnect before the server has
\* noticed that its previous socket is dead.
Authenticate(k, n) ==
    /\ serve[k] = "new" /\ n \in nodes
    /\ serve' = [serve EXCEPT ![k] = "auth"]
    /\ peer' = [peer EXCEPT ![k] = n]
    /\ up' = [up EXCEPT ![k] = TRUE]
    /\ UNCHANGED <<todo, out, wire>>
    /\ late' = late \cup ({k} \X expired)
    /\ UNCHANGED <<nodes, purging, phase, expired, push, hub, pollVars, agentVars,
                   requeues, edited, skipped>>

HubRegister(k) ==
    /\ serve[k] = "auth"
    /\ hub' = Register(hub, peer[k], k)
    /\ serve' = [serve EXCEPT ![k] = "registered"]
    /\ UNCHANGED <<peer, up, todo, out, wire, nodes, purging, phase, expired, push, pollVars, agentVars, auditVars>>

\* sendPendingCommands takes its snapshot.
LoadPending(k) ==
    /\ serve[k] = "registered"
    /\ serve' = [serve EXCEPT ![k] = "loaded"]
    /\ todo' = [todo EXCEPT ![k] = GetPending(peer[k])]
    /\ UNCHANGED <<peer, up, out, wire, nodes, purging, phase, expired, push, hub, pollVars, agentVars, auditVars>>

\* GetPending failed: nothing is sent on this connection.
LoadPendingError(k) ==
    /\ serve[k] = "registered"
    /\ serve' = [serve EXCEPT ![k] = "reading"]
    /\ skipped' = skipped \cup {c \in Cmd : Addressee[c] = peer[k]}
    /\ UNCHANGED <<peer, up, todo, out, wire, nodes, purging, phase, expired, push, hub, pollVars,
                   agentVars, requeues, edited, late>>

\* One round of the loop up to the write: claim, or skip a row another path won.
ClaimPending(k, c) ==
    /\ serve[k] = "loaded" /\ c \in todo[k]
    /\ \/ /\ ClaimForDelivery(c)
          /\ serve' = [serve EXCEPT ![k] = "claimed"]
          /\ todo' = [todo EXCEPT ![k] = @ \ {c}]
          /\ out' = [out EXCEPT ![k] = {c}]
          /\ UNCHANGED <<peer, up, wire>>
       \/ /\ ~CanClaim(c)
          /\ todo' = [todo EXCEPT ![k] = @ \ {c}]
          /\ UNCHANGED <<serve, peer, up, out, wire>>
          /\ UNCHANGED phase
    /\ UNCHANGED <<nodes, purging, expired, push, hub, pollVars, agentVars, auditVars>>

\* A failed claim is logged and the loop continues.
ClaimPendingError(k, c) ==
    /\ serve[k] = "loaded" /\ c \in todo[k]
    /\ todo' = [todo EXCEPT ![k] = @ \ {c}]
    /\ UNCHANGED <<serve, peer, up, out, wire>>
    /\ skipped' = skipped \cup {c}
    /\ UNCHANGED <<nodes, purging, phase, expired, push, hub, pollVars, agentVars,
                   requeues, edited, late>>

\* The write.  On a dead socket it may still succeed into the kernel's buffer,
\* or fail and end the loop; either way the claimed command is gone.
WritePending(k) ==
    /\ serve[k] = "claimed"
    /\ out' = [out EXCEPT ![k] = {}]
    /\ \/ /\ up[k]
          /\ serve' = [serve EXCEPT ![k] = "loaded"]
          /\ wire' = [wire EXCEPT ![k] = @ \cup out[k]]
          /\ UNCHANGED todo
       \/ /\ ~up[k]
          /\ serve' = [serve EXCEPT ![k] = "loaded"]
          /\ UNCHANGED <<todo, wire>>
       \/ /\ ~up[k]
          /\ serve' = [serve EXCEPT ![k] = "reading"]
          /\ todo' = [todo EXCEPT ![k] = {}]
          /\ UNCHANGED wire
    /\ UNCHANGED <<nodes, purging, phase, expired, push, hub, peer, up, pollVars,
                   agentVars, auditVars>>

EnterReadLoop(k) ==
    /\ serve[k] = "loaded" /\ todo[k] = {}
    /\ serve' = [serve EXCEPT ![k] = "reading"]
    /\ UNCHANGED <<peer, up, todo, out, wire, nodes, purging, phase, expired, push, hub, pollVars, agentVars, auditVars>>

\* The network drops the connection; what was not yet read is lost.
Drop(k) ==
    /\ up[k]
    /\ up' = [up EXCEPT ![k] = FALSE]
    /\ wire' = [wire EXCEPT ![k] = {}]
    /\ UNCHANGED <<serve, peer, todo, out, nodes, purging, phase, expired, push, hub, pollVars, agentVars, auditVars>>

\* ReadMessage fails and the deferred Unregister runs.
Disconnect(k) ==
    /\ serve[k] = "reading" /\ ~up[k]
    /\ hub' = Unregister(hub, peer[k])
    /\ serve' = [serve EXCEPT ![k] = "closed"]
    /\ peer' = [peer EXCEPT ![k] = NoConn]
    /\ UNCHANGED <<up, todo, out, wire, nodes, purging, phase, expired, push, pollVars, agentVars, auditVars>>

-----------------------------------------------------------------------------
(* GetCommands for an agent.                                               *)

\* The API key authenticates the node and the path must name the same node.
PollStart(p, n) ==
    /\ poll[p] = "idle" /\ n \in nodes
    /\ poll' = [poll EXCEPT ![p] = "loaded"]
    /\ rest' = [rest EXCEPT ![p] = GetPending(n)]
    /\ UNCHANGED <<got, nodes, purging, phase, expired, push, hub, connVars, agentVars, auditVars>>

\* Slip: the poll returns its whole snapshot, claimed or not.
PollClaimUnchecked(p, c) ==
    /\ poll[p] = "loaded" /\ c \in rest[p]
    /\ rest' = [rest EXCEPT ![p] = @ \ {c}]
    /\ got' = [got EXCEPT ![p] = @ \cup {c}]
    /\ UNCHANGED <<poll>>
    /\ phase' = [phase EXCEPT ![c] = IF CanClaim(c) THEN "Delivered" ELSE @]
    /\ UNCHANGED <<nodes, purging, expired, push, hub, connVars, agentVars, auditVars>>

PollClaim(p, c) ==
    /\ poll[p] = "loaded" /\ c \in rest[p]
    /\ \/ /\ ClaimForDelivery(c)
          /\ rest' = [rest EXCEPT ![p] = @ \ {c}]
          /\ got' = [got EXCEPT ![p] = @ \cup {c}]
          /\ UNCHANGED <<poll>>
       \/ /\ ~CanClaim(c)
          /\ rest' = [rest EXCEPT ![p] = @ \ {c}]
          /\ UNCHANGED <<poll, got>>
          /\ UNCHANGED phase
    /\ UNCHANGED <<nodes, purging, expired, push, hub, connVars, agentVars, auditVars>>

\* An error from one claim (the agent hung up: the request context is
\* cancelled) answers 500 and drops the commands already claimed.
PollError(p) ==
    /\ poll[p] = "loaded" /\ rest[p] # {}
    /\ skipped' = skipped \cup rest[p]
    /\ poll' = [poll EXCEPT ![p] = "idle"]
    /\ rest' = [rest EXCEPT ![p] = {}] /\ got' = [got EXCEPT ![p] = {}]
    /\ UNCHANGED <<nodes, purging, phase, expired, push, hub, connVars, agentVars,
                   requeues, edited, late>>

\* The response reaches the agent, or is lost with the agent's connection.
PollReply(p) ==
    /\ poll[p] = "loaded" /\ rest[p] = {}
    /\ \/ received' = [c \in Cmd |-> received[c] + IF c \in got[p] THEN 1 ELSE 0]
       \/ got[p] # {} /\ UNCHANGED received
    /\ poll' = [poll EXCEPT ![p] = "idle"]
    /\ rest' = [rest EXCEPT ![p] = {}] /\ got' = [got EXCEPT ![p] = {}]
    /\ UNCHANGED <<nodes, purging, phase, expired, push, hub, connVars, stages, auditVars>>

-----------------------------------------------------------------------------
(* The agent (external) and its status reports.                            *)

AgentReceives(k, c) ==
    /\ up[k] /\ c \in wire[k]
    /\ wire' = [wire EXCEPT ![k] = @ \ {c}]
    /\ UNCHANGED <<serve, peer, up, todo, out>>
    /\ received' = [received EXCEPT ![c] = @ + 1]
    /\ UNCHANGED <<nodes, purging, phase, expired, push, hub, pollVars, stages, auditVars>>

\* The agent starts a command it has received and finishes one it started.
AgentRuns(c, s) ==
    /\ received[c] > 0
    /\ \/ s = "Running" /\ stages[c] = {}
       \/ s \in Terminal /\ stages[c] = {"Running"}
    /\ stages' = [stages EXCEPT ![c] = @ \cup {s}]
    /\ UNCHANGED <<serverVars, received, auditVars>>

\* Slip: the update is not scoped to the reporting node.
RowOfAnyNode(c, n) == phase[c] # "None"

\* The row UpdateStatusForNode's WHERE clause matches.
RowOfNode(c, n) == phase[c] # "None" /\ Addressee[c] = n

\* A status report of node n about command c, over REST (UpdateStatus) or the
\* read loop of a WebSocket (handleCommandStatus): UpdateStatusForNode looks at
\* the row's node and at nothing else.  Reports are retried and overtake each
\* other, so any stage the agent has entered may arrive at any time; a report
\* with another node's command id may say anything.
ReportStatus(n, c, s) ==
    /\ RowOfNode(c, n)
    /\ s \in stages[c] \/ Addressee[c] # n
    /\ phase' = [phase EXCEPT ![c] = s]
    /\ UNCHANGED <<nodes, purging, expired, push, hub, connVars, pollVars, agentVars, auditVars>>

\* PUT .../status by an admin: any phase, any command.
UpdateStatus(c, s) ==
    /\ phase[c] # "None"
    /\ s = "Pending" => requeues[c] < MaxRequeues
    /\ phase' = [phase EXCEPT ![c] = s]
    /\ requeues' = [requeues EXCEPT ![c] = @ + IF s = "Pending" THEN 1 ELSE 0]
    /\ edited' = edited \cup {c}
    /\ UNCHANGED <<nodes, purging, expired, push, hub, connVars, pollVars, agentVars, skipped, late>>

-----------------------------------------------------------------------------
(* Deletions and time.                                                     *)

DeleteCommand(c) ==
    /\ phase[c] # "None"
    /\ phase' = [phase EXCEPT ![c] = "None"]
    /\ UNCHANGED <<nodes, purging, expired, push, hub, connVars, pollVars, agentVars, auditVars>>

ClearHistory(n) ==
    /\ \E c \in Cmd : Addressee[c] = n /\ phase[c] \in Terminal
    /\ phase' = [c \in Cmd |-> IF Addressee[c] = n /\ phase[c] \in Terminal
                               THEN "None" ELSE phase[c]]
    /\ UNCHANGED <<nodes, purging, expired, push, hub, connVars, pollVars, agentVars, auditVars>>

\* NodeDelete is two statements outside a transaction: the commands ...
PurgeCommands(n) ==
    /\ n \in nodes \ purging
    /\ purging' = purging \cup {n}
    /\ phase' = [c \in Cmd |-> IF Addressee[c] = n THEN "None" ELSE phase[c]]
    /\ UNCHANGED <<nodes, expired, push, hub, connVars, pollVars, agentVars, auditVars>>

\* ... and then the node row.  The hub entry and the socket stay.
DeleteNodeRow(n) ==
    /\ n \in purging
    /\ purging' = purging \ {n}
    /\ nodes' = nodes \ {n}
    /\ UNCHANGED <<phase, expired, push, hub, connVars, pollVars, agentVars, auditVars>>

\* The decommission window of a created teardown closes.
Expire(c) ==
    /\ c \in Teardown \ expired
    /\ phase[c] # "None"
    /\ expired' = expired \cup {c}
    /\ UNCHANGED <<nodes, purging, phase, push, hub, connVars, pollVars, agentVars, auditVars>>

-----------------------------------------------------------------------------
Pushing(c) ==
    \/ Create(c) \/ PushIfOnline(c) \/ DecommissionCheck(c) \/ DecommissionCreate(c)
    \/ PushClaim(c) \/ PushClaimError(c) \/ SendCommand(c)

Serving(k) ==
    \/ \E n \in Node : Authenticate(k, n)
    \/ HubRegister(k) \/ LoadPending(k) \/ LoadPendingError(k) \/ WritePending(k)
    \/ EnterReadLoop(k)
    \/ \E c \in Cmd : ClaimPending(k, c) \/ ClaimPendingError(k, c) \/ AgentReceives(k, c)
    \/ Drop(k) \/ Disconnect(k)

Polling(p) ==
    \/ \E n \in Node : PollStart(p, n)
    \/ \E c \in Cmd : PollClaim(p, c)
    \/ PollError(p) \/ PollReply(p)

Status(c) ==
    \/ \E s \in Stages : AgentRuns(c, s) \/ \E n \in Node \cup Stranger : ReportStatus(n, c, s)
    \/ \E s \in AdminPhases : UpdateStatus(c, s)
    \/ DeleteCommand(c) \/ Expire(c)

Purging(n) == ClearHistory(n) \/ PurgeCommands(n) \/ DeleteNodeRow(n)

Next ==
    \/ \E c \in Cmd : Pushing(c) \/ Status(c)
    \/ \E k \in Conn : Serving(k)
    \/ \E p \in Poll : Polling(p)
    \/ \E n \in Node : Purging(n)

Spec == Init /\ [][Next]_vars

(* Goroutines run: a started handler takes its next step, the read loop of a
   dead socket notices.  The agent keeps polling, and a claim does not fail
   every time it is tried.                                                  *)
Fairness ==
    /\ \A c \in Cmd : WF_vars(PushIfOnline(c) \/ PushClaim(c) \/ SendCommand(c))
    /\ \A p \in Poll, n \in Node : SF_vars(PollStart(p, n))
    /\ \A p \in Poll, c \in Cmd : SF_vars(PollClaim(p, c))
    /\ \A p \in Poll : WF_vars(PollReply(p))

LiveSpec == Spec /\ Fairness

-----------------------------------------------------------------------------
TypeOK ==
    /\ nodes \in SUBSET Node /\ purging \in SUBSET Node
    /\ phase \in [Cmd -> Phases \cup {"None"}]
    /\ expired \in SUBSET Cmd
    /\ push \in [Cmd -> PushPC]
    /\ hub \in [Node -> Conn \cup {NoConn}]
    /\ serve \in [Conn -> ConnPC] /\ peer \in [Conn -> Node \cup {NoConn}]
    /\ up \in [Conn -> BOOLEAN]
    /\ todo \in [Conn -> SUBSET Cmd] /\ out \in [Conn -> SUBSET Cmd]
    /\ wire \in [Conn -> SUBSET Cmd]
    /\ poll \in [Poll -> PollPC]
    /\ rest \in [Poll -> SUBSET Cmd] /\ got \in [Poll -> SUBSET Cmd]
    /\ stages \in [Cmd -> SUBSET Stages]
    /\ received \in [Cmd -> Nat]
    /\ requeues \in [Cmd -> Nat]
    /\ edited \in SUBSET Cmd /\ skipped \in SUBSET Cmd
    /\ late \in SUBSET (Conn \X Cmd)

\* Whatever pushes, reconnects and polls race for it, a command that no status
\* update put back to Pending is handed to the agent at most once
\* (ClaimForDelivery before every delivery).
AtMostOnce == \A c \in Cmd : requeues[c] = 0 => received[c] <= 1

\* Why AtMostOnce holds, as an inductive invariant: the delivery of a command
\* that was queued once exists in one place only, first as the Pending row, then
\* with the handler that won the claim, on the wire, or with the agent.
Held(c) ==
    \/ push[c] = "sending"
    \/ \E k \in Conn : c \in out[k] \/ c \in wire[k]
    \/ \E p \in Poll : c \in got[p]
OnePlace(c) ==
    /\ push[c] \in {"idle", "checked"} => phase[c] = "None" /\ ~Held(c) /\ received[c] = 0
    /\ phase[c] = "Pending" => ~Held(c) /\ received[c] = 0
    /\ Held(c) => received[c] = 0
    /\ received[c] <= 1
    /\ push[c] = "sending" =>
          /\ \A k \in Conn : c \notin out[k] /\ c \notin wire[k]
          /\ \A p \in Poll : c \notin got[p]
    /\ \A k \in Conn : ~(c \in out[k] /\ c \in wire[k])
    /\ \A k, l \in Conn : k # l /\ (c \in out[k] \/ c \in wire[k])
                          => c \notin out[l] /\ c \notin wire[l]
    /\ \A k \in Conn, p \in Poll : c \in out[k] \/ c \in wire[k] => c \notin got[p]
    /\ \A p, q \in Poll : p # q /\ c \in got[p] => c \notin got[q]
DeliveryInv == \A c \in Cmd : requeues[c] = 0 => OnePlace(c)

\* A connected agent needs no poll: once a node's registered connection has
\* sent what was Pending, nothing addressed to the node is left Pending by the
\* handshake between the hub entry and the row (insert, then IsOnline, against
\* Register, then GetPending), unless it expired, a claim failed or an admin
\* put it back.
NothingStrandedWhileOnline ==
    \A c \in Cmd :
        LET k == hub[Addressee[c]] IN
        /\ Live(k) /\ serve[k] = "reading"
        /\ push[c] = "done"
        /\ c \notin expired \cup skipped \cup edited
        => phase[c] # "Pending"

\* Why that holds, as an inductive invariant.  A hub entry leads to a connection
\* that authenticated the same node and has not been closed, and whatever is
\* Pending for a node with a live entry is still in somebody's hands: the handler
\* that created it has not looked at the hub or is about to claim it, or the
\* registered connection has its snapshot still to take or to work off.
HubLeadsToPeer ==
    \A n \in Node : hub[n] # NoConn =>
        peer[hub[n]] = n /\ serve[hub[n]] \notin {"new", "auth", "closed"}
InHand(c, k) ==
    \/ push[c] \in {"queued", "claiming"}
    \/ serve[k] = "registered"
    \/ serve[k] \in {"loaded", "claimed"} /\ c \in todo[k]
HandshakeInv ==
    /\ HubLeadsToPeer
    /\ \A c \in Cmd \ (expired \cup skipped \cup edited) :
          Live(hub[Addressee[c]]) /\ phase[c] = "Pending" => InHand(c, hub[Addressee[c]])

\* Unless an admin overwrote it, the stage a row shows is one that the agent of
\* its own node really entered.
ReportedStageWasEntered ==
    \A c \in Cmd \ edited : phase[c] \in Stages => phase[c] \in stages[c]

\* A connection opened after the decommission window closed is not sent the
\* teardown by the reconnect path: "a node that comes online after the window
\* is closed will not run the teardown" (pkg/handlers/nodes.go:20).
LateNodeSkipsTeardown ==
    \A k \in Conn, c \in Cmd : <<k, c>> \in late => c \notin out[k]

\* Why that holds: a fresh connection has nothing in hand, and a teardown that
\* had expired by then is not in the snapshot the connection claims from.
LateInv ==
    /\ \A k \in Conn : serve[k] = "new" => todo[k] = {} /\ out[k] = {}
    /\ \A k \in Conn, c \in Cmd : <<k, c>> \in late =>
          c \in expired /\ serve[k] # "new" /\ c \notin todo[k] \cup out[k]

\* A queued command of a node that stays registered does not wait for ever:
\* it is claimed, expires or is deleted.
PendingIsServed ==
    \A c \in Cmd : phase[c] = "Pending" ~>
        phase[c] # "Pending" \/ c \in expired \/ Addressee[c] \notin nodes

\* IsOnline "returns true if the node has an active WebSocket connection".
ConnectedIsOnline ==
    \A k \in Conn : serve[k] = "reading" /\ up[k] => IsOnline(hub, peer[k])

=============================================================================
