----------------------- MODULE CommandDeliveryProofs -----------------------
(***************************************************************************)
(* Proofs about CommandDelivery for any number of nodes, commands,         *)
(* connections and polls.                                                  *)
(***************************************************************************)
EXTENDS CommandDelivery, TLAPS

(* Facts every step uses: the assumptions and the tuples of variables.     *)
USE DeliveryAssumption, NoConnAssumption
    DEF Register, Unregister, IsOnline, connVars, pollVars, agentVars, auditVars, serverVars

-----------------------------------------------------------------------------
(* Type correctness.                                                       *)

LEMMA PushingTypeOK ==
    ASSUME TypeOK, NEW c \in Cmd, Pushing(c)
    PROVE  TypeOK'
<1> USE DEF TypeOK, Phases, Stages, PushPC, ConnPC, PollPC
<1>1. CASE Create(c) BY <1>1 DEF Create
<1>2. CASE PushIfOnline(c) BY <1>2 DEF PushIfOnline
<1>3. CASE DecommissionCheck(c) BY <1>3 DEF DecommissionCheck
<1>4. CASE DecommissionCreate(c) BY <1>4 DEF DecommissionCreate
<1>5. CASE PushClaim(c)
  <2>1. CASE ClaimForDelivery(c) BY <1>5, <2>1 DEF PushClaim, ClaimForDelivery, CanClaim
  <2>2. CASE ~CanClaim(c) BY <1>5, <2>2 DEF PushClaim, ClaimForDelivery
  <2> QED BY <1>5, <2>1, <2>2 DEF PushClaim
<1>6. CASE PushClaimError(c) BY <1>6 DEF PushClaimError
<1>7. CASE SendCommand(c) BY <1>7 DEF SendCommand, Live
<1> QED BY <1>1, <1>2, <1>3, <1>4, <1>5, <1>6, <1>7 DEF Pushing

LEMMA ServingTypeOK ==
    ASSUME TypeOK, NEW k \in Conn, Serving(k)
    PROVE  TypeOK'
<1> USE DEF TypeOK, Phases, Stages, PushPC, ConnPC, PollPC
<1>1. ASSUME NEW n \in Node, Authenticate(k, n) PROVE TypeOK' BY <1>1 DEF Authenticate
<1>2. CASE HubRegister(k) BY <1>2 DEF HubRegister
<1>3. CASE LoadPending(k) BY <1>3 DEF LoadPending, GetPending
<1>4. CASE WritePending(k)
  <2>1. serve' \in [Conn -> ConnPC] /\ out' \in [Conn -> SUBSET Cmd]
    BY <1>4 DEF WritePending
  <2>2. todo' \in [Conn -> SUBSET Cmd]
    BY <1>4 DEF WritePending
  <2>3. wire' \in [Conn -> SUBSET Cmd]
    <3>1. CASE wire' = [wire EXCEPT ![k] = @ \cup out[k]]
      BY <3>1
    <3>2. CASE UNCHANGED wire
      BY <3>2
    <3> QED BY <1>4, <3>1, <3>2 DEF WritePending
  <2>4. UNCHANGED <<nodes, purging, phase, expired, push, hub, peer, up, pollVars,
                    agentVars, auditVars>>
    BY <1>4 DEF WritePending
  <2> QED BY <2>1, <2>2, <2>3, <2>4
<1>5. CASE EnterReadLoop(k) BY <1>5 DEF EnterReadLoop
<1>6. ASSUME NEW c \in Cmd, ClaimPending(k, c) PROVE TypeOK'
  <2>1. CASE ClaimForDelivery(c)
    <3>1. phase' \in [Cmd -> Phases \cup {"None"}]
      BY <2>1 DEF ClaimForDelivery
    <3>2. /\ serve' = [serve EXCEPT ![k] = "claimed"]
          /\ todo' = [todo EXCEPT ![k] = @ \ {c}]
          /\ out' = [out EXCEPT ![k] = {c}]
          /\ UNCHANGED <<peer, up, wire>>
      BY <1>6, <2>1 DEF ClaimPending, ClaimForDelivery
    <3>3. serve' \in [Conn -> ConnPC] /\ todo' \in [Conn -> SUBSET Cmd]
      BY <3>2
    <3>4. out' \in [Conn -> SUBSET Cmd]
      BY <3>2
    <3>5. UNCHANGED <<nodes, purging, expired, push, hub, pollVars, agentVars, auditVars>>
      BY <1>6 DEF ClaimPending
    <3> QED BY <3>1, <3>2, <3>3, <3>4, <3>5
  <2>2. CASE ~CanClaim(c) BY <1>6, <2>2 DEF ClaimPending, ClaimForDelivery
  <2> QED BY <1>6, <2>1, <2>2 DEF ClaimPending
<1>7. ASSUME NEW c \in Cmd, ClaimPendingError(k, c) PROVE TypeOK' BY <1>7 DEF ClaimPendingError
<1>8. ASSUME NEW c \in Cmd, AgentReceives(k, c) PROVE TypeOK' BY <1>8 DEF AgentReceives
<1>9. CASE Drop(k) BY <1>9 DEF Drop
<1>10. CASE Disconnect(k) BY <1>10 DEF Disconnect
<1>11. CASE LoadPendingError(k) BY <1>11 DEF LoadPendingError
<1> QED BY <1>1, <1>2, <1>3, <1>4, <1>5, <1>6, <1>7, <1>8, <1>9, <1>10, <1>11 DEF Serving

LEMMA PollingTypeOK ==
    ASSUME TypeOK, NEW p \in Poll, Polling(p)
    PROVE  TypeOK'
<1> USE DEF TypeOK, Phases, Stages, PushPC, ConnPC, PollPC
<1>1. ASSUME NEW n \in Node, PollStart(p, n) PROVE TypeOK' BY <1>1 DEF PollStart, GetPending
<1>2. ASSUME NEW c \in Cmd, PollClaim(p, c) PROVE TypeOK'
  <2>1. phase' \in [Cmd -> Phases \cup {"None"}]
    BY <1>2 DEF PollClaim, ClaimForDelivery
  <2>2. rest' \in [Poll -> SUBSET Cmd] /\ got' \in [Poll -> SUBSET Cmd] /\ UNCHANGED poll
    BY <1>2 DEF PollClaim
  <2>3. UNCHANGED <<nodes, purging, expired, push, hub, connVars, agentVars, auditVars>>
    BY <1>2 DEF PollClaim
  <2> QED BY <2>1, <2>2, <2>3
<1>3. CASE PollError(p) BY <1>3 DEF PollError
<1>4. CASE PollReply(p)
  <2>1. received' \in [Cmd -> Nat] BY <1>4 DEF PollReply
  <2> QED BY <1>4, <2>1 DEF PollReply
<1> QED BY <1>1, <1>2, <1>3, <1>4 DEF Polling

LEMMA StatusTypeOK ==
    ASSUME TypeOK, NEW c \in Cmd, Status(c)
    PROVE  TypeOK'
<1> USE DEF TypeOK, Phases, Stages, PushPC, ConnPC, PollPC
<1>1. ASSUME NEW s \in Stages, AgentRuns(c, s) PROVE TypeOK' BY <1>1 DEF AgentRuns, Terminal
<1>2. ASSUME NEW s \in Stages, NEW n \in Node \cup Stranger, ReportStatus(n, c, s) PROVE TypeOK' BY <1>2 DEF ReportStatus, RowOfNode
<1>3. ASSUME NEW s \in AdminPhases, UpdateStatus(c, s) PROVE TypeOK' BY <1>3 DEF UpdateStatus
<1>4. CASE DeleteCommand(c) BY <1>4 DEF DeleteCommand
<1>5. CASE Expire(c) BY <1>5 DEF Expire
<1> QED BY <1>1, <1>2, <1>3, <1>4, <1>5 DEF Status

LEMMA PurgingTypeOK ==
    ASSUME TypeOK, NEW n \in Node, Purging(n)
    PROVE  TypeOK'
<1> USE DEF TypeOK, Phases, Stages, PushPC, ConnPC, PollPC
<1>1. CASE ClearHistory(n) BY <1>1 DEF ClearHistory
<1>2. CASE PurgeCommands(n) BY <1>2 DEF PurgeCommands
<1>3. CASE DeleteNodeRow(n) BY <1>3 DEF DeleteNodeRow
<1> QED BY <1>1, <1>2, <1>3 DEF Purging

\* Every variable keeps its type, whichever handlers run and in which order.
THEOREM TypeCorrect == Spec => []TypeOK
<1>1. Init => TypeOK
  BY DEF Init, TypeOK, NewHub, Phases, Stages, PushPC, ConnPC, PollPC
<1>2. TypeOK /\ [Next]_vars => TypeOK'
  <2> SUFFICES ASSUME TypeOK, [Next]_vars PROVE TypeOK'
    OBVIOUS
  <2>1. CASE Next
    BY <2>1, PushingTypeOK, ServingTypeOK, PollingTypeOK, StatusTypeOK, PurgingTypeOK DEF Next
  <2>2. CASE UNCHANGED vars
    BY <2>2 DEF vars, TypeOK
  <2> QED BY <2>1, <2>2
<1> QED BY <1>1, <1>2, PTL DEF Spec

-----------------------------------------------------------------------------
(* At most one delivery.                                                   *)

\* A step that does not touch a command leaves its delivery in one place.
LEMMA Untouched ==
    ASSUME TypeOK, DeliveryInv, NEW d \in Cmd, requeues'[d] = 0,
           requeues[d] = requeues'[d], phase'[d] = phase[d], push'[d] = push[d],
           received'[d] = received[d],
           \A k \in Conn : (d \in out'[k] <=> d \in out[k]) /\ (d \in wire'[k] <=> d \in wire[k]),
           \A p \in Poll : d \in got'[p] <=> d \in got[p]
    PROVE  OnePlace(d)'
BY DEF DeliveryInv, OnePlace, Held

\* A row that leaves Pending, or a handler that gives up before it holds the
\* command, only removes obligations.
LEMMA Withdrawn ==
    ASSUME TypeOK, DeliveryInv, NEW d \in Cmd, requeues'[d] = 0, requeues[d] = 0,
           phase'[d] # "Pending" \/ phase'[d] = phase[d],
           phase[d] = "None" => phase'[d] = "None",
           push'[d] = push[d]
              \/ push'[d] \notin {"idle", "checked", "sending"},
           UNCHANGED <<out, wire, got, received>>
    PROVE  OnePlace(d)'
BY DEF DeliveryInv, OnePlace, Held

LEMMA PushingInv ==
    ASSUME TypeOK, DeliveryInv, NEW c \in Cmd, Pushing(c)
    PROVE  DeliveryInv'
<1> SUFFICES ASSUME NEW d \in Cmd, requeues'[d] = 0
             PROVE  OnePlace(d)'
  BY DEF DeliveryInv
<1> USE DEF TypeOK
<1>0. UNCHANGED <<requeues, received, got>>
  BY DEF Pushing, Create, PushIfOnline, DecommissionCheck, DecommissionCreate, PushClaim,
         PushClaimError, SendCommand
<1>1. CASE c # d
  <2>1. phase'[d] = phase[d] /\ push'[d] = push[d]
    BY <1>1 DEF Pushing, Create, PushIfOnline, DecommissionCheck, DecommissionCreate, PushClaim,
         PushClaimError, SendCommand, ClaimForDelivery
  <2>2. \A k \in Conn : (d \in out'[k] <=> d \in out[k]) /\ (d \in wire'[k] <=> d \in wire[k])
    BY <1>1 DEF Pushing, Create, PushIfOnline, DecommissionCheck, DecommissionCreate, PushClaim,
         PushClaimError, SendCommand, Live
  <2> QED BY <1>0, <2>1, <2>2, Untouched
<1>2. CASE c = d
  <2>0. requeues[c] = 0 /\ OnePlace(c) /\ received'[c] = received[c]
    BY <1>0, <1>2 DEF DeliveryInv
  <2>1. CASE Create(c) BY <1>2, <2>0, <2>1 DEF Create, OnePlace, Held
  <2>2. CASE PushIfOnline(c) BY <1>2, <2>0, <2>2, Withdrawn DEF PushIfOnline
  <2>3. CASE DecommissionCheck(c) BY <1>2, <2>0, <2>3 DEF DecommissionCheck, OnePlace, Held
  <2>4. CASE DecommissionCreate(c) BY <1>2, <2>0, <2>4 DEF DecommissionCreate, OnePlace, Held
  <2>5. CASE PushClaim(c)
    <3>1. CASE ClaimForDelivery(c)
      BY <1>2, <2>0, <2>5, <3>1 DEF PushClaim, ClaimForDelivery, CanClaim, OnePlace, Held
    <3>2. CASE ~CanClaim(c)
      BY <1>2, <2>0, <2>5, <3>2, Withdrawn DEF PushClaim, ClaimForDelivery
    <3> QED BY <2>5, <3>1, <3>2 DEF PushClaim
  <2>6. CASE PushClaimError(c) BY <1>2, <2>0, <2>6, Withdrawn DEF PushClaimError
  <2>7. CASE SendCommand(c) BY <1>2, <2>0, <2>7 DEF SendCommand, Live, OnePlace, Held
  <2> QED BY <2>1, <2>2, <2>3, <2>4, <2>5, <2>6, <2>7 DEF Pushing
<1> QED BY <1>1, <1>2

LEMMA ServingInv ==
    ASSUME TypeOK, DeliveryInv, NEW k \in Conn, Serving(k)
    PROVE  DeliveryInv'
<1> SUFFICES ASSUME NEW d \in Cmd, requeues'[d] = 0
             PROVE  OnePlace(d)'
  BY DEF DeliveryInv
<1> USE DEF TypeOK
<1>0. UNCHANGED <<requeues, push, got>>
  BY DEF Serving, Authenticate, HubRegister, LoadPending, LoadPendingError, WritePending,
         EnterReadLoop, ClaimPending, ClaimPendingError, AgentReceives, Drop, Disconnect
<1>1. requeues[d] = 0 /\ OnePlace(d)
  BY <1>0 DEF DeliveryInv
<1>2. CASE UNCHANGED <<phase, out, wire, received>>
  BY <1>0, <1>1, <1>2, Untouched
<1>3. CASE WritePending(k)
  BY <1>1, <1>3 DEF WritePending, OnePlace, Held
<1>4. ASSUME NEW c \in Cmd, ClaimPending(k, c), ClaimForDelivery(c) PROVE OnePlace(d)'
  <2>1. CASE c = d
    BY <1>1, <1>4, <2>1 DEF ClaimPending, ClaimForDelivery, CanClaim, OnePlace, Held
  <2>2. CASE c # d
    <3>1. phase'[d] = phase[d] /\ UNCHANGED <<wire, received>>
      BY <1>4, <2>2 DEF ClaimPending, ClaimForDelivery
    <3>2. d \notin out'[k] /\ \A l \in Conn : l # k => out'[l] = out[l]
      BY <1>4, <2>2 DEF ClaimPending, ClaimForDelivery
    <3> QED BY <1>0, <1>1, <3>1, <3>2 DEF OnePlace, Held
  <2> QED BY <2>1, <2>2
<1>5. ASSUME NEW c \in Cmd, ClaimPending(k, c), ~CanClaim(c) PROVE OnePlace(d)'
  BY <1>2, <1>5 DEF ClaimPending, ClaimForDelivery
<1>6. ASSUME NEW c \in Cmd, AgentReceives(k, c) PROVE OnePlace(d)'
  BY <1>1, <1>6 DEF AgentReceives, OnePlace, Held
<1>7. CASE Drop(k)
  BY <1>1, <1>7 DEF Drop, OnePlace, Held
<1> QED BY <1>2, <1>3, <1>4, <1>5, <1>6, <1>7
        DEF Serving, Authenticate, HubRegister, LoadPending, LoadPendingError, EnterReadLoop,
            ClaimPending, ClaimPendingError, Disconnect

LEMMA PollingInv ==
    ASSUME TypeOK, DeliveryInv, NEW p \in Poll, Polling(p)
    PROVE  DeliveryInv'
<1> SUFFICES ASSUME NEW d \in Cmd, requeues'[d] = 0
             PROVE  OnePlace(d)'
  BY DEF DeliveryInv
<1> USE DEF TypeOK
<1>0. UNCHANGED <<requeues, push, out, wire>>
  BY DEF Polling, PollStart, PollClaim, PollError, PollReply
<1>1. requeues[d] = 0 /\ OnePlace(d)
  BY <1>0 DEF DeliveryInv
<1>2. CASE UNCHANGED <<phase, got, received>>
  BY <1>0, <1>1, <1>2, Untouched
<1>3. ASSUME NEW c \in Cmd, PollClaim(p, c), ClaimForDelivery(c) PROVE OnePlace(d)'
  <2>1. /\ got' = [got EXCEPT ![p] = @ \cup {c}] /\ UNCHANGED received
        /\ phase[c] = "Pending" /\ phase' = [phase EXCEPT ![c] = "Delivered"]
    BY <1>3 DEF PollClaim, ClaimForDelivery, CanClaim
  <2>2. CASE c = d
    BY <1>0, <1>1, <2>1, <2>2 DEF OnePlace, Held
  <2>3. CASE c # d
    BY <1>0, <1>1, <2>1, <2>3, Untouched
  <2> QED BY <2>2, <2>3
<1>4. ASSUME NEW c \in Cmd, PollClaim(p, c), ~CanClaim(c) PROVE OnePlace(d)'
  BY <1>2, <1>4 DEF PollClaim, ClaimForDelivery
<1>5. CASE PollError(p)
  BY <1>1, <1>5 DEF PollError, OnePlace, Held
<1>6. CASE PollReply(p)
  <2>1. d \notin got[p] => received'[d] = received[d]
    BY <1>6 DEF PollReply
  <2>2. d \in got[p] => received'[d] \in {received[d], received[d] + 1}
    BY <1>6 DEF PollReply
  <2>3. UNCHANGED phase /\ got' = [got EXCEPT ![p] = {}]
    BY <1>6 DEF PollReply
  <2> QED BY <1>0, <1>1, <2>1, <2>2, <2>3 DEF OnePlace, Held
<1> QED BY <1>2, <1>3, <1>4, <1>5, <1>6 DEF Polling, PollStart, PollClaim

LEMMA StatusInv ==
    ASSUME TypeOK, DeliveryInv, NEW c \in Cmd, Status(c)
    PROVE  DeliveryInv'
<1> SUFFICES ASSUME NEW d \in Cmd, requeues'[d] = 0
             PROVE  OnePlace(d)'
  BY DEF DeliveryInv
<1> USE DEF TypeOK
<1>0. UNCHANGED <<push, out, wire, got, received>>
  BY DEF Status, AgentRuns, ReportStatus, UpdateStatus, DeleteCommand, Expire
<1>1. requeues[d] = 0
  BY DEF Status, AgentRuns, ReportStatus, UpdateStatus, DeleteCommand, Expire
<1>2. phase'[d] # "Pending" \/ phase'[d] = phase[d]
  BY <1>1 DEF Status, AgentRuns, ReportStatus, UpdateStatus, DeleteCommand, Expire, Stages
<1>3. phase[d] = "None" => phase'[d] = "None"
  BY DEF Status, AgentRuns, ReportStatus, UpdateStatus, DeleteCommand, Expire, RowOfNode
<1> QED BY <1>0, <1>1, <1>2, <1>3, Withdrawn

LEMMA PurgingInv ==
    ASSUME TypeOK, DeliveryInv, NEW n \in Node, Purging(n)
    PROVE  DeliveryInv'
<1> SUFFICES ASSUME NEW d \in Cmd, requeues'[d] = 0
             PROVE  OnePlace(d)'
  BY DEF DeliveryInv
<1> USE DEF TypeOK
<1>1. UNCHANGED <<push, out, wire, got, received, requeues>>
  BY DEF Purging, ClearHistory, PurgeCommands, DeleteNodeRow
<1>2. phase'[d] = "None" \/ phase'[d] = phase[d]
  BY DEF Purging, ClearHistory, PurgeCommands, DeleteNodeRow
<1> QED BY <1>1, <1>2, Withdrawn

\* No interleaving of pushes, reconnects and polls hands a command that was
\* queued once to the agent twice: every delivery is preceded by a claim that
\* only one of them wins (ClaimForDelivery).
THEOREM AtMostOnceDelivery == Spec => []AtMostOnce
<1>1. Init => DeliveryInv
  BY DEF Init, DeliveryInv, OnePlace, Held
<1>2. TypeOK /\ DeliveryInv /\ [Next]_vars => DeliveryInv'
  <2> SUFFICES ASSUME TypeOK, DeliveryInv, [Next]_vars PROVE DeliveryInv'
    OBVIOUS
  <2>1. CASE Next
    BY <2>1, PushingInv, ServingInv, PollingInv, StatusInv, PurgingInv DEF Next
  <2>2. CASE UNCHANGED vars
    BY <2>2 DEF vars, DeliveryInv, OnePlace, Held
  <2> QED BY <2>1, <2>2
<1>3. DeliveryInv => AtMostOnce
  BY DEF DeliveryInv, OnePlace, AtMostOnce
<1> QED BY <1>1, <1>2, <1>3, TypeCorrect, PTL DEF Spec

-----------------------------------------------------------------------------
(* Nothing is stranded while the agent is connected.                       *)

\* A step after which a command is no longer Pending, or is excused, or whose
\* row, push and connection are as before keeps the handshake for it.
LEMMA HandshakeKept ==
    ASSUME TypeOK, HandshakeInv, NEW d \in Cmd \ (expired' \cup skipped' \cup edited'),
           expired \subseteq expired', skipped \subseteq skipped', edited \subseteq edited',
           phase'[d] # "Pending" \/ phase'[d] = phase[d],
           push'[d] = push[d],
           UNCHANGED <<hub, serve, up, todo>>,
           Live(hub[Addressee[d]])', phase'[d] = "Pending"
    PROVE  InHand(d, hub[Addressee[d]])'
BY DEF HandshakeInv, InHand, Live, TypeOK

LEMMA PushingHandshake ==
    ASSUME TypeOK, HandshakeInv, NEW c \in Cmd, Pushing(c)
    PROVE  HandshakeInv'
<1> USE DEF TypeOK
<1>1. UNCHANGED <<hub, serve, peer, up, todo, expired, edited>> /\ skipped \subseteq skipped'
  BY DEF Pushing, Create, PushIfOnline, DecommissionCheck, DecommissionCreate, PushClaim,
         PushClaimError, SendCommand
<1>2. HubLeadsToPeer'
  BY <1>1 DEF HandshakeInv, HubLeadsToPeer
<1>3. ASSUME NEW d \in Cmd \ (expired' \cup skipped' \cup edited'),
             Live(hub[Addressee[d]])', phase'[d] = "Pending"
      PROVE  InHand(d, hub[Addressee[d]])'
  <2>1. CASE d # c
    <3>1. phase'[d] = phase[d] /\ push'[d] = push[d]
      BY <2>1 DEF Pushing, Create, PushIfOnline, DecommissionCheck, DecommissionCreate, PushClaim,
         PushClaimError, SendCommand, ClaimForDelivery
    <3> QED BY <1>1, <1>3, <3>1, HandshakeKept
  <2>2. CASE d = c
    <3>0. InHand(c, hub[Addressee[c]]) \/ phase[c] # "Pending"
      BY <1>1, <1>3, <2>2 DEF HandshakeInv, Live
    <3>1. CASE Create(c) \/ DecommissionCreate(c)
      BY <2>2, <3>1 DEF Create, DecommissionCreate, InHand
    <3>2. CASE PushIfOnline(c)
      BY <1>3, <2>2, <3>0, <3>2 DEF PushIfOnline, InHand, Live
    <3>3. CASE DecommissionCheck(c)
      BY <1>3, <2>2, <3>0, <3>3 DEF DecommissionCheck, InHand, Live
    <3>4. CASE PushClaim(c)
      BY <1>3, <2>2, <3>4 DEF PushClaim, ClaimForDelivery, CanClaim
    <3>5. CASE PushClaimError(c)
      BY <1>3, <2>2, <3>5 DEF PushClaimError
    <3>6. CASE SendCommand(c)
      BY <1>1, <1>3, <2>2, <3>0, <3>6 DEF SendCommand, InHand
    <3> QED BY <3>1, <3>2, <3>3, <3>4, <3>5, <3>6 DEF Pushing
  <2> QED BY <2>1, <2>2
<1> QED BY <1>2, <1>3 DEF HandshakeInv

LEMMA ServingHandshake ==
    ASSUME TypeOK, HandshakeInv, NEW k \in Conn, Serving(k)
    PROVE  HandshakeInv'
<1> USE DEF TypeOK
<1>1. UNCHANGED <<push, expired, edited>> /\ skipped \subseteq skipped'
  BY DEF Serving, Authenticate, HubRegister, LoadPending, LoadPendingError, WritePending,
         EnterReadLoop, ClaimPending, ClaimPendingError, AgentReceives, Drop, Disconnect
<1>2. \A d \in Cmd : phase'[d] = phase[d] \/ phase'[d] = "Delivered"
  BY DEF Serving, Authenticate, HubRegister, LoadPending, LoadPendingError, WritePending,
         EnterReadLoop, ClaimPending, ClaimPendingError, AgentReceives, Drop, Disconnect,
         ClaimForDelivery
<1>3. HubLeadsToPeer
  BY DEF HandshakeInv
<1>4. HubLeadsToPeer'
  <2>1. ASSUME NEW n \in Node, Authenticate(k, n) PROVE HubLeadsToPeer'
    BY <1>3, <2>1 DEF Authenticate, HubLeadsToPeer
  <2>2. CASE HubRegister(k)
    BY <1>3, <2>2 DEF HubRegister, HubLeadsToPeer
  <2>3. CASE Disconnect(k)
    BY <1>3, <2>3 DEF Disconnect, HubLeadsToPeer
  <2>4. CASE /\ UNCHANGED <<hub, peer>>
             /\ serve[k] \notin {"new", "auth", "closed"}
             /\ \E s \in ConnPC \ {"new", "auth", "closed"} : serve' = [serve EXCEPT ![k] = s]
    BY <1>3, <2>4 DEF HubLeadsToPeer
  <2>5. CASE UNCHANGED <<hub, peer, serve>>
    BY <1>3, <2>5 DEF HubLeadsToPeer
  <2>6. LoadPending(k) \/ LoadPendingError(k) \/ WritePending(k) \/ EnterReadLoop(k)
        => HubLeadsToPeer'
    BY <2>4 DEF LoadPending, LoadPendingError, WritePending, EnterReadLoop, ConnPC
  <2>7. ASSUME NEW c \in Cmd, ClaimPending(k, c) PROVE HubLeadsToPeer'
    BY <2>4, <2>5, <2>7 DEF ClaimPending, ConnPC
  <2>8. (\E c \in Cmd : ClaimPendingError(k, c) \/ AgentReceives(k, c)) \/ Drop(k)
        => HubLeadsToPeer'
    BY <2>5 DEF ClaimPendingError, AgentReceives, Drop
  <2> QED BY <2>1, <2>2, <2>3, <2>6, <2>7, <2>8 DEF Serving
<1>5. ASSUME NEW d \in Cmd \ (expired' \cup skipped' \cup edited'),
             Live(hub[Addressee[d]])', phase'[d] = "Pending"
      PROVE  InHand(d, hub[Addressee[d]])'
  <2> DEFINE n == Addressee[d]
  <2>0. /\ d \in Cmd /\ n \in Node /\ phase[d] = "Pending"
        /\ d \notin expired \cup skipped \cup edited
        /\ Live(hub[n]) => InHand(d, hub[n])
    BY <1>1, <1>2, <1>5 DEF HandshakeInv
  <2>1. CASE hub[n] # k /\ hub'[n] = hub[n]
    <3>1. serve'[hub[n]] = serve[hub[n]] /\ up'[hub[n]] = up[hub[n]] /\ todo'[hub[n]] = todo[hub[n]]
      BY <1>5, <2>1 DEF Live, Serving, Authenticate, HubRegister, LoadPending, LoadPendingError, WritePending,
         EnterReadLoop, ClaimPending, ClaimPendingError, AgentReceives, Drop, Disconnect
    <3> QED BY <1>1, <1>5, <2>0, <2>1, <3>1 DEF Live, InHand
  <2>2. CASE HubRegister(k)
    <3>1. CASE hub'[n] = k BY <2>2, <3>1 DEF HubRegister, InHand
    <3>2. CASE hub'[n] = hub[n] /\ hub[n] # k BY <2>1, <3>2
    <3> QED BY <2>0, <2>2, <3>1, <3>2 DEF HubRegister
  <2>3. CASE Disconnect(k)
    BY <1>3, <1>5, <2>0, <2>1, <2>3 DEF Disconnect, Live, HubLeadsToPeer
  <2>4. CASE hub'[n] = hub[n] /\ hub[n] = k /\ peer[k] = n
    <3>1. serve[k] \notin {"new", "auth", "closed"}
      BY <1>3, <2>0, <2>4 DEF HubLeadsToPeer
    <3>2. up'[k] /\ (up'[k] = up[k] => Live(k) /\ InHand(d, k))
      BY <1>5, <2>0, <2>4 DEF Live
    <3>3. ~(\E m \in Node : Authenticate(k, m)) /\ ~Drop(k)
      BY <3>1, <3>2 DEF Authenticate, Drop
    <3>4. up'[k] = up[k]
      BY <3>3 DEF Serving, HubRegister, LoadPending, LoadPendingError, WritePending,
         EnterReadLoop, ClaimPending, ClaimPendingError, AgentReceives, Disconnect
    <3>5. InHand(d, k) /\ up[k]
      BY <3>2, <3>4
    <3>6. CASE LoadPending(k)
      BY <2>0, <2>4, <3>6 DEF LoadPending, GetPending, InHand
    <3>7. CASE LoadPendingError(k)
      BY <1>5, <2>0, <2>4, <3>7 DEF LoadPendingError
    <3>8. CASE WritePending(k)
      BY <1>1, <2>4, <3>5, <3>8 DEF WritePending, InHand
    <3>9. CASE EnterReadLoop(k)
      BY <1>1, <2>4, <3>5, <3>9 DEF EnterReadLoop, InHand
    <3>10. ASSUME NEW c \in Cmd, ClaimPending(k, c) PROVE InHand(d, hub[n])'
      <4>1. c # d
        BY <1>5, <3>10, <2>0 DEF ClaimPending, ClaimForDelivery, CanClaim
      <4> QED BY <1>1, <2>4, <3>5, <3>10, <4>1 DEF ClaimPending, InHand
    <3>11. ASSUME NEW c \in Cmd, ClaimPendingError(k, c) PROVE InHand(d, hub[n])'
      BY <1>1, <1>5, <2>4, <3>5, <3>11 DEF ClaimPendingError, InHand
    <3>12. ASSUME NEW c \in Cmd, AgentReceives(k, c) PROVE InHand(d, hub[n])'
      BY <1>1, <2>4, <3>5, <3>12 DEF AgentReceives, InHand
    <3> QED BY <2>2, <2>3, <3>3, <3>6, <3>7, <3>8, <3>9, <3>10, <3>11, <3>12 DEF Serving
  <2>5. HubRegister(k) \/ Disconnect(k) \/ hub' = hub
    BY DEF Serving, Authenticate, LoadPending, LoadPendingError, WritePending,
         EnterReadLoop, ClaimPending, ClaimPendingError, AgentReceives, Drop
  <2> QED BY <1>3, <2>0, <2>1, <2>2, <2>3, <2>4, <2>5 DEF HubLeadsToPeer
<1> QED BY <1>4, <1>5 DEF HandshakeInv

LEMMA OthersHandshake ==
    ASSUME TypeOK, HandshakeInv,
           \/ \E p \in Poll : Polling(p)
           \/ \E c \in Cmd : Status(c)
           \/ \E n \in Node : Purging(n)
    PROVE  HandshakeInv'
<1> USE DEF TypeOK
<1>1. UNCHANGED <<push, hub, serve, peer, up, todo>>
  BY DEF Polling, PollStart, PollClaim, PollError, PollReply, Status, AgentRuns, ReportStatus,
         UpdateStatus, DeleteCommand, Expire, Purging, ClearHistory, PurgeCommands, DeleteNodeRow
<1>2. expired \subseteq expired' /\ skipped \subseteq skipped' /\ edited \subseteq edited'
  BY DEF Polling, PollStart, PollClaim, PollError, PollReply, Status, AgentRuns, ReportStatus,
         UpdateStatus, DeleteCommand, Expire, Purging, ClearHistory, PurgeCommands, DeleteNodeRow
<1>3. \A d \in Cmd \ edited' : phase'[d] # "Pending" \/ phase'[d] = phase[d]
  <2>1. ASSUME NEW p \in Poll, Polling(p), NEW d \in Cmd
        PROVE  phase'[d] # "Pending" \/ phase'[d] = phase[d]
    BY <2>1 DEF Polling, PollStart, PollClaim, PollError, PollReply, ClaimForDelivery
  <2>2. ASSUME NEW c \in Cmd, Status(c), NEW d \in Cmd \ edited'
        PROVE  phase'[d] # "Pending" \/ phase'[d] = phase[d]
    BY <2>2 DEF Status, AgentRuns, ReportStatus, UpdateStatus, DeleteCommand, Expire, Stages
  <2>3. ASSUME NEW n \in Node, Purging(n), NEW d \in Cmd
        PROVE  phase'[d] # "Pending" \/ phase'[d] = phase[d]
    BY <2>3 DEF Purging, ClearHistory, PurgeCommands, DeleteNodeRow
  <2> QED BY <2>1, <2>2, <2>3
<1>4. HubLeadsToPeer'
  BY <1>1 DEF HandshakeInv, HubLeadsToPeer
<1> QED BY <1>1, <1>2, <1>3, <1>4, HandshakeKept DEF HandshakeInv

\* Whatever the order in which a row is inserted, the hub is asked, a connection
\* is registered and its snapshot is taken, a connected agent that has been sent
\* its backlog has nothing Pending left (unless the row expired, a claim failed
\* or an admin rewrote it).
THEOREM OnlineNodeIsServed == Spec => []NothingStrandedWhileOnline
<1>1. Init => HandshakeInv
  BY DEF Init, HandshakeInv, HubLeadsToPeer, NewHub, Live
<1>2. TypeOK /\ HandshakeInv /\ [Next]_vars => HandshakeInv'
  <2> SUFFICES ASSUME TypeOK, HandshakeInv, [Next]_vars PROVE HandshakeInv'
    OBVIOUS
  <2>1. CASE Next
    BY <2>1, PushingHandshake, ServingHandshake, OthersHandshake DEF Next
  <2>2. CASE UNCHANGED vars
    BY <2>2 DEF vars, HandshakeInv, HubLeadsToPeer, InHand, Live
  <2> QED BY <2>1, <2>2
<1>3. TypeOK /\ HandshakeInv => NothingStrandedWhileOnline
  BY DEF HandshakeInv, InHand, NothingStrandedWhileOnline, TypeOK
<1> QED BY <1>1, <1>2, <1>3, TypeCorrect, PTL DEF Spec

-----------------------------------------------------------------------------
(* Reported stages and late connections.                                   *)

\* A report is scoped to the addressee's own commands (UpdateStatusForNode), so
\* reports that are retried, overtake each other or name another node's command
\* never put a row into a stage its agent did not enter.
THEOREM ReportsAreTrue == Spec => []ReportedStageWasEntered
<1> USE DEF TypeOK, ReportedStageWasEntered
<1>1. Init => ReportedStageWasEntered
  BY DEF Init, Stages
<1>2. TypeOK /\ ReportedStageWasEntered /\ [Next]_vars => ReportedStageWasEntered'
  <2> SUFFICES ASSUME TypeOK, ReportedStageWasEntered, [Next]_vars,
                      NEW d \in Cmd \ edited', phase'[d] \in Stages
               PROVE  phase'[d] \in stages'[d]
    BY DEF ReportedStageWasEntered
  <2>1. edited \subseteq edited' /\ stages[d] \subseteq stages'[d]
    BY DEF Next, vars, Pushing, Create, PushIfOnline, DecommissionCheck, DecommissionCreate, PushClaim,
         PushClaimError, SendCommand, Serving, Authenticate, HubRegister, LoadPending, LoadPendingError,
         WritePending, EnterReadLoop, ClaimPending, ClaimPendingError, AgentReceives, Drop, Disconnect,
         Polling, PollStart, PollClaim, PollError, PollReply, Status, AgentRuns, ReportStatus,
         UpdateStatus, DeleteCommand, Expire, Purging, ClearHistory, PurgeCommands, DeleteNodeRow
  <2>2. CASE phase'[d] = phase[d]
    BY <2>1, <2>2
  <2>3. ASSUME NEW c \in Cmd, Pushing(c) PROVE phase'[d] = phase[d]
    BY <2>3 DEF Pushing, Create, PushIfOnline, DecommissionCheck, DecommissionCreate, PushClaim,
         PushClaimError, SendCommand, ClaimForDelivery, Stages
  <2>4. ASSUME NEW k \in Conn, Serving(k) PROVE phase'[d] = phase[d]
    BY <2>4 DEF Serving, Authenticate, HubRegister, LoadPending, LoadPendingError,
         WritePending, EnterReadLoop, ClaimPending, ClaimPendingError, AgentReceives, Drop, Disconnect,
         ClaimForDelivery, Stages
  <2>5. ASSUME NEW p \in Poll, Polling(p) PROVE phase'[d] = phase[d]
    BY <2>5 DEF Polling, PollStart, PollClaim, PollError, PollReply, ClaimForDelivery, Stages
  <2>6. ASSUME NEW n \in Node, Purging(n) PROVE phase'[d] = phase[d]
    BY <2>6 DEF Purging, ClearHistory, PurgeCommands, DeleteNodeRow, Stages
  <2>7. ASSUME NEW c \in Cmd, Status(c) PROVE phase'[d] \in stages'[d]
    <3>1. ASSUME NEW n \in Node \cup Stranger, NEW s \in Stages, ReportStatus(n, c, s)
          PROVE  phase'[d] \in stages'[d]
      BY <2>2, <3>1 DEF ReportStatus, RowOfNode
    <3>2. ASSUME NEW s \in AdminPhases, UpdateStatus(c, s) PROVE phase'[d] = phase[d]
      BY <3>2 DEF UpdateStatus
    <3>3. (\E s \in Stages : AgentRuns(c, s)) \/ DeleteCommand(c) \/ Expire(c)
          => phase'[d] = phase[d]
      BY DEF AgentRuns, DeleteCommand, Expire, Stages
    <3> QED BY <2>2, <2>7, <3>1, <3>2, <3>3 DEF Status
  <2>8. CASE UNCHANGED vars
    BY <2>2, <2>8 DEF vars
  <2> QED BY <2>2, <2>3, <2>4, <2>5, <2>6, <2>7, <2>8 DEF Next
<1> QED BY <1>1, <1>2, TypeCorrect, PTL DEF Spec

\* A connection that authenticated after the decommission window closed is never
\* sent the teardown by sendPendingCommands.
THEOREM LateConnectionsSkipTeardown == Spec => []LateNodeSkipsTeardown
<1> USE DEF TypeOK
<1>1. Init => LateInv
  BY DEF Init, LateInv
<1>2. TypeOK /\ LateInv /\ [Next]_vars => LateInv'
  <2> SUFFICES ASSUME TypeOK, LateInv, [Next]_vars PROVE LateInv'
    OBVIOUS
  <2>1. CASE UNCHANGED <<serve, todo, out, late>> /\ expired \subseteq expired'
    BY <2>1 DEF LateInv
  <2>2. ASSUME NEW c \in Cmd, Pushing(c) PROVE LateInv'
    BY <2>1, <2>2 DEF Pushing, Create, PushIfOnline, DecommissionCheck, DecommissionCreate, PushClaim,
         PushClaimError, SendCommand
  <2>3. ASSUME NEW p \in Poll, Polling(p) PROVE LateInv'
    BY <2>1, <2>3 DEF Polling, PollStart, PollClaim, PollError, PollReply
  <2>4. ASSUME NEW c \in Cmd, Status(c) PROVE LateInv'
    BY <2>1, <2>4 DEF Status, AgentRuns, ReportStatus, UpdateStatus, DeleteCommand, Expire
  <2>5. ASSUME NEW n \in Node, Purging(n) PROVE LateInv'
    BY <2>1, <2>5 DEF Purging, ClearHistory, PurgeCommands, DeleteNodeRow
  <2>6. ASSUME NEW k \in Conn, Serving(k) PROVE LateInv'
    <3>1. ASSUME NEW n \in Node, Authenticate(k, n) PROVE LateInv'
      BY <3>1 DEF Authenticate, LateInv
    <3>2. CASE LoadPending(k)
      BY <3>2 DEF LoadPending, GetPending, LateInv
    <3>3. CASE WritePending(k)
      <4>1. /\ UNCHANGED <<late, expired>>
            /\ out' = [out EXCEPT ![k] = {}]
            /\ serve[k] = "claimed" /\ \E s \in {"loaded", "reading"} : serve' = [serve EXCEPT ![k] = s]
            /\ todo' = todo \/ todo' = [todo EXCEPT ![k] = {}]
        BY <3>3 DEF WritePending
      <4> QED BY <4>1 DEF LateInv
    <3>4. ASSUME NEW c \in Cmd, ClaimPending(k, c) PROVE LateInv'
      <4>1. CASE ClaimForDelivery(c)
        BY <3>4, <4>1 DEF ClaimPending, ClaimForDelivery, LateInv
      <4>2. CASE ~CanClaim(c)
        BY <3>4, <4>2 DEF ClaimPending, ClaimForDelivery, LateInv
      <4> QED BY <3>4, <4>1, <4>2 DEF ClaimPending
    <3>5. ASSUME NEW c \in Cmd, ClaimPendingError(k, c) PROVE LateInv'
      BY <3>5 DEF ClaimPendingError, LateInv
    <3>6. CASE HubRegister(k) \/ LoadPendingError(k) \/ EnterReadLoop(k) \/ Disconnect(k)
      <4>1. /\ UNCHANGED <<todo, out, late, expired>>
            /\ serve[k] # "new"
            /\ \E s \in ConnPC \ {"new"} : serve' = [serve EXCEPT ![k] = s]
        BY <3>6 DEF HubRegister, LoadPendingError, EnterReadLoop, Disconnect, ConnPC
      <4> QED BY <4>1 DEF LateInv
    <3>7. (\E c \in Cmd : AgentReceives(k, c)) \/ Drop(k) => LateInv'
      BY <2>1 DEF AgentReceives, Drop
    <3> QED BY <2>6, <3>1, <3>2, <3>3, <3>4, <3>5, <3>6, <3>7 DEF Serving
  <2>7. CASE UNCHANGED vars
    BY <2>1, <2>7 DEF vars
  <2> QED BY <2>2, <2>3, <2>4, <2>5, <2>6, <2>7 DEF Next
<1>3. LateInv => LateNodeSkipsTeardown
  BY DEF LateInv, LateNodeSkipsTeardown
<1> QED BY <1>1, <1>2, <1>3, TypeCorrect, PTL DEF Spec

=============================================================================
