------------------------------ MODULE AgentHub ------------------------------
(***************************************************************************)
(* The in-memory map of live agent connections (pkg/ws/hub.go, type Hub).  *)
(* Every operation runs under Hub.mu, so each is one atomic map operation. *)
(* A hub is a function from node ids to the connection stored for the node *)
(* or NoConn when the map has no entry.  UIHub is keyed by a fresh id per  *)
(* connection and is not used here.                                        *)
(***************************************************************************)
CONSTANTS Node,     \* node ids
          Conn,     \* WebSocket connections, one per run of HandleAgentWS
          NoConn    \* "no entry in the map"

ASSUME NoConnAssumption == NoConn \notin Conn

NewHub == [n \in Node |-> NoConn]

\* Register overwrites whatever connection the node had.
Register(h, n, k) == [h EXCEPT ![n] = k]

\* Unregister deletes by node id: it does not look at which connection the
\* entry holds, so it also removes a connection registered later.
Unregister(h, n) == [h EXCEPT ![n] = NoConn]

IsOnline(h, n) == h[n] # NoConn
=============================================================================
