----------------------------- MODULE NodeClaims -----------------------------
(***************************************************************************)
(* Claiming a node from a group, the protocol that POST /groups/:id/claim  *)
(* and POST /nodes/:id/release offer to controllers (NodeHandler.Claim,    *)
(* NodeHandler.Release, Store.ClaimNode, Store.ReleaseNode), and the other *)
(* writers of the same managed_nodes rows: group changes, deletions, and   *)
(* the handlers that read a whole row and Save it back (UpdateHeartbeat,   *)
(* SetLabels).                                                             *)
(*                                                                         *)
(* A step is one SQL statement.  A row is its group_id and claim_key;      *)
(* NoGroup is the empty group_id, which the unique index treats as any     *)
(* other value, and NoKey is NULL, which it ignores.                       *)
(***************************************************************************)
EXTENDS Naturals

CONSTANTS Node,       \* node ids
          Group,      \* group ids
          Key,        \* claim keys of callers
          Call,       \* concurrent POST .../claim requests
          Saver,      \* concurrent requests that Save a whole row
          NoGroup, NoKey

ASSUME ClaimAssumption ==
    /\ NoGroup \notin Group
    /\ NoKey \notin Key

VARIABLES
    groups,     \* node_groups rows
    rows,       \* managed_nodes rows
    born,       \* node ids ever given out: each is a fresh UUID
    group,      \* ManagedNode.GroupID
    claim,      \* ManagedNode.ClaimKey
    pc,         \* where a claim request stands
    from,       \* the group it claims from
    key,        \* its claim key
    todo,       \* candidates not yet tried
    saver,      \* the node a whole-row writer has read, as a set of at most one
    oldGroup,   \* the group_id it read
    oldClaim,   \* the claim_key it read
    granted,    \* history: <<g, k, n>> when a call (g, k) was given n, until
                \* k releases n or the node is moved or deleted
    clobbered,  \* history: nodes saved from a copy that was no longer the row
    moved       \* history: nodes an admin has moved to another group

rowVars == <<groups, rows, born, group, claim>>
callVars == <<pc, from, key, todo>>
saverVars == <<saver, oldGroup, oldClaim>>
audit == <<granted, clobbered, moved>>
vars == <<rowVars, callVars, saverVars, audit>>

CallPC == {"idle", "lookup", "snapshot", "loop", "duplicate"}
GroupOrNone == Group \cup {NoGroup}
KeyOrNone == Key \cup {NoKey}

\* Some nodes are registered, each in a group or in none, and unclaimed.
Init ==
    /\ groups = Group
    /\ rows \in SUBSET Node /\ born = rows
    /\ group \in {f \in [Node -> GroupOrNone] : \A n \in Node \ rows : f[n] = NoGroup}
    /\ claim = [n \in Node |-> NoKey]
    /\ pc = [x \in Call |-> "idle"]
    /\ from = [x \in Call |-> NoGroup]
    /\ key = [x \in Call |-> NoKey]
    /\ todo = [x \in Call |-> {}]
    /\ saver = [s \in Saver |-> {}]
    /\ oldGroup = [s \in Saver |-> NoGroup]
    /\ oldClaim = [s \in Saver |-> NoKey]
    /\ granted = {} /\ clobbered = {} /\ moved = {}

-----------------------------------------------------------------------------
(* The table.                                                              *)

\* Slip: the table has no unique index on (group_id, claim_key).
NoIndex(n, g, k) == FALSE

\* Writing (g, k) to row n breaks the unique index idx_node_group_claim.
Duplicate(n, g, k) ==
    k # NoKey /\ \E m \in rows \ {n} : group[m] = g /\ claim[m] = k

\* nodeClaimedByKey
ClaimedByKey(g, k) == {n \in rows : group[n] = g /\ claim[n] = k}

\* The rows that the UPDATE of ClaimNode matches: by id, still unclaimed.  The
\* group the caller asked for is not in the WHERE clause.
Claimable(n) == n \in rows /\ claim[n] = NoKey

\* Slip: WHERE id = ?
ClaimedByAnyone(n, k) == n \in rows

\* The rows that the UPDATE of ReleaseNode matches.
Releasable(n, k) == n \in rows /\ claim[n] = k

Finish(x) ==
    /\ pc' = [pc EXCEPT ![x] = "idle"]
    /\ from' = [from EXCEPT ![x] = NoGroup]
    /\ key' = [key EXCEPT ![x] = NoKey]
    /\ todo' = [todo EXCEPT ![x] = {}]

Answer(x, n) ==
    /\ Finish(x)
    /\ granted' = granted \cup {<<from[x], key[x], n>>}

-----------------------------------------------------------------------------
(* Claim.                                                                  *)

\* An unknown group is answered 404.
Claim(x, g, k) ==
    /\ pc[x] = "idle" /\ g \in groups
    /\ pc' = [pc EXCEPT ![x] = "lookup"]
    /\ from' = [from EXCEPT ![x] = g]
    /\ key' = [key EXCEPT ![x] = k]
    /\ UNCHANGED <<rowVars, todo, saverVars, audit>>

\* Replay: the key already owns a node of the group.
LookupFound(x) ==
    /\ pc[x] = "lookup"
    /\ \E n \in ClaimedByKey(from[x], key[x]) : Answer(x, n)
    /\ UNCHANGED <<rowVars, saverVars, clobbered, moved>>

LookupMissed(x) ==
    /\ pc[x] = "lookup"
    /\ ClaimedByKey(from[x], key[x]) = {}
    /\ pc' = [pc EXCEPT ![x] = "snapshot"]
    /\ UNCHANGED <<rowVars, from, key, todo, saverVars, audit>>

\* The candidates, tried in any order (the code tries the oldest first).
Snapshot(x) ==
    /\ pc[x] = "snapshot"
    /\ todo' = [todo EXCEPT ![x] = ClaimedByKey(from[x], NoKey)]
    /\ pc' = [pc EXCEPT ![x] = "loop"]
    /\ UNCHANGED <<rowVars, from, key, saverVars, audit>>

\* The UPDATE changed one row.
TryClaim(x, n) ==
    /\ pc[x] = "loop" /\ n \in todo[x]
    /\ Claimable(n) /\ ~Duplicate(n, group[n], key[x])
    /\ claim' = [claim EXCEPT ![n] = key[x]]
    /\ Answer(x, n)
    /\ UNCHANGED <<groups, rows, born, group, saverVars, clobbered, moved>>

\* It changed none: another caller took the node.
LoseRace(x, n) ==
    /\ pc[x] = "loop" /\ n \in todo[x]
    /\ ~Claimable(n)
    /\ todo' = [todo EXCEPT ![x] = @ \ {n}]
    /\ UNCHANGED <<rowVars, pc, from, key, saverVars, audit>>

\* The unique index rejected it: a concurrent call with the same key won.
HitIndex(x, n) ==
    /\ pc[x] = "loop" /\ n \in todo[x]
    /\ Claimable(n) /\ Duplicate(n, group[n], key[x])
    /\ pc' = [pc EXCEPT ![x] = "duplicate"]
    /\ todo' = [todo EXCEPT ![x] = {}]
    /\ UNCHANGED <<rowVars, from, key, saverVars, audit>>

\* The look-up after a rejected UPDATE or an exhausted snapshot: the node that
\* the key won elsewhere, an error, or 409 NoCapacity.
LookupAgain(x) ==
    /\ pc[x] = "duplicate" \/ (pc[x] = "loop" /\ todo[x] = {})
    /\ \/ \E n \in ClaimedByKey(from[x], key[x]) : Answer(x, n)
       \/ /\ ClaimedByKey(from[x], key[x]) = {}
          /\ Finish(x)
          /\ UNCHANGED granted
    /\ UNCHANGED <<rowVars, saverVars, clobbered, moved>>

\* A statement failed (the database is locked, the caller went away): 500.
ClaimError(x) ==
    /\ pc[x] # "idle"
    /\ Finish(x)
    /\ UNCHANGED <<rowVars, saverVars, audit>>

\* Release.  The handler's look at the row only chooses the answer; the UPDATE
\* decides.
Release(n, k) ==
    /\ Releasable(n, k)
    /\ claim' = [claim EXCEPT ![n] = NoKey]
    /\ granted' = {t \in granted : ~(t[2] = k /\ t[3] = n)}
    /\ UNCHANGED <<groups, rows, born, group, callVars, saverVars, clobbered, moved>>

-----------------------------------------------------------------------------
(* Other writers of the rows.                                              *)

\* NodeHandler.SetGroup: any group id, checked against nothing but the index.
SetGroup(n, g) ==
    /\ n \in rows /\ g # group[n]
    /\ ~Duplicate(n, g, claim[n])
    /\ group' = [group EXCEPT ![n] = g]
    /\ granted' = {t \in granted : t[3] # n}
    /\ moved' = moved \cup {n}
    /\ UNCHANGED <<groups, rows, born, claim, callVars, saverVars, clobbered>>

\* Store.Delete of a group detaches its nodes and keeps their claims, in one
\* transaction that the index can make fail.
DeleteGroup(g) ==
    /\ g \in groups
    /\ \A n \in rows : group[n] = g => ~Duplicate(n, NoGroup, claim[n])
    /\ groups' = groups \ {g}
    /\ group' = [n \in Node |-> IF n \in rows /\ group[n] = g THEN NoGroup ELSE group[n]]
    /\ granted' = {t \in granted : ~(t[3] \in rows /\ group[t[3]] = g)}
    /\ moved' = moved \cup {n \in rows : group[n] = g}
    /\ UNCHANGED <<rows, born, claim, callVars, saverVars, clobbered>>

\* Store.NodeDelete
DeleteNode(n) ==
    /\ n \in rows
    /\ rows' = rows \ {n}
    /\ claim' = [claim EXCEPT ![n] = NoKey]
    /\ granted' = {t \in granted : t[3] # n}
    /\ UNCHANGED <<groups, born, group, callVars, saverVars, clobbered, moved>>

\* NodeHandler.Register of a machine without a row.
RegisterNode(n) ==
    /\ n \notin born
    /\ born' = born \cup {n}
    /\ rows' = rows \cup {n}
    /\ UNCHANGED <<groups, group, claim, callVars, saverVars, audit>>

\* UpdateHeartbeat and SetLabels: First ...
ReadRow(s, n) ==
    /\ saver[s] = {} /\ n \in rows
    /\ saver' = [saver EXCEPT ![s] = {n}]
    /\ oldGroup' = [oldGroup EXCEPT ![s] = group[n]]
    /\ oldClaim' = [oldClaim EXCEPT ![s] = claim[n]]
    /\ UNCHANGED <<rowVars, callVars, audit>>

IsCurrent(n, g, k) == n \in rows /\ group[n] = g /\ claim[n] = k

\* ... then Save, which writes every column of the copy, inserts the row again
\* when it is gone, and fails on the index.
SaveRow(s) ==
    /\ \E n \in saver[s] :
       \/ /\ Duplicate(n, oldGroup[s], oldClaim[s])
          /\ UNCHANGED <<rowVars, clobbered>>
       \/ /\ ~Duplicate(n, oldGroup[s], oldClaim[s])
          /\ rows' = rows \cup {n}
          /\ group' = [group EXCEPT ![n] = oldGroup[s]]
          /\ claim' = [claim EXCEPT ![n] = oldClaim[s]]
          /\ clobbered' = IF IsCurrent(n, oldGroup[s], oldClaim[s])
                          THEN clobbered ELSE clobbered \cup {n}
          /\ UNCHANGED <<groups, born>>
    /\ saver' = [saver EXCEPT ![s] = {}]
    /\ oldGroup' = [oldGroup EXCEPT ![s] = NoGroup]
    /\ oldClaim' = [oldClaim EXCEPT ![s] = NoKey]
    /\ UNCHANGED <<callVars, granted, moved>>

-----------------------------------------------------------------------------
Claiming(x) ==
    \/ \E g \in Group, k \in Key : Claim(x, g, k)
    \/ LookupFound(x) \/ LookupMissed(x) \/ Snapshot(x)
    \/ \E n \in Node : TryClaim(x, n) \/ LoseRace(x, n) \/ HitIndex(x, n)
    \/ LookupAgain(x) \/ ClaimError(x)

Editing(n) ==
    \/ \E k \in Key : Release(n, k)
    \/ \E g \in GroupOrNone : SetGroup(n, g)
    \/ DeleteNode(n) \/ RegisterNode(n)

Saving(s) == SaveRow(s) \/ \E n \in Node : ReadRow(s, n)

Next ==
    \/ \E x \in Call : Claiming(x)
    \/ \E n \in Node : Editing(n)
    \/ \E g \in Group : DeleteGroup(g)
    \/ \E s \in Saver : Saving(s)

Spec == Init /\ [][Next]_vars

-----------------------------------------------------------------------------
TypeOK ==
    /\ groups \in SUBSET Group
    /\ rows \in SUBSET Node /\ born \in SUBSET Node
    /\ group \in [Node -> GroupOrNone]
    /\ claim \in [Node -> KeyOrNone]
    /\ pc \in [Call -> CallPC]
    /\ from \in [Call -> GroupOrNone]
    /\ key \in [Call -> KeyOrNone]
    /\ \A x \in Call : pc[x] # "idle" => from[x] \in Group /\ key[x] \in Key
    /\ todo \in [Call -> SUBSET Node]
    /\ saver \in [Saver -> SUBSET Node]
    /\ oldGroup \in [Saver -> GroupOrNone]
    /\ oldClaim \in [Saver -> KeyOrNone]
    /\ granted \in SUBSET (Group \X Key \X Node)
    /\ clobbered \in SUBSET Node /\ moved \in SUBSET Node

\* ClaimNode's promise to a controller: a node it was given stays marked with
\* its key until it releases it, so no other caller is given it (the conditional
\* UPDATEs of ClaimNode and ReleaseNode).  Only the Save of a stale copy of the
\* row can break the promise.
GrantIsHeld ==
    \A t \in granted : t[3] \notin clobbered => t[3] \in rows /\ claim[t[3]] = t[2]

\* Replaying a claim, also while the first call is still running, returns the
\* node the key already has (nodeClaimedByKey and the unique index), among nodes
\* that were not moved: a move between snapshot and UPDATE can give a key a
\* second node.
OneNodePerKey ==
    \A t, u \in granted :
        t[1] = u[1] /\ t[2] = u[2] /\ {t[3], u[3]} \cap (clobbered \cup moved) = {}
        => t[3] = u[3]

\* Why OneNodePerKey holds, as an inductive invariant: candidates, copies and
\* grants agree with the group of a row that was never moved, and the index
\* leaves a key one row per group.
PoolInv ==
    /\ \A x \in Call : \A n \in todo[x] :
          pc[x] = "loop" /\ (n \in moved \/ group[n] = from[x])
    /\ \A s \in Saver : \A n \in saver[s] : n \in born /\ (n \in moved \/ oldGroup[s] = group[n])
    /\ rows \subseteq born /\ \A n \in Node \ born : claim[n] = NoKey
    /\ \A t \in granted : t[3] \in moved \/ group[t[3]] = t[1]
    /\ \A n, m \in rows : claim[n] # NoKey /\ claim[n] = claim[m] /\ group[n] = group[m]
                          => n = m

\* "two callers never receive the same node" (Store.ClaimNode).
NeverTwoOwners == \A t, u \in granted : t[3] = u[3] => t[2] = u[2]
=============================================================================
