-------------------------- MODULE NodeClaimsProofs --------------------------
(***************************************************************************)
(* Proofs about NodeClaims for any number of nodes, groups, keys, claim    *)
(* requests and whole-row writers.                                         *)
(***************************************************************************)
EXTENDS NodeClaims, TLAPS

USE ClaimAssumption DEF rowVars, callVars, saverVars, audit, GroupOrNone, KeyOrNone, CallPC

-----------------------------------------------------------------------------
(* Type correctness.                                                       *)

\* A request that answers keeps the types, whatever it did to the claims.
LEMMA AnswerTypeOK ==
    ASSUME TypeOK, NEW x \in Call, NEW n \in Node, pc[x] # "idle", Answer(x, n),
           UNCHANGED <<groups, rows, born, group, saverVars, clobbered, moved>>,
           claim' \in [Node -> KeyOrNone]
    PROVE  TypeOK'
<1> USE DEF TypeOK
<1>1. <<from[x], key[x], n>> \in Group \X Key \X Node
  OBVIOUS
<1>2. granted' \in SUBSET (Group \X Key \X Node)
  BY <1>1 DEF Answer
<1> QED BY <1>2 DEF Answer, Finish

LEMMA ClaimingTypeOK ==
    ASSUME TypeOK, NEW x \in Call, Claiming(x)
    PROVE  TypeOK'
<1>1. ASSUME NEW g \in Group, NEW k \in Key, Claim(x, g, k) PROVE TypeOK'
  BY <1>1 DEF Claim, TypeOK
<1>2. CASE LookupFound(x)
  BY <1>2, AnswerTypeOK DEF LookupFound, ClaimedByKey, TypeOK
<1>3. CASE LookupMissed(x)
  BY <1>3 DEF LookupMissed, TypeOK
<1>4. CASE Snapshot(x)
  BY <1>4 DEF Snapshot, ClaimedByKey, TypeOK
<1>5. ASSUME NEW n \in Node, TryClaim(x, n) PROVE TypeOK'
  <2>1. claim' \in [Node -> KeyOrNone]
    BY <1>5 DEF TryClaim, TypeOK
  <2> QED BY <1>5, <2>1, AnswerTypeOK DEF TryClaim
<1>6. ASSUME NEW n \in Node, LoseRace(x, n) PROVE TypeOK'
  BY <1>6 DEF LoseRace, TypeOK
<1>7. ASSUME NEW n \in Node, HitIndex(x, n) PROVE TypeOK'
  BY <1>7 DEF HitIndex, TypeOK
<1>8. CASE LookupAgain(x)
  <2>1. ASSUME NEW n \in ClaimedByKey(from[x], key[x]), Answer(x, n) PROVE TypeOK'
    BY <1>8, <2>1, AnswerTypeOK DEF LookupAgain, ClaimedByKey, TypeOK
  <2>2. CASE Finish(x) /\ UNCHANGED granted
    BY <1>8, <2>2 DEF LookupAgain, Finish, TypeOK
  <2> QED BY <1>8, <2>1, <2>2 DEF LookupAgain
<1>9. CASE ClaimError(x)
  BY <1>9 DEF ClaimError, Finish, TypeOK
<1> QED BY <1>1, <1>2, <1>3, <1>4, <1>5, <1>6, <1>7, <1>8, <1>9 DEF Claiming

LEMMA EditingTypeOK ==
    ASSUME TypeOK, NEW n \in Node, Editing(n)
    PROVE  TypeOK'
<1> USE DEF TypeOK
<1>1. ASSUME NEW k \in Key, Release(n, k) PROVE TypeOK'
  BY <1>1 DEF Release
<1>2. ASSUME NEW g \in GroupOrNone, SetGroup(n, g) PROVE TypeOK'
  BY <1>2 DEF SetGroup
<1>3. CASE DeleteNode(n)
  BY <1>3 DEF DeleteNode
<1>4. CASE RegisterNode(n)
  BY <1>4 DEF RegisterNode
<1> QED BY <1>1, <1>2, <1>3, <1>4 DEF Editing

LEMMA SavingTypeOK ==
    ASSUME TypeOK, NEW s \in Saver, Saving(s)
    PROVE  TypeOK'
<1> USE DEF TypeOK
<1>1. ASSUME NEW n \in Node, ReadRow(s, n) PROVE TypeOK'
  BY <1>1 DEF ReadRow
<1>2. CASE SaveRow(s)
  BY <1>2 DEF SaveRow
<1> QED BY <1>1, <1>2 DEF Saving

\* Every column, request and copy keeps its type.
THEOREM ClaimsTypeCorrect == Spec => []TypeOK
<1>1. Init => TypeOK
  BY DEF Init, TypeOK
<1>2. TypeOK /\ [Next]_vars => TypeOK'
  <2> SUFFICES ASSUME TypeOK, [Next]_vars PROVE TypeOK'
    OBVIOUS
  <2>1. ASSUME NEW g \in Group, DeleteGroup(g) PROVE TypeOK'
    BY <2>1 DEF DeleteGroup, TypeOK
  <2>2. CASE UNCHANGED vars
    BY <2>2 DEF vars, TypeOK
  <2> QED BY <2>1, <2>2, ClaimingTypeOK, EditingTypeOK, SavingTypeOK DEF Next
<1> QED BY <1>1, <1>2, PTL DEF Spec

-----------------------------------------------------------------------------
(* A grant is held until it is given back.                                 *)

\* A request touches a claim only where there is none.
LEMMA ClaimingHeld ==
    ASSUME TypeOK, GrantIsHeld, NEW x \in Call, Claiming(x)
    PROVE  GrantIsHeld'
<1> USE DEF TypeOK, GrantIsHeld
<1>1. ASSUME NEW n \in ClaimedByKey(from[x], key[x]), Answer(x, n),
             UNCHANGED <<rowVars, clobbered>>
      PROVE  GrantIsHeld'
  BY <1>1 DEF Answer, ClaimedByKey
<1>2. ASSUME NEW n \in Node, TryClaim(x, n) PROVE GrantIsHeld'
  <2>1. \A t \in granted : t[2] \in Key /\ t[3] \in Node
    OBVIOUS
  <2>2. \A t \in granted : t[3] \notin clobbered => t[3] # n
    BY <1>2, <2>1 DEF TryClaim, Claimable
  <2>3. claim' = [claim EXCEPT ![n] = key[x]] /\ n \in rows
        /\ granted' = granted \cup {<<from[x], key[x], n>>}
        /\ UNCHANGED <<rows, clobbered>>
    BY <1>2 DEF TryClaim, Claimable, Answer
  <2> QED BY <2>1, <2>2, <2>3
<1>3. CASE UNCHANGED <<rows, claim, granted, clobbered>>
  BY <1>3
<1>4. CASE LookupFound(x)
  BY <1>1, <1>4 DEF LookupFound
<1>5. CASE LookupAgain(x)
  BY <1>1, <1>3, <1>5 DEF LookupAgain
<1> QED BY <1>2, <1>3, <1>4, <1>5
        DEF Claiming, Claim, LookupMissed, Snapshot, LoseRace, HitIndex, ClaimError

LEMMA EditingHeld ==
    ASSUME TypeOK, GrantIsHeld, NEW n \in Node, Editing(n)
    PROVE  GrantIsHeld'
<1> USE DEF TypeOK, GrantIsHeld
<1>1. ASSUME NEW k \in Key, Release(n, k) PROVE GrantIsHeld'
  BY <1>1 DEF Release, Releasable
<1>2. ASSUME NEW g \in GroupOrNone, SetGroup(n, g) PROVE GrantIsHeld'
  BY <1>2 DEF SetGroup
<1>3. CASE DeleteNode(n)
  BY <1>3 DEF DeleteNode
<1>4. CASE RegisterNode(n)
  BY <1>4 DEF RegisterNode
<1> QED BY <1>1, <1>2, <1>3, <1>4 DEF Editing

LEMMA SavingHeld ==
    ASSUME TypeOK, GrantIsHeld, NEW s \in Saver, Saving(s)
    PROVE  GrantIsHeld'
<1> USE DEF TypeOK, GrantIsHeld
<1>1. ASSUME NEW n \in Node, ReadRow(s, n) PROVE GrantIsHeld'
  BY <1>1 DEF ReadRow
<1>2. CASE SaveRow(s)
  BY <1>2 DEF SaveRow, IsCurrent
<1> QED BY <1>1, <1>2 DEF Saving

\* Whatever claims, releases, moves and deletions run concurrently, a node given
\* to a key keeps that key until the key releases it, the node is moved or
\* deleted, or a stale copy of the row is saved over it.
THEOREM GrantsAreHeld == Spec => []GrantIsHeld
<1>1. Init => GrantIsHeld
  BY DEF Init, GrantIsHeld
<1>2. TypeOK /\ GrantIsHeld /\ [Next]_vars => GrantIsHeld'
  <2> SUFFICES ASSUME TypeOK, GrantIsHeld, [Next]_vars PROVE GrantIsHeld'
    OBVIOUS
  <2>1. ASSUME NEW g \in Group, DeleteGroup(g) PROVE GrantIsHeld'
    BY <2>1 DEF DeleteGroup, GrantIsHeld
  <2>2. CASE UNCHANGED vars
    BY <2>2 DEF vars, GrantIsHeld
  <2> QED BY <2>1, <2>2, ClaimingHeld, EditingHeld, SavingHeld DEF Next
<1> QED BY <1>1, <1>2, ClaimsTypeCorrect, PTL DEF Spec

-----------------------------------------------------------------------------
(* One node per key.                                                       *)

LEMMA ClaimingPool ==
    ASSUME TypeOK, PoolInv, NEW x \in Call, Claiming(x)
    PROVE  PoolInv'
<1> USE DEF TypeOK, PoolInv
<1>1. ASSUME NEW n \in ClaimedByKey(from[x], key[x]), Answer(x, n),
             UNCHANGED <<rowVars, saverVars, moved>>
      PROVE  PoolInv'
  BY <1>1 DEF Answer, Finish, ClaimedByKey
<1>2. ASSUME Finish(x), UNCHANGED <<rowVars, saverVars, granted, moved>> PROVE PoolInv'
  BY <1>2 DEF Finish
<1>3. ASSUME NEW g \in Group, NEW k \in Key, Claim(x, g, k) PROVE PoolInv'
  BY <1>3 DEF Claim
<1>4. CASE LookupMissed(x)
  BY <1>4 DEF LookupMissed
<1>5. CASE Snapshot(x)
  BY <1>5 DEF Snapshot, ClaimedByKey
<1>6. ASSUME NEW n \in Node, TryClaim(x, n) PROVE PoolInv'
  <2>1. /\ claim' = [claim EXCEPT ![n] = key[x]]
        /\ todo' = [todo EXCEPT ![x] = {}] /\ from' = [from EXCEPT ![x] = NoGroup]
        /\ granted' = granted \cup {<<from[x], key[x], n>>}
        /\ UNCHANGED <<rows, group, saver, oldGroup, moved>>
    BY <1>6 DEF TryClaim, Answer, Finish
  <2>2. n \in todo[x] /\ ~Duplicate(n, group[n], key[x])
    BY <1>6 DEF TryClaim
  <2>3. \A y \in Call : \A m \in todo'[y] :
           pc'[y] = "loop" /\ (m \in moved' \/ group'[m] = from'[y])
    BY <1>6, <2>1 DEF TryClaim, Answer, Finish
  <2>4. \A t \in granted' : t[3] \in moved' \/ group'[t[3]] = t[1]
    BY <2>1, <2>2
  <2>5. ASSUME NEW m \in rows', NEW l \in rows', claim'[m] # NoKey, claim'[m] = claim'[l],
               group'[m] = group'[l]
        PROVE  m = l
    BY <2>1, <2>2, <2>5 DEF Duplicate
  <2>6. UNCHANGED born /\ n \in rows
    BY <1>6 DEF TryClaim, Claimable
  <2> QED BY <2>1, <2>3, <2>4, <2>5, <2>6
<1>7. ASSUME NEW n \in Node, LoseRace(x, n) PROVE PoolInv'
  BY <1>7 DEF LoseRace
<1>8. ASSUME NEW n \in Node, HitIndex(x, n) PROVE PoolInv'
  BY <1>8 DEF HitIndex
<1> QED BY <1>1, <1>2, <1>3, <1>4, <1>5, <1>6, <1>7, <1>8
        DEF Claiming, LookupFound, LookupAgain, ClaimError

LEMMA EditingPool ==
    ASSUME TypeOK, PoolInv, NEW n \in Node, Editing(n)
    PROVE  PoolInv'
<1> USE DEF TypeOK, PoolInv
<1>1. ASSUME NEW k \in Key, Release(n, k) PROVE PoolInv'
  BY <1>1 DEF Release
<1>2. CASE DeleteNode(n)
  BY <1>2 DEF DeleteNode
<1>3. CASE RegisterNode(n)
  BY <1>3 DEF RegisterNode
<1>4. ASSUME NEW g \in GroupOrNone, SetGroup(n, g) PROVE PoolInv'
  <2>1. /\ moved' = moved \cup {n}
        /\ group' = [group EXCEPT ![n] = g]
        /\ granted' \subseteq granted
        /\ UNCHANGED <<rows, born, claim, callVars, saverVars>>
    BY <1>4 DEF SetGroup
  <2>2. ASSUME NEW m \in rows', NEW l \in rows', claim'[m] # NoKey, claim'[m] = claim'[l],
               group'[m] = group'[l]
        PROVE  m = l
    BY <1>4, <2>1, <2>2 DEF SetGroup, Duplicate
  <2> QED BY <2>1, <2>2
<1> QED BY <1>1, <1>2, <1>3, <1>4 DEF Editing

\* Detaching the nodes of a group moves them; the index keeps a key from having
\* two rows without a group.
LEMMA DeleteGroupPool ==
    ASSUME TypeOK, PoolInv, NEW g \in Group, DeleteGroup(g)
    PROVE  PoolInv'
<1> USE DEF TypeOK, PoolInv
<1>1. /\ moved' = moved \cup {n \in rows : group[n] = g}
      /\ group' = [n \in Node |-> IF n \in rows /\ group[n] = g THEN NoGroup ELSE group[n]]
      /\ granted' \subseteq granted
      /\ UNCHANGED <<rows, born, claim, callVars, saverVars>>
  BY DEF DeleteGroup
<1>2. \A n \in Node : n \in moved' \/ group'[n] = group[n]
  BY <1>1
<1>3. \A x \in Call : \A n \in todo'[x] :
         pc'[x] = "loop" /\ (n \in moved' \/ group'[n] = from'[x])
  BY <1>1, <1>2
<1>4. \A s \in Saver : \A n \in saver'[s] :
         n \in born' /\ (n \in moved' \/ oldGroup'[s] = group'[n])
  BY <1>1, <1>2
<1>5. \A t \in granted' : t[3] \in moved' \/ group'[t[3]] = t[1]
  <2> SUFFICES ASSUME NEW t \in granted' PROVE t[3] \in moved' \/ group'[t[3]] = t[1]
    OBVIOUS
  <2>1. t \in granted /\ t[3] \in Node
    BY <1>1
  <2> QED BY <1>1, <1>2, <2>1
<1>6. ASSUME NEW m \in rows', NEW l \in rows', claim'[m] # NoKey, claim'[m] = claim'[l],
             group'[m] = group'[l]
      PROVE  m = l
  <2>1. m \in rows /\ l \in rows /\ claim[m] # NoKey /\ claim[m] = claim[l]
    BY <1>1, <1>6
  <2>2. CASE group[m] = g /\ group[l] # g
    BY <1>1, <1>6, <2>1, <2>2 DEF DeleteGroup, Duplicate
  <2>3. CASE group[m] # g /\ group[l] = g
    BY <1>1, <1>6, <2>1, <2>3 DEF DeleteGroup, Duplicate
  <2>4. CASE (group[m] = g) <=> (group[l] = g)
    BY <1>1, <1>6, <2>1, <2>4
  <2> QED BY <2>2, <2>3, <2>4
<1>7. rows' \subseteq born' /\ \A n \in Node \ born' : claim'[n] = NoKey
  BY <1>1
<1>8. \A m, l \in rows' : claim'[m] # NoKey /\ claim'[m] = claim'[l] /\ group'[m] = group'[l]
                        => m = l
  BY <1>6
<1> QED BY <1>3, <1>4, <1>5, <1>7, <1>8

LEMMA SavingPool ==
    ASSUME TypeOK, PoolInv, NEW s \in Saver, Saving(s)
    PROVE  PoolInv'
<1> USE DEF TypeOK, PoolInv
<1>1. ASSUME NEW n \in Node, ReadRow(s, n) PROVE PoolInv'
  BY <1>1 DEF ReadRow
<1>2. ASSUME NEW n \in saver[s], SaveRow(s) PROVE PoolInv'
  BY <1>2 DEF SaveRow, Duplicate
<1> QED BY <1>1, <1>2 DEF Saving, SaveRow

\* Among nodes that no admin has moved and no stale Save has overwritten,
\* replaying a claim never hands the key a second node of the group, however the
\* calls overlap.
THEOREM ReplayReturnsTheSameNode == Spec => []OneNodePerKey
<1>1. Init => PoolInv
  BY DEF Init, PoolInv
<1>2. TypeOK /\ PoolInv /\ [Next]_vars => PoolInv'
  <2> SUFFICES ASSUME TypeOK, PoolInv, [Next]_vars PROVE PoolInv'
    OBVIOUS
  <2>1. CASE UNCHANGED vars
    BY <2>1 DEF vars, PoolInv
  <2> QED BY <2>1, ClaimingPool, EditingPool, DeleteGroupPool, SavingPool DEF Next
<1>3. TypeOK /\ GrantIsHeld /\ PoolInv => OneNodePerKey
  <2> SUFFICES ASSUME TypeOK, GrantIsHeld, PoolInv, NEW t \in granted, NEW u \in granted,
                      t[1] = u[1], t[2] = u[2],
                      {t[3], u[3]} \cap (clobbered \cup moved) = {}
               PROVE  t[3] = u[3]
    BY DEF OneNodePerKey
  <2>1. t[3] \in rows /\ u[3] \in rows /\ claim[t[3]] = t[2] /\ claim[u[3]] = u[2]
    BY DEF GrantIsHeld
  <2>2. group[t[3]] = group[u[3]] /\ t[2] # NoKey
    BY DEF PoolInv, TypeOK
  <2> QED BY <2>1, <2>2 DEF PoolInv
<1> QED BY <1>1, <1>2, <1>3, ClaimsTypeCorrect, GrantsAreHeld, PTL DEF Spec
=============================================================================
