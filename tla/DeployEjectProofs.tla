------------------------- MODULE DeployEjectProofs -------------------------
(***************************************************************************)
(* Proofs about DeployEject for any number of deployments, nodes and       *)
(* finalize goroutines, any BMC links and any number of restarts.          *)
(***************************************************************************)
EXTENDS DeployEject, TLAPS

USE DeployAssumption DEF rowVars, finVars, histVars, JobPC, FinPC

LEMMA States ==
    /\ {"none", "Active", "Completed", "Failed"} \subseteq Statuses
    /\ {"unset", "pending", "ejecting", "ejected", "eject-failed"} \subseteq EjectStates
BY DEF Statuses, EjectStates
USE States

-----------------------------------------------------------------------------
(* Type correctness.                                                       *)

LEMMA ManualFromLen == Len(ManualFrom) = 4
BY DEF ManualFrom

\* No claim of the manual path starts from ejecting.
LEMMA ManualFromResting ==
    ASSUME NEW i \in Nat, i < Len(ManualFrom)
    PROVE  ManualFrom[i + 1] # "ejecting"
<1>1. i \in {0, 1, 2, 3}
  BY ManualFromLen
<1> QED BY <1>1 DEF ManualFrom

\* A copy of a row is a row.
LEMMA RowOfType ==
    ASSUME TypeOK, NEW d \in Dep
    PROVE  RowOf(d) \in Row
BY DEF TypeOK, RowOf, Row

LEMMA NoRowType == NoRow \in Row
BY DEF NoRow, Row

LEMMA CopyType ==
    ASSUME TypeOK, NEW w \in Dep \cup Fin
    PROVE  /\ copy[w].status \in Statuses
           /\ copy[w].eject \in EjectStates
           /\ copy[w].node \in Node \cup {NoNode}
BY DEF TypeOK, Row

LEMMA SaveType ==
    ASSUME TypeOK, NEW w, NEW d \in Dep, NEW s \in Statuses, NEW e \in EjectStates,
           NEW n \in Node \cup {NoNode}, Save(w, d, s, e, n)
    PROVE  /\ status' \in [Dep -> Statuses] /\ eject' \in [Dep -> EjectStates]
           /\ nodeOf' \in [Dep -> Node \cup {NoNode}]
           /\ overruled' \in SUBSET Dep
BY DEF TypeOK, Save, SetEject

LEMMA LeaveType ==
    ASSUME TypeOK, NEW f \in Fin, Leave(f)
    PROVE  /\ fin' \in [Fin -> FinPC]
           /\ caller' \in [Fin -> Node \cup {NoNode}]
           /\ outcome' \in [Fin -> EjectStates]
           /\ tries' \in [Fin -> Nat]
           /\ copy' \in [Dep \cup Fin -> Row]
BY NoRowType DEF TypeOK, Leave

LEMMA DeployingType ==
    ASSUME TypeOK, NEW d \in Dep, Deploying(d)
    PROVE  TypeOK'
<1>1. CASE DeployRedfish(d)
  BY <1>1 DEF DeployRedfish, TypeOK
<1>2. ASSUME NEW what \in {"progress", "complete", "fail"}, JobRead(d, what) PROVE TypeOK'
  BY <1>2, RowOfType DEF JobRead, TypeOK
<1>3. CASE JobSave(d)
  <2>1. PICK s \in Statuses : Save(d, d, s, copy[d].eject, copy[d].node)
    BY <1>3, CopyType DEF JobSave
  <2>2. job' \in [Dep -> JobPC]
    BY <1>3 DEF JobSave, TypeOK
  <2>3. copy' \in [Dep \cup Fin -> Row]
    BY <1>3, NoRowType DEF JobSave, TypeOK
  <2>4. /\ status' \in [Dep -> Statuses] /\ eject' \in [Dep -> EjectStates]
        /\ nodeOf' \in [Dep -> Node \cup {NoNode}]
        /\ overruled' \in SUBSET Dep
    <3>1. copy[d].eject \in EjectStates /\ copy[d].node \in Node \cup {NoNode}
      BY CopyType
    <3> QED BY <2>1, <3>1, SaveType
  <2> QED BY <1>3, <2>2, <2>3, <2>4 DEF JobSave, TypeOK
<1>4. ASSUME NEW next \in {"completed", "done"}, JobStoreError(d, next) PROVE TypeOK'
  BY <1>4 DEF JobStoreError, TypeOK
<1>5. CASE ArmRead(d)
  BY <1>5, RowOfType DEF ArmRead, TypeOK
<1>6. CASE ArmSave(d)
  <2>1. /\ status' \in [Dep -> Statuses] /\ eject' \in [Dep -> EjectStates]
        /\ nodeOf' \in [Dep -> Node \cup {NoNode}]
        /\ overruled' \in SUBSET Dep
    <3>1. copy[d].status \in Statuses /\ copy[d].node \in Node \cup {NoNode}
      BY CopyType
    <3>2. Save(d, d, copy[d].status, "pending", copy[d].node)
      BY <1>6 DEF ArmSave
    <3> QED BY <3>1, <3>2, SaveType
  <2> QED BY <1>6, <2>1, NoRowType DEF ArmSave, TypeOK
<1>7. CASE Age(d)
  BY <1>7 DEF Age, TypeOK
<1> QED BY <1>1, <1>2, <1>3, <1>4, <1>5, <1>6, <1>7 DEF Deploying

LEMMA StartingType ==
    ASSUME TypeOK, NEW f \in Fin,
           \/ \E n \in Node : PhoneHome(f, n)
           \/ \E d \in Dep : FinalizeDeployment(f, d)
    PROVE  TypeOK'
<1>1. ASSUME NEW n \in Node, PhoneHome(f, n) PROVE TypeOK'
  <2>1. PICK d \in Dep : dep' = [dep EXCEPT ![f] = d] /\ copy' = [copy EXCEPT ![f] = RowOf(d)]
    BY <1>1 DEF PhoneHome, correlateDeployment, LinkedTo, Pending
  <2> QED BY <1>1, <2>1, RowOfType DEF PhoneHome, TypeOK
<1>2. ASSUME NEW d \in Dep, FinalizeDeployment(f, d) PROVE TypeOK'
  BY <1>2 DEF FinalizeDeployment, TypeOK
<1> QED BY <1>1, <1>2

LEMMA WorkingType ==
    ASSUME TypeOK, NEW f \in Fin, Working(f) \/ Timeout(f) \/ GiveUp(f)
    PROVE  TypeOK'
<1>0. dep[f] \in Dep
  BY DEF TypeOK
<1>1. CASE AutoClaim(f)
  <2>1. CASE Leave(f) /\ UNCHANGED eject
    BY <1>1, <2>1, LeaveType DEF AutoClaim, TypeOK
  <2>2. CASE Matches(dep[f], "pending")
    <3>1. [status |-> copy[f].status, eject |-> "ejecting", node |-> caller[f]] \in Row
      BY CopyType DEF TypeOK, Row
    <3>2. copy' \in [Dep \cup Fin -> Row]
      BY <1>1, <2>2, <3>1 DEF AutoClaim, TypeOK
    <3>3. fin' \in [Fin -> FinPC] /\ eject' \in [Dep -> EjectStates]
      BY <1>0, <1>1, <2>2 DEF AutoClaim, SetEject, TypeOK
    <3> QED BY <1>1, <2>2, <3>2, <3>3 DEF AutoClaim, TypeOK
  <2> QED BY <1>1, <2>1, <2>2 DEF AutoClaim
<1>2. CASE AutoLink(f)
  <2>1. CASE Save(f, dep[f], copy[f].status, "ejecting", copy[f].node)
    <3>1. /\ status' \in [Dep -> Statuses] /\ eject' \in [Dep -> EjectStates]
          /\ nodeOf' \in [Dep -> Node \cup {NoNode}]
          /\ overruled' \in SUBSET Dep
      <4>1. copy[f].status \in Statuses /\ copy[f].node \in Node \cup {NoNode}
        BY CopyType
      <4> QED BY <1>0, <2>1, <4>1, SaveType
    <3> QED BY <1>2, <3>1 DEF AutoLink, TypeOK
  <2>2. CASE UNCHANGED <<status, eject, nodeOf, overruled>>
    BY <1>2, <2>2 DEF AutoLink, TypeOK
  <2> QED BY <1>2, <2>1, <2>2 DEF AutoLink
<1>3. CASE ManualTry(f)
  BY <1>0, <1>3, ManualFromLen DEF ManualTry, SetEject, TypeOK
<1>4. CASE ManualConflict(f)
  BY <1>4, LeaveType DEF ManualConflict, TypeOK
<1>5. ASSUME NEW o \in {"ejected", "eject-failed"}, EndSession(f, o) PROVE TypeOK'
  BY <1>5 DEF EndSession, TypeOK
<1>6. CASE Mark(f)
  <2>1. CASE Leave(f) /\ UNCHANGED eject
    BY <1>6, <2>1, LeaveType DEF Mark, TypeOK
  <2>2. CASE Matches(dep[f], "ejecting")
    BY <1>0, <1>6, <2>2 DEF Mark, SetEject, TypeOK
  <2> QED BY <1>6, <2>1, <2>2 DEF Mark
<1>7. CASE MarkRead(f)
  BY <1>0, <1>7, RowOfType DEF MarkRead, TypeOK
<1>8. CASE MarkSave(f)
  <2>1. /\ status' \in [Dep -> Statuses] /\ eject' \in [Dep -> EjectStates]
        /\ nodeOf' \in [Dep -> Node \cup {NoNode}]
        /\ overruled' \in SUBSET Dep
    <3>1. /\ copy[f].status \in Statuses /\ copy[f].eject \in EjectStates
          /\ copy[f].node \in Node \cup {NoNode}
      BY CopyType
    <3>2. Save(f, dep[f], copy[f].status, copy[f].eject, copy[f].node)
      BY <1>8 DEF MarkSave
    <3> QED BY <1>0, <3>1, <3>2, SaveType
  <2> QED BY <1>8, <2>1, LeaveType DEF MarkSave, TypeOK
<1>9. CASE Timeout(f)
  BY <1>0, <1>9, LeaveType DEF Timeout, TypeOK
<1>10. CASE GiveUp(f)
  BY <1>10, LeaveType DEF GiveUp, TypeOK
<1> QED BY <1>1, <1>2, <1>3, <1>4, <1>5, <1>6, <1>7, <1>8, <1>9, <1>10 DEF Working

LEMMA RestartType ==
    ASSUME TypeOK, Restart
    PROVE  TypeOK'
<1>1. PICK done \in SUBSET Dep, at \in {{}} \cup {{d} : d \in Dep} :
        /\ ReconcileEject(done \cup at)
        /\ status' = [d \in Dep |-> IF d \in done /\ status[d] = "Active" THEN "Failed" ELSE status[d]]
        /\ old' = {d \in old : d \in done => status[d] # "Active"}
        /\ abandoned' = {d \in Dep \ (done \cup at) : eject[d] = "ejecting"}
  BY DEF Restart
<1>2. /\ status' \in [Dep -> Statuses] /\ eject' \in [Dep -> EjectStates]
      /\ old' \in SUBSET Dep /\ abandoned' \in SUBSET Dep
  BY <1>1 DEF ReconcileEject, TypeOK
<1> QED BY <1>2, NoRowType DEF Restart, TypeOK

\* Every row, copy and goroutine keeps its type.
THEOREM EjectTypeCorrect == Spec => []TypeOK
<1>1. Init => TypeOK
  BY NoRowType DEF Init, TypeOK
<1>2. TypeOK /\ [Next]_vars => TypeOK'
  <2> SUFFICES ASSUME TypeOK, [Next]_vars PROVE TypeOK'
    OBVIOUS
  <2>1. CASE Next
    BY <2>1, DeployingType, StartingType, WorkingType, RestartType DEF Next, Finalizing
  <2>2. CASE UNCHANGED vars
    BY <2>2 DEF vars, TypeOK
  <2> QED BY <2>1, <2>2
<1> QED BY <1>1, <1>2, PTL DEF Spec

-----------------------------------------------------------------------------
(* Finalizers are kept apart.                                              *)

\* A Save that keeps the finalizers where they are keeps the invariant, when a
\* copy that says ejecting is Saved only as it was read.
LEMMA SaveKeeps ==
    ASSUME TypeOK, EjectInv, NEW w \in Dep \cup Fin, NEW d \in Dep, NEW s, NEW e, NEW n,
           Save(w, d, s, e, n), e = "ejecting" => copy[w].eject = "ejecting",
           UNCHANGED <<dep, abandoned>>, fin' \in [Fin -> FinPC],
           \A f \in Fin : InFlight(f)' <=> InFlight(f)
    PROVE  OneFinalizer' /\ EjectingIsOwned'
<1>1. \A c \in Dep : c \notin overruled' =>
          /\ c \notin overruled
          /\ eject'[c] = "ejecting" <=> eject[c] = "ejecting"
  BY DEF Save, SetEject, TypeOK
<1>2. OneFinalizer'
  <2> SUFFICES ASSUME NEW f \in Fin, NEW g \in Fin, InFlight(f)', dep'[f] \notin overruled'
               PROVE  /\ eject'[dep'[f]] = "ejecting"
                      /\ InFlight(g)' /\ dep'[g] = dep'[f] => f = g
    BY DEF OneFinalizer
  <2>1. InFlight(f) /\ dep[f] \in Dep /\ dep[f] \notin overruled
    BY <1>1 DEF TypeOK
  <2> QED BY <1>1, <2>1 DEF EjectInv, OneFinalizer
<1>3. EjectingIsOwned'
  <2> SUFFICES ASSUME NEW c \in Dep, c \notin abandoned' \cup overruled', eject'[c] = "ejecting"
               PROVE  \E f \in Fin : InFlight(f)' /\ dep'[f] = c
    BY DEF EjectingIsOwned
  <2> QED BY <1>1 DEF EjectInv, EjectingIsOwned
<1> QED BY <1>2, <1>3

\* A step that touches neither EjectState nor the claim of any finalizer.
LEMMA QuietKeeps ==
    ASSUME TypeOK, EjectInv, UNCHANGED <<eject, overruled, abandoned>>,
           \A f \in Fin : InFlight(f)' <=> InFlight(f),
           \A f \in Fin : InFlight(f) => dep'[f] = dep[f]
    PROVE  OneFinalizer' /\ EjectingIsOwned'
BY DEF EjectInv, OneFinalizer, EjectingIsOwned

\* A finalizer claims a deployment that is not ejecting.
LEMMA ClaimKeeps ==
    ASSUME TypeOK, EjectInv, NEW f \in Fin, ~InFlight(f), eject[dep[f]] # "ejecting",
           eject' = [eject EXCEPT ![dep[f]] = "ejecting"],
           UNCHANGED <<dep, overruled, abandoned>>, InFlight(f)',
           \A g \in Fin \ {f} : InFlight(g)' <=> InFlight(g)
    PROVE  OneFinalizer' /\ EjectingIsOwned'
<1>1. dep[f] \in Dep
  BY DEF TypeOK
<1>2. \A g \in Fin : InFlight(g) /\ dep[g] \notin overruled => dep[g] # dep[f]
  BY DEF EjectInv, OneFinalizer
<1>3. OneFinalizer'
  BY <1>1, <1>2 DEF EjectInv, OneFinalizer, TypeOK
<1>4. EjectingIsOwned'
  BY <1>1 DEF EjectInv, EjectingIsOwned, TypeOK
<1> QED BY <1>3, <1>4

\* A finalizer stops working on a deployment that is not ejecting any more, was
\* never claimed by it, or is given up.
LEMMA EndKeeps ==
    ASSUME TypeOK, EjectInv, NEW f \in Fin, ~InFlight(f)',
           eject' \in [Dep -> EjectStates],
           \A d \in Dep \ {dep[f]} : eject'[d] = eject[d],
           InFlight(f) => eject'[dep[f]] # "ejecting" \/ dep[f] \in abandoned',
           eject'[dep[f]] # eject[dep[f]] => InFlight(f) /\ eject'[dep[f]] # "ejecting",
           UNCHANGED <<dep, overruled>>, abandoned \subseteq abandoned',
           \A g \in Fin \ {f} : InFlight(g)' <=> InFlight(g)
    PROVE  OneFinalizer' /\ EjectingIsOwned'
<1>1. dep[f] \in Dep
  BY DEF TypeOK
<1>2. OneFinalizer'
  <2> SUFFICES ASSUME NEW g \in Fin, NEW h \in Fin, InFlight(g)', dep[g] \notin overruled
               PROVE  /\ eject'[dep[g]] = "ejecting"
                      /\ InFlight(h)' /\ dep[h] = dep[g] => g = h
    BY DEF OneFinalizer
  <2>1. InFlight(g) /\ g # f /\ dep[g] \in Dep
    BY DEF TypeOK
  <2>2. eject[dep[g]] = "ejecting"
    BY <2>1 DEF EjectInv, OneFinalizer
  <2>3. InFlight(f) => dep[f] # dep[g]
    BY <2>1 DEF EjectInv, OneFinalizer
  <2>4. eject'[dep[g]] = "ejecting"
    BY <1>1, <2>1, <2>2, <2>3
  <2>5. InFlight(h)' /\ dep[h] = dep[g] => g = h
    BY <2>1 DEF EjectInv, OneFinalizer
  <2> QED BY <2>4, <2>5
<1>3. EjectingIsOwned'
  <2> SUFFICES ASSUME NEW d \in Dep, d \notin abandoned' \cup overruled, eject'[d] = "ejecting"
               PROVE  \E g \in Fin : InFlight(g)' /\ dep[g] = d
    BY DEF EjectingIsOwned
  <2>1. eject[d] = "ejecting"
    BY <1>1
  <2>2. PICK g \in Fin : InFlight(g) /\ dep[g] = d
    BY <2>1 DEF EjectInv, EjectingIsOwned
  <2>3. g # f
    BY <2>2
  <2> QED BY <2>2, <2>3
<1> QED BY <1>2, <1>3

\* The other two conjuncts of EjectInv.
Fits == /\ \A f \in Fin : fin[f] = "link" => copy[f].eject = "ejecting"
        /\ \A f \in Fin : fin[f] = "mark" => outcome[f] \in {"ejected", "eject-failed"}

LEMMA DeployingKeeps ==
    ASSUME TypeOK, EjectInv, NEW d \in Dep, Deploying(d)
    PROVE  EjectInv'
<1>1. \A f \in Fin : copy'[f] = copy[f]
  BY DEF Deploying, DeployRedfish, JobRead, JobSave, JobStoreError, ArmRead, ArmSave, Age, TypeOK
<1>2. UNCHANGED <<finVars, abandoned>>
  BY DEF Deploying, DeployRedfish, JobRead, JobSave, JobStoreError, ArmRead, ArmSave, Age
<1>3. Fits'
  BY <1>1, <1>2 DEF EjectInv, Fits
<1>4. OneFinalizer' /\ EjectingIsOwned'
  <2>1. CASE JobSave(d)
    <3>1. PICK s : Save(d, d, s, copy[d].eject, copy[d].node)
      BY <2>1 DEF JobSave
    <3> QED BY <1>2, <3>1, SaveKeeps DEF InFlight, TypeOK
  <2>2. CASE ArmSave(d)
    <3>1. Save(d, d, copy[d].status, "pending", copy[d].node)
      BY <2>2 DEF ArmSave
    <3>2. /\ UNCHANGED <<dep, abandoned>> /\ fin' \in [Fin -> FinPC]
          /\ \A f \in Fin : InFlight(f)' <=> InFlight(f)
      BY <1>2 DEF finVars, InFlight, TypeOK
    <3> QED BY <3>1, <3>2, SaveKeeps
  <2>3. CASE ~JobSave(d) /\ ~ArmSave(d)
    <3>1. UNCHANGED <<eject, overruled>>
      BY <2>3 DEF Deploying, DeployRedfish, JobRead, JobStoreError, ArmRead, Age
    <3> QED BY <1>2, <3>1, QuietKeeps DEF InFlight
  <2> QED BY <2>1, <2>2, <2>3
<1> QED BY <1>3, <1>4 DEF EjectInv, Fits

LEMMA StartingKeeps ==
    ASSUME TypeOK, EjectInv, NEW f \in Fin,
           \/ \E n \in Node : PhoneHome(f, n)
           \/ \E d \in Dep : FinalizeDeployment(f, d)
    PROVE  EjectInv'
<1>1. PICK d \in Dep : dep' = [dep EXCEPT ![f] = d]
  BY DEF PhoneHome, FinalizeDeployment, correlateDeployment, LinkedTo, Pending
<1>2. /\ fin[f] = "idle" /\ fin' \in [Fin -> FinPC] /\ fin'[f] \in {"listed", "trying"}
      /\ \A g \in Fin \ {f} : fin'[g] = fin[g] /\ copy'[g] = copy[g]
      /\ UNCHANGED <<eject, outcome, overruled, abandoned>>
  BY DEF PhoneHome, FinalizeDeployment, TypeOK
<1>3. OneFinalizer' /\ EjectingIsOwned'
  <2>1. \A g \in Fin : InFlight(g)' <=> InFlight(g)
    BY <1>2 DEF InFlight
  <2>2. \A g \in Fin : InFlight(g) => dep'[g] = dep[g]
    BY <1>1, <1>2 DEF InFlight, TypeOK
  <2> QED BY <1>2, <2>1, <2>2, QuietKeeps
<1>4. Fits'
  BY <1>2 DEF EjectInv, Fits
<1> QED BY <1>3, <1>4 DEF EjectInv, Fits

\* What a finalizer that returns leaves behind.
LEMMA LeaveFacts ==
    ASSUME TypeOK, EjectInv, NEW f \in Fin, Leave(f)
    PROVE  /\ ~InFlight(f)'
           /\ \A g \in Fin \ {f} : InFlight(g)' <=> InFlight(g)
           /\ Fits'
BY DEF Leave, InFlight, TypeOK, EjectInv, Fits

LEMMA WorkingKeeps ==
    ASSUME TypeOK, EjectInv, NEW f \in Fin, Working(f) \/ Timeout(f) \/ GiveUp(f)
    PROVE  EjectInv'
<1> USE DEF InFlight
<1>0. dep[f] \in Dep
  BY DEF TypeOK
<1>1. CASE AutoClaim(f)
  <2>1. CASE Leave(f) /\ UNCHANGED eject
    BY <1>1, <2>1, LeaveFacts, EndKeeps DEF AutoClaim, TypeOK, EjectInv, Fits
  <2>2. CASE Matches(dep[f], "pending")
    <3>1. OneFinalizer' /\ EjectingIsOwned'
      BY <1>1, <2>2, ClaimKeeps DEF AutoClaim, Matches, SetEject, TypeOK
    <3>2. copy'[f].eject = "ejecting" /\ \A g \in Fin \ {f} : copy'[g] = copy[g]
      BY <1>1, <2>2 DEF AutoClaim, TypeOK
    <3>3. Fits'
      BY <1>1, <2>2, <3>2 DEF AutoClaim, TypeOK, EjectInv, Fits
    <3> QED BY <3>1, <3>3 DEF EjectInv, Fits
  <2> QED BY <1>1, <2>1, <2>2 DEF AutoClaim
<1>2. CASE AutoLink(f)
  <2>1. Fits'
    BY <1>2 DEF AutoLink, TypeOK, EjectInv, Fits
  <2>2. \A g \in Fin : InFlight(g)' <=> InFlight(g)
    BY <1>2 DEF AutoLink, TypeOK
  <2>3. OneFinalizer' /\ EjectingIsOwned'
    <3>1. CASE Save(f, dep[f], copy[f].status, "ejecting", copy[f].node)
      <4>1. copy[f].eject = "ejecting" /\ fin' \in [Fin -> FinPC] /\ UNCHANGED <<dep, abandoned>>
        BY <1>2 DEF AutoLink, EjectInv, TypeOK
      <4> QED BY <1>0, <2>2, <3>1, <4>1, SaveKeeps
    <3>2. CASE UNCHANGED <<status, eject, nodeOf, overruled>>
      BY <1>2, <2>2, <3>2, QuietKeeps DEF AutoLink
    <3> QED BY <1>2, <3>1, <3>2 DEF AutoLink
  <2> QED BY <2>1, <2>3 DEF EjectInv, Fits
<1>3. CASE ManualTry(f)
  <2>1. Fits'
    BY <1>3 DEF ManualTry, TypeOK, EjectInv, Fits
  <2>2. CASE fin'[f] = "session" /\ Matches(dep[f], ManualFrom[tries[f] + 1])
             /\ SetEject(dep[f], "ejecting")
    <3>1. eject[dep[f]] # "ejecting"
      BY <1>3, <2>2, ManualFromResting DEF ManualTry, Matches, TypeOK
    <3>2. OneFinalizer' /\ EjectingIsOwned'
      BY <1>3, <2>2, <3>1, ClaimKeeps DEF ManualTry, SetEject, TypeOK
    <3> QED BY <2>1, <3>2 DEF EjectInv, Fits
  <2>3. CASE UNCHANGED <<eject, fin>>
    BY <1>3, <2>1, <2>3, QuietKeeps DEF ManualTry, EjectInv, Fits
  <2> QED BY <1>3, <2>2, <2>3 DEF ManualTry, TypeOK
<1>4. CASE ManualConflict(f)
  BY <1>4, LeaveFacts, EndKeeps DEF ManualConflict, TypeOK, EjectInv, Fits
<1>5. ASSUME NEW o \in {"ejected", "eject-failed"}, EndSession(f, o) PROVE EjectInv'
  <2>1. Fits'
    BY <1>5 DEF EndSession, TypeOK, EjectInv, Fits
  <2>2. OneFinalizer' /\ EjectingIsOwned'
    BY <1>5, QuietKeeps DEF EndSession, TypeOK
  <2> QED BY <2>1, <2>2 DEF EjectInv, Fits
<1>6. CASE Mark(f)
  <2>1. CASE Leave(f) /\ ~Matches(dep[f], "ejecting") /\ UNCHANGED eject
    <3>1. ~InFlight(f)' /\ Fits' /\ \A g \in Fin \ {f} : InFlight(g)' <=> InFlight(g)
      BY <2>1, LeaveFacts
    <3>2. OneFinalizer' /\ EjectingIsOwned'
      BY <1>6, <2>1, <3>1, EndKeeps DEF Mark, Matches, TypeOK
    <3> QED BY <3>1, <3>2 DEF EjectInv, Fits
  <2>2. CASE fin' = [fin EXCEPT ![f] = "marked"] /\ SetEject(dep[f], outcome[f])
             /\ UNCHANGED <<caller, outcome, tries, copy>>
    <3>1. Fits'
      BY <1>6, <2>2 DEF Mark, TypeOK, EjectInv, Fits
    <3>2. outcome[f] \in EjectStates \ {"ejecting"}
      BY <1>6 DEF Mark, EjectInv, TypeOK
    <3>3. OneFinalizer' /\ EjectingIsOwned'
      BY <1>0, <1>6, <2>2, <3>2, EndKeeps DEF Mark, SetEject, TypeOK
    <3> QED BY <3>1, <3>3 DEF EjectInv, Fits
  <2> QED BY <1>6, <2>1, <2>2 DEF Mark
<1>7. CASE MarkRead(f)
  <2>1. Fits'
    BY <1>7 DEF MarkRead, TypeOK, EjectInv, Fits
  <2>2. OneFinalizer' /\ EjectingIsOwned'
    BY <1>7, QuietKeeps DEF MarkRead, TypeOK
  <2> QED BY <2>1, <2>2 DEF EjectInv, Fits
<1>8. CASE MarkSave(f)
  <2>1. Fits' /\ ~InFlight(f)' /\ \A g \in Fin \ {f} : InFlight(g)' <=> InFlight(g)
    BY <1>8, LeaveFacts DEF MarkSave
  <2>2. fin' \in [Fin -> FinPC] /\ ~InFlight(f)
    BY <1>8, LeaveType DEF MarkSave
  <2>3. OneFinalizer' /\ EjectingIsOwned'
    BY <1>0, <1>8, <2>1, <2>2, SaveKeeps DEF MarkSave
  <2> QED BY <2>1, <2>3 DEF EjectInv, Fits
<1>9. CASE Timeout(f)
  <2>1. Fits' /\ ~InFlight(f)' /\ \A g \in Fin \ {f} : InFlight(g)' <=> InFlight(g)
    BY <1>9, LeaveFacts DEF Timeout
  <2>2. OneFinalizer' /\ EjectingIsOwned'
    BY <1>9, <2>1, EndKeeps DEF Timeout, TypeOK
  <2> QED BY <2>1, <2>2 DEF EjectInv, Fits
<1>10. CASE GiveUp(f)
  BY <1>10, LeaveFacts, EndKeeps DEF GiveUp, TypeOK, EjectInv, Fits
<1> QED BY <1>1, <1>2, <1>3, <1>4, <1>5, <1>6, <1>7, <1>8, <1>9, <1>10 DEF Working

LEMMA RestartKeeps ==
    ASSUME TypeOK, EjectInv, Restart
    PROVE  EjectInv'
<1>1. \A f \in Fin : fin'[f] = "idle"
  BY DEF Restart
<1>2. \A d \in Dep : eject'[d] = "ejecting" => d \in abandoned'
  BY DEF Restart, ReconcileEject
<1> QED BY <1>1, <1>2 DEF EjectInv, OneFinalizer, EjectingIsOwned, InFlight

LEMMA EjectInvariant == Spec => [](TypeOK /\ EjectInv)
<1>1. Init => EjectInv
  BY DEF Init, EjectInv, OneFinalizer, EjectingIsOwned, InFlight
<1>2. TypeOK /\ EjectInv /\ [Next]_vars => EjectInv'
  <2> SUFFICES ASSUME TypeOK, EjectInv, [Next]_vars PROVE EjectInv'
    OBVIOUS
  <2>1. CASE Next
    BY <2>1, DeployingKeeps, StartingKeeps, WorkingKeeps, RestartKeeps DEF Next, Finalizing
  <2>2. CASE UNCHANGED vars
    BY <2>2 DEF vars, EjectInv, OneFinalizer, EjectingIsOwned, InFlight
  <2> QED BY <2>1, <2>2
<1> QED BY <1>1, <1>2, EjectTypeCorrect, PTL DEF Spec

\* CASEjectState keeps finalizers apart: at most one, automatic or manual, works
\* on a deployment between its claim and its result, unless a Save overruled it.
THEOREM FinalizersAreApart == Spec => []OneFinalizer
<1>1. EjectInv => OneFinalizer
  BY DEF EjectInv
<1> QED BY <1>1, EjectInvariant, PTL

\* A deployment is ejecting only while a finalizer has still to report on it, also
\* across restarts, unless its context ended, a Save overruled it or the
\* reconciliation failed before it got to the row.
THEOREM EjectingHasAnOwner == Spec => []EjectingIsOwned
<1>1. EjectInv => EjectingIsOwned
  BY DEF EjectInv
<1> QED BY <1>1, EjectInvariant, PTL
=============================================================================
