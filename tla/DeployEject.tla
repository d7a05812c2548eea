---------------------------- MODULE DeployEject ----------------------------
(***************************************************************************)
(* A Redfish deployment and the ejection of its virtual media              *)
(* (pkg/handlers/deploy.go, pkg/handlers/finalize.go).                     *)
(*                                                                         *)
(* One background goroutine drives each deployment (runRedfishDeploy).     *)
(* When the installed node phones home, a goroutine picks the deployment   *)
(* that belongs to it and ejects its media (MaybeFinalizeForNode); an      *)
(* operator may ask for the same (FinalizeDeployment).  They are kept      *)
(* apart by compare-and-set on Deployment.EjectState, but every other      *)
(* write of the row reads it, changes a field and Saves all of it.         *)
(*                                                                         *)
(* A step is one SQL statement or one BMC session.  The BMC is external: a *)
(* session succeeds, fails, or outlives the context of its goroutine.      *)
(***************************************************************************)
EXTENDS Naturals, Sequences, FiniteSets

CONSTANTS Dep,          \* deployments
          Node,         \* nodes that phone home
          Fin,          \* concurrent finalize goroutines
          Link,         \* BMCTarget.NodeID of the deployment's BMC, or NoNode
          Inline,       \* deployments made with inline credentials: no BMCTarget
          EjectAfter,   \* deployments whose eject policy is on
          MaxRestarts,  \* bound: server restarts
          NoNode

ASSUME DeployAssumption ==
    /\ NoNode \notin Node
    /\ Dep \cap Fin = {}
    /\ Link \in [Dep -> Node \cup {NoNode}]
    /\ Inline \subseteq Dep /\ EjectAfter \subseteq Dep
    /\ \A d \in Inline : Link[d] = NoNode
    /\ MaxRestarts \in Nat

VARIABLES
    status,     \* Deployment.Status, "none" when there is no row
    eject,      \* Deployment.EjectState
    nodeOf,     \* Deployment.NodeID
    old,        \* deployments completed longer ago than ejectFallbackWindow
    job,        \* where runRedfishDeploy stands
    fin,        \* where a finalize goroutine stands
    dep,        \* the deployment it works on
    caller,     \* the node it runs for, NoNode for an operator
    outcome,    \* the result of its BMC session
    tries,      \* claimManualFinalize: states tried so far
    copy,       \* the row last read by a job (named by its deployment) or finalizer
    restarts,
    \* history
    overruled,  \* deployments whose EjectState a whole-row Save has overwritten
    abandoned   \* deployments whose finalizer died with its context, or with the
                \* server when the next one could not reconcile them

rowVars == <<status, eject, nodeOf, old>>
finVars == <<fin, dep, caller, outcome, tries>>
histVars == <<overruled, abandoned>>
vars == <<rowVars, job, finVars, copy, restarts, histVars>>

Statuses == {"none", "Active", "Completed", "Failed"}
EjectStates == {"unset", "pending", "ejecting", "ejected", "eject-failed"}   \* "unset" is ""
JobPC == {"none", "running", "progress", "complete", "fail", "completed", "arm", "done"}
FinPC == {"idle", "listed", "trying", "link", "session", "mark", "marked", "save"}
Row == [status : Statuses, eject : EjectStates, node : Node \cup {NoNode}]

\* The claims of claimManualFinalize, in its order.
ManualFrom == <<"pending", "eject-failed", "ejected", "unset">>

NoRow == [status |-> "none", eject |-> "unset", node |-> NoNode]
RowOf(d) == [status |-> status[d], eject |-> eject[d], node |-> nodeOf[d]]
InFlight(f) == fin[f] \in {"link", "session", "mark"}

Init ==
    /\ status = [d \in Dep |-> "none"]
    /\ eject = [d \in Dep |-> "unset"]
    /\ nodeOf = [d \in Dep |-> NoNode]
    /\ old = {}
    /\ job = [d \in Dep |-> "none"]
    /\ fin = [f \in Fin |-> "idle"]
    /\ dep \in [Fin -> Dep]
    /\ caller = [f \in Fin |-> NoNode]
    /\ outcome = [f \in Fin |-> "unset"]
    /\ tries = [f \in Fin |-> 0]
    /\ copy = [w \in Dep \cup Fin |-> NoRow]
    /\ restarts = 0
    /\ overruled = {} /\ abandoned = {}

-----------------------------------------------------------------------------
(* DeploymentStore.                                                        *)

SetEject(d, e) == eject' = [eject EXCEPT ![d] = e]

\* Slip: the UPDATE matches by id only.
MatchesAny(d, from) == TRUE

\* CASEjectState's WHERE clause matches the row, which exists: rows are never
\* deleted.
Matches(d, from) == eject[d] = from

\* Save of the whole row.  It overrules a finalizer when it changes EjectState
\* from a copy that is out of date, or while a finalizer is at work.
Save(w, d, s, e, n) ==
    /\ status' = [status EXCEPT ![d] = s]
    /\ SetEject(d, e)
    /\ nodeOf' = [nodeOf EXCEPT ![d] = n]
    /\ overruled' = IF e # eject[d] /\ (copy[w].eject # eject[d] \/ eject[d] = "ejecting")
                    THEN overruled \cup {d} ELSE overruled

\* A finalizer returns; what it knew is gone.
Leave(f) ==
    /\ fin' = [fin EXCEPT ![f] = "idle"]
    /\ caller' = [caller EXCEPT ![f] = NoNode]
    /\ outcome' = [outcome EXCEPT ![f] = "unset"]
    /\ tries' = [tries EXCEPT ![f] = 0]
    /\ copy' = [copy EXCEPT ![f] = NoRow]

-----------------------------------------------------------------------------
(* runRedfishDeploy.                                                       *)

DeployRedfish(d) ==
    /\ job[d] = "none"
    /\ status' = [status EXCEPT ![d] = "Active"]
    /\ job' = [job EXCEPT ![d] = "running"]
    /\ UNCHANGED <<eject, nodeOf, old, finVars, copy, restarts, histVars>>

\* progressUpdater, completeDeployment, failDeployment: GetByID ...
JobRead(d, what) ==
    /\ job[d] = "running"
    /\ what \in {"progress", "complete", "fail"}
    /\ job' = [job EXCEPT ![d] = what]
    /\ copy' = [copy EXCEPT ![d] = RowOf(d)]
    /\ UNCHANGED <<rowVars, finVars, restarts, histVars>>

\* ... then Update.  Progress keeps the status, the other two end the deploy.
JobSave(d) ==
    /\ job[d] \in {"progress", "complete", "fail"}
    /\ LET s == CASE job[d] = "progress" -> copy[d].status
                  [] job[d] = "complete" -> "Completed"
                  [] job[d] = "fail" -> "Failed"
       IN Save(d, d, s, copy[d].eject, copy[d].node)
    /\ job' = [job EXCEPT ![d] = CASE @ = "progress" -> "running"
                                   [] @ = "complete" -> "completed"
                                   [] @ = "fail" -> "done"]
    /\ copy' = [copy EXCEPT ![d] = NoRow]
    /\ UNCHANGED <<old, finVars, restarts, abandoned>>

\* The deploy is over but its row could not be read: it stays Active.
JobStoreError(d, next) ==
    /\ job[d] = "running"
    /\ next \in {"completed", "done"}
    /\ job' = [job EXCEPT ![d] = next]
    /\ UNCHANGED <<rowVars, finVars, copy, restarts, histVars>>

\* markEjectPending, when the policy is on.
ArmRead(d) ==
    /\ job[d] = "completed" /\ d \in EjectAfter
    /\ job' = [job EXCEPT ![d] = "arm"]
    /\ copy' = [copy EXCEPT ![d] = RowOf(d)]
    /\ UNCHANGED <<rowVars, finVars, restarts, histVars>>

ArmSave(d) ==
    /\ job[d] = "arm"
    /\ Save(d, d, copy[d].status, "pending", copy[d].node)
    /\ job' = [job EXCEPT ![d] = "done"]
    /\ copy' = [copy EXCEPT ![d] = NoRow]
    /\ UNCHANGED <<old, finVars, restarts, abandoned>>

\* The fallback window of a finished deployment closes.
Age(d) ==
    /\ status[d] \in {"Completed", "Failed"} /\ d \notin old
    /\ old' = old \cup {d}
    /\ UNCHANGED <<status, eject, nodeOf, job, finVars, copy, restarts, histVars>>

-----------------------------------------------------------------------------
(* MaybeFinalizeForNode.                                                   *)

Pending == {d \in Dep : eject[d] = "pending"}
LinkedTo(n) == {d \in Pending : nodeOf[d] = n \/ Link[d] = n}

\* withinEjectFallbackWindow
Recent(d) == status[d] \in {"Completed", "Failed"} /\ d \notin old

\* correlateDeployment: the deployment linked to the node, or else the only one
\* that is pending and recent; none when there is a choice.
correlateDeployment(n) ==
    IF LinkedTo(n) # {} THEN {d \in LinkedTo(n) : LinkedTo(n) = {d}}
    ELSE {d \in Pending : Pending = {d} /\ Recent(d)}

\* List and correlate.  The chosen row is a copy from here on.
PhoneHome(f, n) ==
    /\ fin[f] = "idle"
    /\ \E d \in correlateDeployment(n) :
        /\ dep' = [dep EXCEPT ![f] = d]
        /\ copy' = [copy EXCEPT ![f] = RowOf(d)]
    /\ caller' = [caller EXCEPT ![f] = n]
    /\ fin' = [fin EXCEPT ![f] = "listed"]
    /\ UNCHANGED <<rowVars, job, outcome, tries, restarts, histVars>>

\* CAS pending -> ejecting; a loser leaves.
AutoClaim(f) ==
    /\ fin[f] = "listed"
    /\ \/ /\ Matches(dep[f], "pending")
          /\ SetEject(dep[f], "ejecting")
          /\ fin' = [fin EXCEPT ![f] = "link"]
          /\ copy' = [copy EXCEPT ![f] = [status |-> copy[f].status, eject |-> "ejecting",
                                          node |-> caller[f]]]
          /\ UNCHANGED <<caller, outcome, tries>>
       \/ /\ ~Matches(dep[f], "pending")
          /\ Leave(f)
          /\ UNCHANGED eject
    /\ UNCHANGED <<status, nodeOf, old, job, dep, restarts, overruled, abandoned>>

\* Save the copy of the List with the node's id in it, an error ignored.
AutoLink(f) ==
    /\ fin[f] = "link"
    /\ \/ Save(f, dep[f], copy[f].status, "ejecting", copy[f].node)
       \/ UNCHANGED <<status, eject, nodeOf, overruled>>
    /\ fin' = [fin EXCEPT ![f] = "session"]
    /\ UNCHANGED <<old, job, dep, caller, outcome, tries, copy, restarts, abandoned>>

-----------------------------------------------------------------------------
(* FinalizeDeployment.                                                     *)

\* Any deployment with a BMC, also one still Active.
FinalizeDeployment(f, d) ==
    /\ fin[f] = "idle" /\ status[d] # "none" /\ d \notin Inline
    /\ fin' = [fin EXCEPT ![f] = "trying"]
    /\ dep' = [dep EXCEPT ![f] = d]
    /\ caller' = [caller EXCEPT ![f] = NoNode]
    /\ tries' = [tries EXCEPT ![f] = 0]
    /\ UNCHANGED <<rowVars, job, outcome, copy, restarts, overruled, abandoned>>

\* claimManualFinalize: one CAS for each state it accepts, one after the other.
ManualTry(f) ==
    /\ fin[f] = "trying" /\ tries[f] < Len(ManualFrom)
    /\ \/ /\ Matches(dep[f], ManualFrom[tries[f] + 1])
          /\ SetEject(dep[f], "ejecting")
          /\ fin' = [fin EXCEPT ![f] = "session"]
          /\ UNCHANGED tries
       \/ /\ ~Matches(dep[f], ManualFrom[tries[f] + 1])
          /\ tries' = [tries EXCEPT ![f] = @ + 1]
          /\ UNCHANGED <<eject, fin>>
    /\ UNCHANGED <<status, nodeOf, old, job, dep, caller, outcome, copy, restarts,
                   overruled, abandoned>>

\* 409: "a finalize is already in progress for this deployment".
ManualConflict(f) ==
    /\ fin[f] = "trying" /\ tries[f] = Len(ManualFrom)
    /\ Leave(f)
    /\ UNCHANGED <<rowVars, job, dep, restarts, overruled, abandoned>>

-----------------------------------------------------------------------------
(* finalizeDeployment.                                                     *)

\* The BMC session ends; without a BMCTarget it fails at once.
EndSession(f, o) ==
    /\ fin[f] = "session"
    /\ o = "ejected" => dep[f] \notin Inline
    /\ outcome' = [outcome EXCEPT ![f] = o]
    /\ fin' = [fin EXCEPT ![f] = "mark"]
    /\ UNCHANGED <<rowVars, job, dep, caller, tries, copy, restarts, histVars>>

\* The context ends first (finalizeTimeout, or the operator's client hung up), or
\* the CAS fails.  markEjectFailed runs under the same context, so the row stays
\* as it is.
Timeout(f) ==
    /\ fin[f] \in {"session", "mark"}
    /\ Leave(f)
    /\ abandoned' = abandoned \cup {dep[f]}
    /\ UNCHANGED <<rowVars, job, dep, restarts, overruled>>

\* markEjected, markEjectFailed: CAS ejecting -> outcome ...
Mark(f) ==
    /\ fin[f] = "mark"
    /\ \/ /\ Matches(dep[f], "ejecting")
          /\ SetEject(dep[f], outcome[f])
          /\ fin' = [fin EXCEPT ![f] = "marked"]
          /\ UNCHANGED <<caller, outcome, tries, copy>>
       \/ /\ ~Matches(dep[f], "ejecting")
          /\ Leave(f)
          /\ UNCHANGED eject
    /\ UNCHANGED <<status, nodeOf, old, job, dep, restarts, overruled, abandoned>>

\* ... then read the row and Save it with EjectedAt or EjectError.
MarkRead(f) ==
    /\ fin[f] = "marked"
    /\ fin' = [fin EXCEPT ![f] = "save"]
    /\ copy' = [copy EXCEPT ![f] = RowOf(dep[f])]
    /\ UNCHANGED <<rowVars, job, dep, caller, outcome, tries, restarts, histVars>>

MarkSave(f) ==
    /\ fin[f] = "save"
    /\ Save(f, dep[f], copy[f].status, copy[f].eject, copy[f].node)
    /\ Leave(f)
    /\ UNCHANGED <<old, job, dep, restarts, abandoned>>

\* A statement fails before the claim, or after the result is in the row: the
\* handler returns.
GiveUp(f) ==
    /\ fin[f] \in {"listed", "trying", "marked", "save"}
    /\ Leave(f)
    /\ UNCHANGED <<rowVars, job, dep, restarts, overruled, abandoned>>

-----------------------------------------------------------------------------
\* Slip: the reconciler forgets the ejecting rows.
ReconcileStatusOnly(rows) == UNCHANGED eject

\* ReconcileOrphanedDeployments on EjectState.
ReconcileEject(rows) ==
    eject' = [d \in Dep |-> IF d \in rows /\ eject[d] = "ejecting" THEN "pending" ELSE eject[d]]

\* The server stops and starts: every goroutine is gone and the rows they were
\* driving are reconciled, one after the other, before requests are served.  The
\* first Update that fails ends that, and the server starts all the same: done are
\* the rows seen to, at is one whose EjectState was written and whose Status was not.
Restart ==
    /\ restarts < MaxRestarts
    /\ restarts' = restarts + 1
    /\ \E done \in SUBSET Dep, at \in {{}} \cup {{d} : d \in Dep} :
        /\ ReconcileEject(done \cup at)
        /\ status' = [d \in Dep |-> IF d \in done /\ status[d] = "Active" THEN "Failed" ELSE status[d]]
        /\ old' = {d \in old : d \in done => status[d] # "Active"}
        /\ abandoned' = {d \in Dep \ (done \cup at) : eject[d] = "ejecting"}
    /\ job' = [d \in Dep |-> IF job[d] = "none" THEN "none" ELSE "done"]
    /\ fin' = [f \in Fin |-> "idle"]
    /\ caller' = [f \in Fin |-> NoNode]
    /\ outcome' = [f \in Fin |-> "unset"]
    /\ tries' = [f \in Fin |-> 0]
    /\ copy' = [w \in Dep \cup Fin |-> NoRow]
    /\ overruled' = {}
    /\ UNCHANGED <<nodeOf, dep>>

Deploying(d) ==
    \/ DeployRedfish(d)
    \/ \E what \in {"progress", "complete", "fail"} : JobRead(d, what)
    \/ JobSave(d)
    \/ \E next \in {"completed", "done"} : JobStoreError(d, next)
    \/ ArmRead(d) \/ ArmSave(d) \/ Age(d)

\* The steps of a finalizer that has its deployment.
Working(f) ==
    \/ AutoClaim(f) \/ AutoLink(f) \/ ManualTry(f) \/ ManualConflict(f)
    \/ \E o \in {"ejected", "eject-failed"} : EndSession(f, o)
    \/ Mark(f) \/ MarkRead(f) \/ MarkSave(f)

Finalizing(f) ==
    \/ \E n \in Node : PhoneHome(f, n)
    \/ \E d \in Dep : FinalizeDeployment(f, d)
    \/ Working(f) \/ Timeout(f) \/ GiveUp(f)

Next ==
    \/ \E d \in Dep : Deploying(d)
    \/ \E f \in Fin : Finalizing(f)
    \/ Restart

Spec == Init /\ [][Next]_vars

(* A started finalizer goes on, its statements do not fail every time, and an
   installed node keeps phoning home.  The session of a phone-home ends at its
   deadline, if not before; the one of an operator's request has none and ends
   when the BMC answers or the operator's client hangs up, which is assumed here. *)
Fairness ==
    /\ \A f \in Fin : SF_vars(Working(f))
    /\ \A f \in Fin, n \in Node : SF_vars(PhoneHome(f, n))

LiveSpec == Spec /\ Fairness

-----------------------------------------------------------------------------
TypeOK ==
    /\ status \in [Dep -> Statuses]
    /\ eject \in [Dep -> EjectStates]
    /\ nodeOf \in [Dep -> Node \cup {NoNode}]
    /\ old \in SUBSET Dep
    /\ job \in [Dep -> JobPC]
    /\ fin \in [Fin -> FinPC]
    /\ dep \in [Fin -> Dep]
    /\ caller \in [Fin -> Node \cup {NoNode}]
    /\ outcome \in [Fin -> EjectStates]
    /\ tries \in [Fin -> Nat]
    /\ copy \in [Dep \cup Fin -> Row]
    /\ restarts \in Nat
    /\ overruled \in SUBSET Dep /\ abandoned \in SUBSET Dep

\* The compare-and-set keeps finalizers apart: unless a whole-row Save overruled
\* it, at most one of them, automatic or manual, works on a deployment's BMC
\* between its claim and its result, and the row says so.
OneFinalizer ==
    \A f, g \in Fin :
        InFlight(f) /\ dep[f] \notin overruled
        => /\ eject[dep[f]] = "ejecting"
           /\ InFlight(g) /\ dep[g] = dep[f] => f = g

\* A row is not left ejecting: some finalizer still has to report on it, unless
\* its context ended, a Save overruled it, or the reconciliation after a restart
\* failed before it.
EjectingIsOwned ==
    \A d \in Dep \ (abandoned \cup overruled) :
        eject[d] = "ejecting" => \E f \in Fin : InFlight(f) /\ dep[f] = d

\* Why both hold, as an inductive invariant: a finalizer that is about to Save its
\* node's id, or to report, holds a copy and a result that fit its claim.
EjectInv ==
    /\ OneFinalizer
    /\ EjectingIsOwned
    /\ \A f \in Fin : fin[f] = "link" => copy[f].eject = "ejecting"
    /\ \A f \in Fin : fin[f] = "mark" => outcome[f] \in {"ejected", "eject-failed"}

\* A deployment that is due for ejection is ejected, or its failure reported:
\* also across restarts, its node's phone-homes see to it, unless a finalizer's
\* context ended, a Save overruled it or its reconciliation failed.
PendingIsEjected ==
    \A d \in Dep : eject[d] = "pending" ~>
        eject[d] \in {"ejected", "eject-failed"} \/ d \in abandoned \cup overruled
=============================================================================
