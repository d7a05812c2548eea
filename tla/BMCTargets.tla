----------------------------- MODULE BMCTargets -----------------------------
(***************************************************************************)
(* The saved BMC targets and the status cache in their rows (the target    *)
(* endpoints of pkg/handlers/deploy.go, bmc_status.go, BMCTargetStore).    *)
(*                                                                         *)
(* Every writer of a row reads all of it, works, and saves all of it: an   *)
(* admin's PUT at once, a ping or an inspection after it has talked to the *)
(* BMC, the refresh of all targets from one listing made at its start.  A  *)
(* Save inserts a row that is gone.  The configuration of a target is a    *)
(* version number; its password is left out: the struct's Password is      *)
(* json:"-", so no request body ever sets one.  Of the status cache,       *)
(* LastStatus stands for the other fields, which are written with it.      *)
(***************************************************************************)
EXTENDS Naturals, Sequences, FiniteSets, SequencesExt

CONSTANTS Target,     \* target ids: each is a fresh UUID
          Worker,     \* concurrent requests
          MaxEdits    \* bound: admin writes

ASSUME TargetAssumption == IsFiniteSet(Target) /\ MaxEdits \in Nat

VARIABLES
    row,        \* bmc_targets: a sequence of at most one row for each id
    work,       \* what each request is doing
    inflight,   \* refreshGuard.inflight
    edits,      \* admin writes so far; the newest is the newest version
    \* history, read by properties only
    used,       \* ids ever created
    newest,     \* the version an admin gave a target last, 0 once deleted
    straddled,  \* targets saved from a copy older than an admin's write
    checked     \* targets a check has written the status of

targetVars == <<row, work, inflight, edits, used, newest, straddled, checked>>

Status == {"unknown", "reachable", "unreachable"}
Rows == [conf : 1..MaxEdits, status : Status]
Idle == [kind |-> "idle", todo |-> <<>>, live |-> TRUE]

\* A copy of a row, with the id it is of.
Copy(t) == [id |-> t, data |-> row[t][1]]
Copies == [id : Target, data : Rows]

TargetTypeOK ==
    /\ row \in [Target -> {<<>>} \union {<<r>> : r \in Rows}]
    /\ work \in [Worker -> [kind : {"idle", "update", "ping", "inspect", "refresh", "list",
                                    "failed", "loser"},
                            todo : Seq(Copies), live : BOOLEAN]]
    /\ \A w \in Worker : work[w].kind \in {"update", "ping", "inspect"} => work[w].todo # <<>>
    /\ inflight \in BOOLEAN
    /\ used \subseteq Target /\ straddled \subseteq Target /\ checked \subseteq used
    /\ edits \in 0..MaxEdits /\ newest \in [Target -> 0..MaxEdits]

TargetInit ==
    /\ row = [t \in Target |-> <<>>]
    /\ work = [w \in Worker |-> Idle]
    /\ inflight = FALSE
    /\ edits = 0
    /\ used = {} /\ straddled = {} /\ checked = {}
    /\ newest = [t \in Target |-> 0]

Enter(w, kind, todo) == work' = [work EXCEPT ![w] = [kind |-> kind, todo |-> todo, live |-> TRUE]]
Leave(w) == work' = [work EXCEPT ![w] = Idle]

(***************************************************************************)
(* The admin's endpoints.  A body may carry status fields: it is bound to  *)
(* the whole struct.                                                       *)
(***************************************************************************)
clearBMCStatusCache(r) == [r EXCEPT !.status = "unknown"]

CreateBMCTarget(t) ==
    /\ t \notin used /\ edits < MaxEdits
    /\ \E status \in Status :
         row' = [row EXCEPT ![t] =
                   <<clearBMCStatusCache([conf |-> edits + 1, status |-> status])>>]
    /\ edits' = edits + 1
    /\ used' = used \union {t}
    /\ newest' = [newest EXCEPT ![t] = edits + 1]
    /\ UNCHANGED <<work, inflight, straddled, checked>>

DeleteBMCTarget(t) ==
    /\ row[t] # <<>>
    /\ row' = [row EXCEPT ![t] = <<>>]
    /\ newest' = [newest EXCEPT ![t] = 0]
    /\ UNCHANGED <<work, inflight, edits, used, straddled, checked>>

\* The requests that read one row: an unknown id is answered 404.
GetByID(w, kind) ==
    \E t \in Target :
      /\ work[w].kind = "idle"
      /\ row[t] # <<>>
      /\ Enter(w, kind, <<Copy(t)>>)
      /\ UNCHANGED <<row, inflight, edits, used, newest, straddled, checked>>

\* BMCTargetStore.Update: gorm's Save, an upsert of the whole row.
Save(c, data) ==
    /\ row' = [row EXCEPT ![c.id] = <<data>>]
    /\ straddled' = IF newest[c.id] = c.data.conf THEN straddled ELSE straddled \union {c.id}

\* Slip: a field of the request is not copied.
UpdateForgets(w) ==
    /\ work[w].kind = "update"
    /\ Leave(w)
    /\ edits < MaxEdits /\ edits' = edits + 1
    /\ LET c == work[w].todo[1]
       IN  Save(c, c.data) /\ newest' = [newest EXCEPT ![c.id] = edits + 1]
    /\ UNCHANGED <<inflight, used, checked>>

\* The request's fields replace those of the copy and leave its status cache; an
\* error answers 500.
UpdateBMCTarget(w) ==
    /\ work[w].kind = "update"
    /\ Leave(w)
    /\ LET c == work[w].todo[1]
       IN  \/ /\ edits < MaxEdits
              /\ edits' = edits + 1
              /\ Save(c, [c.data EXCEPT !.conf = edits + 1])
              /\ newest' = [newest EXCEPT ![c.id] = edits + 1]
           \/ UNCHANGED <<row, edits, newest, straddled>>
    /\ UNCHANGED <<inflight, used, checked>>

(***************************************************************************)
(* Checks of the BMC.                                                      *)
(***************************************************************************)

\* What one check of a BMC finds.  Past the deadline of the context it was made
\* under, or once the client is gone, the store refuses the Save as well.
Outcomes == {"answer", "refusal", "timeout"}

\* Slip: the outcome of the check is stored as it is.
FoundAsIs(outcome) == outcome

Found(outcome) == IF outcome = "answer" THEN "reachable" ELSE "unreachable"

\* The copy with the outcome in it is saved, best-effort.
persist(c, data, ok) ==
    \/ ok /\ Save(c, data) /\ checked' = checked \union {c.id}
    \/ UNCHANGED <<row, straddled, checked>>

pingTarget(w) ==
    LET c == work[w].todo[1]
    IN  \E outcome \in Outcomes :
          persist(c, [c.data EXCEPT !.status = Found(outcome)],
                  outcome # "timeout" /\ work[w].live)

PingBMCTarget(w) ==
    /\ work[w].kind = "ping"
    /\ pingTarget(w)
    /\ Leave(w)
    /\ UNCHANGED <<inflight, edits, used, newest>>

\* persistInspectSuccess and persistInspectFailure.
InspectHardware(w) ==
    /\ work[w].kind = "inspect"
    /\ LET c == work[w].todo[1]
       IN  \E outcome \in Outcomes :
             persist(c, [c.data EXCEPT !.status = Found(outcome)], outcome # "timeout")
    /\ Leave(w)
    /\ UNCHANGED <<inflight, edits, used, newest>>

(***************************************************************************)
(* The refresh of all targets, one at a time.                              *)
(***************************************************************************)

\* refreshGuard: the loser is answered 409.
tryAcquire(w) ==
    /\ work[w].kind = "idle"
    /\ IF inflight
       THEN Enter(w, "loser", <<>>) /\ UNCHANGED inflight
       ELSE Enter(w, "list", <<>>) /\ inflight' = TRUE
    /\ UNCHANGED <<row, edits, used, newest, straddled, checked>>

\* Slip: the guard is given back by a refresh that ran to its end only.
ReleaseWhenServed(w) == inflight' = (inflight /\ ~(work[w].kind = "refresh" /\ work[w].live))

release(w) == inflight' = (inflight /\ work[w].kind = "loser")

\* The listing of all rows, or its error.
List(w) ==
    /\ work[w].kind = "list"
    /\ \/ /\ work[w].live
          /\ \E ids \in SetToSeqs({t \in Target : row[t] # <<>>}) :
               Enter(w, "refresh", [i \in DOMAIN ids |-> Copy(ids[i])])
       \/ work' = [work EXCEPT ![w] = [work[w] EXCEPT !.kind = "failed"]]
    /\ UNCHANGED <<row, inflight, edits, used, newest, straddled, checked>>

RefreshNext(w) ==
    /\ work[w].kind = "refresh"
    /\ work[w].live /\ work[w].todo # <<>>
    /\ pingTarget(w)
    /\ work' = [work EXCEPT ![w] = [work[w] EXCEPT !.todo = Tail(work[w].todo)]]
    /\ UNCHANGED <<inflight, edits, used, newest>>

\* The client goes away: the next target is not pinged.
ClientGone(w) ==
    /\ work[w].kind \in {"list", "refresh"} /\ work[w].live
    /\ work' = [work EXCEPT ![w] = [work[w] EXCEPT !.live = FALSE]]
    /\ UNCHANGED <<row, inflight, edits, used, newest, straddled, checked>>

RefreshAllBMCTargets(w) ==
    /\ \/ work[w].kind \in {"loser", "failed"}
       \/ work[w].kind = "refresh" /\ (work[w].todo = <<>> \/ ~work[w].live)
    /\ release(w)
    /\ Leave(w)
    /\ UNCHANGED <<row, edits, used, newest, straddled, checked>>

Refresh(w) == List(w) \/ RefreshNext(w) \/ RefreshAllBMCTargets(w)

TargetNext ==
    \/ \E t \in Target : CreateBMCTarget(t) \/ DeleteBMCTarget(t)
    \/ \E w \in Worker : \/ \E kind \in {"update", "ping", "inspect"} : GetByID(w, kind)
                         \/ UpdateBMCTarget(w) \/ PingBMCTarget(w) \/ InspectHardware(w)
                         \/ tryAcquire(w) \/ Refresh(w) \/ ClientGone(w)

\* Each ping of a refresh has a deadline, so a refresh takes its next step.
TargetFairness == \A w \in Worker : WF_targetVars(Refresh(w))

-----------------------------------------------------------------------------
\* What an admin wrote last is what the target's row says, and a deleted target
\* stays deleted, unless a request that had read the row before saved it after.
AdminEditStands ==
    \A t \in Target \ straddled :
      IF newest[t] = 0 THEN row[t] = <<>> ELSE row[t] # <<>> /\ row[t][1].conf = newest[t]

\* A status in a row comes from a check of that target: no client can put one there,
\* at creation or later.
StatusComesFromChecks ==
    \A t \in Target \ checked : row[t] # <<>> => row[t][1].status = "unknown"

\* At most one refresh of all targets runs at a time, also after refused ones.
OneRefresh == Cardinality({w \in Worker : work[w].kind \in {"list", "refresh", "failed"}}) <= 1

\* The target endpoints, pings, inspections and refreshes keep the rows in order:
\* an admin's write stands, a status was measured, one refresh runs at a time.
TargetsInOrder == AdminEditStands /\ StatusComesFromChecks /\ OneRefresh

\* Why it holds, as an inductive invariant: a copy of a target nobody has checked says
\* that nothing is known, only targets that were created are in a row or in a copy, and
\* the refresh that runs is the one that holds the guard.
Fair(c) == c.id \in used /\ (c.id \notin checked => c.data.status = "unknown")
Refreshing(w) == work[w].kind \in {"list", "refresh", "failed"}
TargetInv ==
    /\ AdminEditStands /\ StatusComesFromChecks
    /\ \A t \in Target : row[t] # <<>> => t \in used
    /\ \A w \in Worker : \A i \in 1 .. Len(work[w].todo) : Fair(work[w].todo[i])
    /\ \A w \in Worker : Refreshing(w) => inflight
    /\ \A v, w \in Worker : Refreshing(v) /\ Refreshing(w) => v = w

\* A refresh that holds the guard gives it back, whichever way it returns.
RefreshIsReleased == inflight ~> ~inflight
=============================================================================
