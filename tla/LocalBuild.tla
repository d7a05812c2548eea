----------------------------- MODULE LocalBuild -----------------------------
(***************************************************************************)
(* A build of the local backend, from the POST that creates it to its      *)
(* terminal phase, against the requests that may hit it meanwhile: cancel, *)
(* delete, clear failed, and the PATCH that renames it (Builder.Build, run *)
(* and Cancel of internal/builder/auroraboot; ArtifactHandler).            *)
(*                                                                         *)
(* Three things describe a build: its artifact_records row, its entry in   *)
(* the builder's map, and its output directory.  The row is written by     *)
(* reading all of it and saving all of it, and a Save inserts a row that   *)
(* is gone.  A step is one statement, one critical section of Builder.mu   *)
(* or one file-system operation; Cancel keeps the mutex over its two       *)
(* statements.  Image builds and the deployer are external.                *)
(***************************************************************************)
EXTENDS Naturals

CONSTANTS Build,        \* build ids: each is a fresh UUID
          Op,           \* concurrent requests
          NoOp, NoBuild,
          MaxRestarts   \* bound: restarts of the server

ASSUME BuildAssumption ==
    /\ NoOp \notin Op
    /\ NoBuild \notin Build
    /\ MaxRestarts \in Nat

VARIABLES
    row,        \* ArtifactRecord.Phase, "None" when there is no row
    dirs,       \* builds whose output directory exists
    mem,        \* builds[id].status.Phase, "None" when there is no entry
    cancelled,  \* builds whose context is cancelled
    mu,         \* the request that holds Builder.mu between two steps
    run,        \* where Builder.run stands
    goal,       \* the phase it is about to set
    op,         \* where a request stands
    kind,       \* which request it is
    on,         \* the build it works on
    todo,       \* the failed builds ClearFailed has not treated yet
    seen,       \* the phase in the copy of the row that a PATCH has read
    restarts,
    \* history, read by properties only
    early,      \* builds cancelled before their image was built
    asked,      \* builds a request cancelled or deleted by name
    stale,      \* builds whose row was saved with a phase from an old copy
    revived,    \* builds whose row Create inserted a second time
    unsaved     \* builds for which an ignored database error lost a phase

mapVars == <<mem, cancelled>>
runVars == <<run, goal>>
opVars == <<op, kind, on, todo, seen>>
audit == <<early, asked, stale, revived, unsaved>>
vars == <<row, dirs, mapVars, mu, runVars, opVars, restarts, audit>>

InProgress == {"Pending", "Building"}
Phases == InProgress \cup {"Ready", "Error"}
RunPC == {"new", "starting", "set", "read", "save", "image", "deploy", "done"}
OpPC == {"idle", "insert", "confirm", "reinsert", "cancel", "cancelRead", "cancelSave",
         "remove", "next", "drop", "patchSave"}
Kinds == {"none", "create", "cancel", "delete", "clear", "patch"}

Init ==
    /\ row = [b \in Build |-> "None"] /\ dirs = {}
    /\ mem = [b \in Build |-> "None"] /\ cancelled = {}
    /\ mu = NoOp
    /\ run = [b \in Build |-> "new"] /\ goal = [b \in Build |-> "Building"]
    /\ op = [o \in Op |-> "idle"] /\ kind = [o \in Op |-> "none"]
    /\ on = [o \in Op |-> NoBuild] /\ todo = [o \in Op |-> {}]
    /\ seen = [o \in Op |-> "None"]
    /\ restarts = 0
    /\ early = {} /\ asked = {} /\ stale = {} /\ revived = {} /\ unsaved = {}

Begin(o, k, b, pc) ==
    /\ op[o] = "idle"
    /\ op' = [op EXCEPT ![o] = pc]
    /\ kind' = [kind EXCEPT ![o] = k]
    /\ on' = [on EXCEPT ![o] = b]

Goto(o, pc) == op' = [op EXCEPT ![o] = pc] /\ UNCHANGED <<kind, on, todo, seen>>

Answer(o) ==
    /\ op' = [op EXCEPT ![o] = "idle"]
    /\ kind' = [kind EXCEPT ![o] = "none"]
    /\ on' = [on EXCEPT ![o] = NoBuild]
    /\ todo' = [todo EXCEPT ![o] = {}]
    /\ seen' = [seen EXCEPT ![o] = "None"]

Unlocked == mu = NoOp

-----------------------------------------------------------------------------
(* POST /artifacts: ArtifactHandler.Create and Builder.Build.              *)

\* The output directory and the map entry; nobody else knows the id yet.
Create(o, b) ==
    /\ run[b] = "new" /\ Unlocked
    /\ Begin(o, "create", b, "insert")
    /\ run' = [run EXCEPT ![b] = "starting"]
    /\ dirs' = dirs \cup {b}
    /\ mem' = [mem EXCEPT ![b] = "Pending"]
    /\ UNCHANGED <<row, cancelled, mu, goal, todo, seen, restarts, audit>>

\* The row is inserted and the goroutine started.
Insert(o) ==
    /\ op[o] = "insert"
    /\ row' = [row EXCEPT ![on[o]] = "Pending"]
    /\ run' = [run EXCEPT ![on[o]] = "set"]
    /\ Goto(o, "confirm")
    /\ UNCHANGED <<dirs, mapVars, mu, goal, restarts, audit>>

\* The insert fails, so the build is not started; its map entry stays.
InsertError(o) ==
    /\ op[o] = "insert"
    /\ run' = [run EXCEPT ![on[o]] = "done"]
    /\ cancelled' = cancelled \cup {on[o]}
    /\ Answer(o)
    /\ UNCHANGED <<row, dirs, mem, mu, goal, restarts, audit>>

\* The handler looks for the row before it writes one of its own: found, or
\* not found, or not found because the statement failed.
Confirm(o) ==
    /\ op[o] = "confirm"
    /\ \/ row[on[o]] # "None" /\ Answer(o)
       \/ Goto(o, "reinsert")
    /\ UNCHANGED <<row, dirs, mapVars, mu, runVars, restarts, audit>>

\* Create of a row that exists, or under a cancelled request, fails, and the
\* build is cancelled.
Reinsert(o) ==
    /\ op[o] = "reinsert"
    /\ \/ /\ row[on[o]] = "None"
          /\ row' = [row EXCEPT ![on[o]] = "Pending"]
          /\ revived' = revived \cup {on[o]}
          /\ Answer(o)
       \/ /\ Goto(o, "cancel")
          /\ UNCHANGED <<row, revived>>
    /\ UNCHANGED <<dirs, mapVars, mu, runVars, restarts, early, asked, stale, unsaved>>

-----------------------------------------------------------------------------
(* Builder.run.                                                            *)

SetGoal(b, phase) ==
    /\ goal' = [goal EXCEPT ![b] = phase]
    /\ run' = [run EXCEPT ![b] = "set"]

\* What follows once the phase is recorded, or could not be.
Proceed(b) == run' = [run EXCEPT ![b] = IF goal[b] = "Building" THEN "image" ELSE "done"]

\* The map entry, under the mutex.
SetPhase(b) ==
    /\ run[b] = "set" /\ Unlocked
    /\ mem' = [mem EXCEPT ![b] = goal[b]]
    /\ run' = [run EXCEPT ![b] = "read"]
    /\ UNCHANGED <<row, dirs, cancelled, mu, goal, opVars, restarts, audit>>

\* Recording Building uses the build's context, the other phases do not.
ContextEnded(b) == goal[b] = "Building" /\ b \in cancelled

\* updateDBPhase, and the same two statements for Ready: GetByID ...
ReadRow(b) ==
    /\ run[b] = "read"
    /\ \/ /\ row[b] # "None" /\ ~ContextEnded(b)
          /\ run' = [run EXCEPT ![b] = "save"]
       \/ /\ row[b] = "None" \/ ContextEnded(b)
          /\ Proceed(b)
    /\ UNCHANGED <<row, dirs, mapVars, mu, goal, opVars, restarts, audit>>

\* ... and Save, which inserts the row when it has been deleted meanwhile.
SaveRow(b) ==
    /\ run[b] = "save"
    /\ row' = [row EXCEPT ![b] = IF ContextEnded(b) THEN @ ELSE goal[b]]
    /\ Proceed(b)
    /\ UNCHANGED <<dirs, mapVars, mu, goal, opVars, restarts, audit>>

\* A statement fails and its error is ignored.
LosePhase(b) ==
    /\ run[b] \in {"read", "save"}
    /\ Proceed(b)
    /\ unsaved' = unsaved \cup {b}
    /\ UNCHANGED <<row, dirs, mapVars, mu, goal, opVars, restarts, early, asked, stale,
                   revived>>

\* Slip: docker runs without the build's context.
ImageWithoutContext(b) ==
    /\ run[b] = "image"
    /\ run' = [run EXCEPT ![b] = "deploy"]
    /\ UNCHANGED <<row, dirs, mapVars, mu, goal, opVars, restarts, audit>>

\* dockerBuild, kairosify: docker runs under the build's context, so a build
\* that was cancelled gets no image.
Image(b) ==
    /\ run[b] = "image" /\ b \notin cancelled
    /\ run' = [run EXCEPT ![b] = "deploy"]
    /\ UNCHANGED <<row, dirs, mapVars, mu, goal, opVars, restarts, audit>>

\* The image build, the deployer or the UKI build fails.
StepFails(b) ==
    /\ run[b] \in {"image", "deploy"}
    /\ SetGoal(b, "Error")
    /\ UNCHANGED <<row, dirs, mapVars, mu, opVars, restarts, audit>>

\* A deployer step makes the output directory when it is missing.
DeployWrites(b) ==
    /\ run[b] = "deploy" /\ b \notin dirs
    /\ dirs' = dirs \cup {b}
    /\ UNCHANGED <<row, mapVars, mu, runVars, opVars, restarts, audit>>

\* The steps finish; they do not look at the context.
DeployEnds(b) ==
    /\ run[b] = "deploy"
    /\ SetGoal(b, "Ready")
    /\ UNCHANGED <<row, dirs, mapVars, mu, opVars, restarts, audit>>

-----------------------------------------------------------------------------
(* Requests on an existing build.                                          *)

\* The id is known once the row is there.
CancelRequest(o, b) ==
    /\ run[b] \notin {"new", "starting"}
    /\ Begin(o, "cancel", b, "cancel")
    /\ UNCHANGED <<todo, seen, row, dirs, mapVars, mu, runVars, restarts, audit>>

\* 404 without a row.
DeleteRequest(o, b) ==
    /\ row[b] # "None"
    /\ Begin(o, "delete", b, "cancel")
    /\ UNCHANGED <<todo, seen, row, dirs, mapVars, mu, runVars, restarts, audit>>

AfterCancel(o) ==
    IF kind[o] \in {"delete", "clear"} THEN Goto(o, "remove") ELSE Answer(o)

\* Builder.Cancel: an unknown id is no error.
CancelUnknown(o) ==
    /\ op[o] = "cancel" /\ Unlocked
    /\ mem[on[o]] = "None"
    /\ AfterCancel(o)
    /\ asked' = IF kind[o] = "clear" THEN asked ELSE asked \cup {on[o]}
    /\ UNCHANGED <<row, dirs, mapVars, mu, runVars, restarts, early, stale, revived,
                   unsaved>>

\* The builds that have no image yet.
Unbuilt(b) ==
    run[b] \in {"starting", "image"} \/ (run[b] \in {"set", "read", "save"} /\ goal[b] = "Building")

\* Builder.Cancel takes the mutex, cancels the context, and corrects the map
\* entry of a build in progress ...
Cancel(o) ==
    /\ op[o] = "cancel" /\ Unlocked
    /\ mem[on[o]] # "None"
    /\ mu' = o
    /\ cancelled' = cancelled \cup {on[o]}
    /\ mem' = [mem EXCEPT ![on[o]] = IF @ \in InProgress THEN "Error" ELSE @]
    /\ Goto(o, "cancelRead")
    /\ early' = IF Unbuilt(on[o]) THEN early \cup {on[o]} ELSE early
    /\ asked' = IF kind[o] = "clear" THEN asked ELSE asked \cup {on[o]}
    /\ UNCHANGED <<row, dirs, runVars, restarts, stale, revived, unsaved>>

\* ... reads the row (a missing row or a failed statement ends it) ...
CancelRead(o) ==
    /\ op[o] = "cancelRead"
    /\ \/ /\ row[on[o]] # "None"
          /\ Goto(o, "cancelSave")
          /\ UNCHANGED mu
       \/ AfterCancel(o) /\ mu' = NoOp
    /\ UNCHANGED <<row, dirs, mapVars, runVars, restarts, audit>>

\* ... and saves it as Error, whatever its phase was.
CancelSave(o) ==
    /\ op[o] = "cancelSave"
    /\ mu' = NoOp
    /\ \/ row' = [row EXCEPT ![on[o]] = "Error"]
       \/ UNCHANGED row
    /\ AfterCancel(o)
    /\ UNCHANGED <<dirs, mapVars, runVars, restarts, audit>>

\* os.RemoveAll
RemoveDir(o) ==
    /\ op[o] = "remove"
    /\ dirs' = dirs \ {on[o]}
    /\ Goto(o, IF kind[o] = "clear" THEN "next" ELSE "drop")
    /\ UNCHANGED <<row, mapVars, mu, runVars, restarts, audit>>

\* store.Delete, the end of a DELETE; it may fail (500).
Drop(o) ==
    /\ op[o] = "drop"
    /\ Answer(o)
    /\ row' = [row EXCEPT ![on[o]] = "None"] \/ UNCHANGED row
    /\ UNCHANGED <<dirs, mapVars, mu, runVars, restarts, audit>>

\* Slip: the phase of the listed rows is not looked at.
AllRows == {b \in Build : row[b] # "None"}

\* The rows that ClearFailed cleans up after.
FailedRows == {b \in Build : row[b] = "Error"}

\* ClearFailed lists the rows; without a list it only deletes rows.
ClearFailed(o) ==
    /\ Begin(o, "clear", NoBuild, "next")
    /\ \/ todo' = [todo EXCEPT ![o] = FailedRows]
       \/ UNCHANGED todo
    /\ UNCHANGED <<seen, row, dirs, mapVars, mu, runVars, restarts, audit>>

ClearNext(o, b) ==
    /\ op[o] = "next" /\ b \in todo[o]
    /\ op' = [op EXCEPT ![o] = "cancel"]
    /\ on' = [on EXCEPT ![o] = b]
    /\ todo' = [todo EXCEPT ![o] = @ \ {b}]
    /\ UNCHANGED <<kind, seen, row, dirs, mapVars, mu, runVars, restarts, audit>>

\* DeleteByPhase deletes what is in Error now; it may fail (500).
ClearRows(o) ==
    /\ op[o] = "next" /\ todo[o] = {}
    /\ \/ row' = [b \in Build |-> IF row[b] = "Error" THEN "None" ELSE row[b]]
       \/ UNCHANGED row
    /\ Answer(o)
    /\ UNCHANGED <<dirs, mapVars, mu, runVars, restarts, audit>>

\* ArtifactHandler.Update changes name and saved flag: it reads the row ...
Patch(o, b) ==
    /\ row[b] # "None"
    /\ Begin(o, "patch", b, "patchSave")
    /\ seen' = [seen EXCEPT ![o] = row[b]]
    /\ UNCHANGED <<todo, row, dirs, mapVars, mu, runVars, restarts, audit>>

\* ... and saves all of it, the phase included, or fails.
PatchSave(o) ==
    /\ op[o] = "patchSave"
    /\ \/ /\ row' = [row EXCEPT ![on[o]] = seen[o]]
          /\ stale' = IF row[on[o]] = seen[o] THEN stale ELSE stale \cup {on[o]}
       \/ UNCHANGED <<row, stale>>
    /\ Answer(o)
    /\ UNCHANGED <<dirs, mapVars, mu, runVars, restarts, early, asked, revived, unsaved>>

-----------------------------------------------------------------------------
\* Slip: a build that had not started yet is forgotten.
BuildingRows == {b \in Build : row[b] = "Building"}

\* The rows ReconcileOrphanedArtifacts fails at start-up.
OrphanedRows == {b \in Build : row[b] \in InProgress}

\* The server stops: goroutines and the map are gone.  At start-up the orphans
\* become Error, except those whose Update fails.
Restart ==
    /\ restarts < MaxRestarts
    /\ restarts' = restarts + 1
    /\ mem' = [b \in Build |-> "None"] /\ cancelled' = {}
    /\ mu' = NoOp
    /\ run' = [b \in Build |-> IF run[b] = "new" THEN "new" ELSE "done"]
    /\ op' = [o \in Op |-> "idle"] /\ kind' = [o \in Op |-> "none"]
    /\ on' = [o \in Op |-> NoBuild] /\ todo' = [o \in Op |-> {}]
    /\ seen' = [o \in Op |-> "None"]
    /\ \E lost \in SUBSET OrphanedRows :
          /\ row' = [b \in Build |-> IF b \in OrphanedRows \ lost THEN "Error" ELSE row[b]]
          /\ unsaved' = unsaved \cup lost
    /\ UNCHANGED <<dirs, goal, early, asked, stale, revived>>

-----------------------------------------------------------------------------
Running(b) ==
    \/ SetPhase(b) \/ ReadRow(b) \/ SaveRow(b) \/ LosePhase(b)
    \/ Image(b) \/ StepFails(b) \/ DeployWrites(b) \/ DeployEnds(b)

Creating(o) ==
    \/ \E b \in Build : Create(o, b)
    \/ Insert(o) \/ InsertError(o) \/ Confirm(o) \/ Reinsert(o)

Cancelling(o) ==
    \/ \E b \in Build : CancelRequest(o, b) \/ DeleteRequest(o, b)
    \/ CancelUnknown(o) \/ Cancel(o) \/ CancelRead(o) \/ CancelSave(o)

Removing(o) ==
    \/ ClearFailed(o) \/ \E b \in Build : ClearNext(o, b)
    \/ ClearRows(o) \/ RemoveDir(o) \/ Drop(o)

Patching(o) == PatchSave(o) \/ \E b \in Build : Patch(o, b)

Next ==
    \/ \E b \in Build : Running(b)
    \/ \E o \in Op : Creating(o) \/ Cancelling(o) \/ Removing(o) \/ Patching(o)
    \/ Restart

Spec == Init /\ [][Next]_vars

(* The goroutine takes its next step, the external tools end, a request that
   holds the mutex goes on.  Go's mutex does not starve a waiting goroutine.  *)
Fairness ==
    /\ \A b \in Build : /\ SF_vars(SetPhase(b))
                        /\ WF_vars(ReadRow(b) \/ SaveRow(b))
                        /\ WF_vars(Image(b) \/ StepFails(b)) /\ WF_vars(DeployEnds(b))
    /\ \A o \in Op : WF_vars(CancelRead(o) \/ CancelSave(o))

LiveSpec == Spec /\ Fairness

-----------------------------------------------------------------------------
\* The types of what the requests share, and of what each keeps for itself.
StateTypeOK ==
    /\ row \in [Build -> Phases \cup {"None"}]
    /\ dirs \in SUBSET Build
    /\ mem \in [Build -> Phases \cup {"None"}]
    /\ cancelled \in SUBSET Build
    /\ mu \in Op \cup {NoOp}
    /\ run \in [Build -> RunPC]
    /\ goal \in [Build -> {"Building", "Ready", "Error"}]
    /\ restarts \in Nat
    /\ early \in SUBSET Build /\ asked \in SUBSET Build /\ stale \in SUBSET Build
    /\ revived \in SUBSET Build /\ unsaved \in SUBSET Build
OpTypeOK ==
    /\ op \in [Op -> OpPC] /\ kind \in [Op -> Kinds]
    /\ on \in [Op -> Build \cup {NoBuild}]
    /\ \A o \in Op : op[o] \notin {"idle", "next"} => on[o] \in Build
    /\ todo \in [Op -> SUBSET Build]
    /\ seen \in [Op -> Phases \cup {"None"}]
\* Every variable keeps its type, and a request under way has a build.
TypeOK == StateTypeOK /\ OpTypeOK

\* A build cancelled before its image was there never becomes Ready, whatever
\* saves of the row race with the cancellation and with the goroutine's failure
\* (the build context of run, dockerBuild and kairosify).
EarlyCancelSticks == \A b \in early : row[b] # "Ready"

\* Why it holds, as an inductive invariant: a build is started by one request, a
\* row or a PATCH's copy says Ready only once the goroutine has meant to, and a
\* build cancelled early never gets as far, since its context stays cancelled as
\* long as its goroutine lives.
StartInv ==
    /\ \A b \in Build : run[b] \in {"new", "starting", "image", "deploy"} => goal[b] = "Building"
    /\ \A o \in Op : op[o] = "insert" => run[on[o]] = "starting"
    /\ \A o, p \in Op : op[o] = "insert" /\ op[p] = "insert" /\ on[o] = on[p] => o = p
OnlyBuiltIsReady ==
    /\ \A b \in Build : goal[b] # "Ready" =>
          row[b] # "Ready" /\ \A o \in Op : on[o] = b => seen[o] # "Ready"
    /\ \A o \in Op : op[o] # "patchSave" => seen[o] = "None"
EarlyInv ==
    \A b \in early : /\ goal[b] # "Ready"
                     /\ run[b] \notin {"new", "deploy"}
                     /\ run[b] # "done" => b \in cancelled
BuildInv == StartInv /\ OnlyBuiltIsReady /\ EarlyInv

\* A row that says Pending or Building is being driven: its goroutine is alive.
\* The exceptions are the writes that ignore what happened in between: a PATCH
\* with an old phase, Create's second insert, and ignored database errors.
InProgressIsDriven ==
    \A b \in Build \ (stale \cup revived \cup unsaved) :
        row[b] \in InProgress => run[b] \notin {"new", "starting", "done"}

\* A Ready artifact that nobody asked to cancel or delete can be downloaded: no
\* clean-up of failed builds took its directory away.
ReadyHasOutput ==
    \A b \in Build \ (asked \cup stale) : row[b] = "Ready" => b \in dirs

\* Why it holds: nobody will look for the output of a build that was asked away,
\* or whose goroutine has ended or is about to fail without having recorded
\* Ready, and that stays so.  Every row in Error, every build a clean-up has on
\* its list or in hand, and every started build without a directory is one.
GivenUp(b) ==
    \/ b \in asked \cup stale
    \/ (run[b] = "done" \/ goal[b] = "Error") /\ row[b] # "Ready"
Discarding(o) ==
    op[o] \in {"cancelRead", "cancelSave", "remove"} \/ (op[o] = "cancel" /\ kind[o] = "clear")
KnownInv ==
    /\ \A b \in Build : row[b] # "None" => run[b] # "new"
    /\ \A o \in Op : on[o] \in Build => run[on[o]] # "new"
    /\ \A o \in Op : \A b \in todo[o] : run[b] # "new"
    /\ \A o \in Op : op[o] \in {"insert", "confirm", "reinsert"} => kind[o] = "create"
DiscardInv ==
    /\ \A b \in Build : row[b] = "Error" => GivenUp(b)
    /\ \A b \in Build : run[b] # "new" /\ b \notin dirs => GivenUp(b)
    /\ \A o \in Op : \A b \in todo[o] : GivenUp(b)
    /\ \A o \in Op : Discarding(o) => GivenUp(on[o])
OutputInv == KnownInv /\ DiscardInv

\* Every build ends: its row leaves Pending and Building, also across a restart,
\* with the exceptions of InProgressIsDriven.
BuildEnds ==
    \A b \in Build :
        row[b] \in InProgress ~>
        row[b] \notin InProgress \/ b \in stale \cup revived \cup unsaved
=============================================================================
