-------------------------- MODULE LocalBuildProofs --------------------------
(***************************************************************************)
(* Proofs about LocalBuild for any number of builds, requests and restarts. *)
(***************************************************************************)
EXTENDS LocalBuild, TLAPS

USE BuildAssumption DEF mapVars, runVars, opVars, audit

-----------------------------------------------------------------------------
(* Type correctness.                                                       *)

LEMMA RunningTypeOK ==
    ASSUME TypeOK, NEW b \in Build, Running(b)
    PROVE  TypeOK'
<1> USE DEF TypeOK, StateTypeOK, OpTypeOK, Phases, InProgress, RunPC
<1>1. CASE SetPhase(b) BY <1>1 DEF SetPhase
<1>2. CASE ReadRow(b) BY <1>2 DEF ReadRow, Proceed
<1>3. CASE SaveRow(b) BY <1>3 DEF SaveRow, Proceed
<1>4. CASE LosePhase(b) BY <1>4 DEF LosePhase, Proceed
<1>5. CASE Image(b) BY <1>5 DEF Image
<1>6. CASE StepFails(b) BY <1>6 DEF StepFails, SetGoal
<1>7. CASE DeployWrites(b) BY <1>7 DEF DeployWrites
<1>8. CASE DeployEnds(b) BY <1>8 DEF DeployEnds, SetGoal
<1> QED BY <1>1, <1>2, <1>3, <1>4, <1>5, <1>6, <1>7, <1>8 DEF Running

\* What the parts of a request's step do to its own variables.
LEMMA AnswerType ==
    ASSUME OpTypeOK, NEW o \in Op, Answer(o)
    PROVE  OpTypeOK'
BY DEF OpTypeOK, Answer, OpPC, Kinds, Phases

LEMMA GotoType ==
    ASSUME OpTypeOK, NEW o \in Op, op[o] \notin {"idle", "next"}, NEW pc \in OpPC, Goto(o, pc)
    PROVE  OpTypeOK'
BY DEF OpTypeOK, Goto

LEMMA AfterCancelType ==
    ASSUME OpTypeOK, NEW o \in Op, op[o] \notin {"idle", "next"}, AfterCancel(o)
    PROVE  OpTypeOK'
<1>1. "remove" \in OpPC
  BY DEF OpPC
<1> QED BY <1>1, AnswerType, GotoType DEF AfterCancel

LEMMA BeginType ==
    ASSUME OpTypeOK, NEW o \in Op, NEW b \in Build, NEW k \in Kinds, NEW pc \in OpPC,
           Begin(o, k, b, pc), UNCHANGED todo, seen' \in [Op -> Phases \cup {"None"}]
    PROVE  OpTypeOK'
BY DEF OpTypeOK, Begin

LEMMA CreatingTypeOK ==
    ASSUME TypeOK, NEW o \in Op, Creating(o)
    PROVE  TypeOK'
<1> SUFFICES StateTypeOK' /\ OpTypeOK'
  BY DEF TypeOK
<1>0. StateTypeOK /\ OpTypeOK
  BY DEF TypeOK
<1>a. {"insert", "confirm", "reinsert", "cancel"} \subseteq OpPC /\ "create" \in Kinds
  BY DEF OpPC, Kinds
<1>1. ASSUME NEW b \in Build, Create(o, b) PROVE StateTypeOK' /\ OpTypeOK'
  <2>1. StateTypeOK'
    BY <1>0, <1>1 DEF Create, StateTypeOK, Phases, InProgress, RunPC
  <2>2. seen' \in [Op -> Phases \cup {"None"}]
    BY <1>0, <1>1 DEF Create, OpTypeOK
  <2> QED BY <1>0, <1>a, <1>1, <2>1, <2>2, BeginType DEF Create
<1>2. op[o] \notin {"idle", "next"} => on[o] \in Build
  BY <1>0 DEF OpTypeOK
<1>3. CASE Insert(o)
  <2>1. StateTypeOK'
    BY <1>0, <1>2, <1>3 DEF Insert, StateTypeOK, Phases, InProgress, RunPC
  <2> QED BY <1>0, <1>a, <1>3, <2>1, GotoType DEF Insert
<1>4. CASE InsertError(o)
  <2>1. StateTypeOK'
    BY <1>0, <1>2, <1>4 DEF InsertError, StateTypeOK, RunPC
  <2> QED BY <1>0, <1>4, <2>1, AnswerType DEF InsertError
<1>5. CASE Confirm(o)
  <2>1. StateTypeOK'
    BY <1>0, <1>5 DEF Confirm, StateTypeOK
  <2> QED BY <1>0, <1>a, <1>5, <2>1, AnswerType, GotoType DEF Confirm
<1>6. CASE Reinsert(o)
  <2>1. StateTypeOK'
    BY <1>0, <1>2, <1>6 DEF Reinsert, StateTypeOK, Phases, InProgress
  <2> QED BY <1>0, <1>a, <1>6, <2>1, AnswerType, GotoType DEF Reinsert
<1> QED BY <1>1, <1>3, <1>4, <1>5, <1>6 DEF Creating

LEMMA CancellingTypeOK ==
    ASSUME TypeOK, NEW o \in Op, Cancelling(o)
    PROVE  TypeOK'
<1> SUFFICES StateTypeOK' /\ OpTypeOK'
  BY DEF TypeOK
<1>0. StateTypeOK /\ OpTypeOK
  BY DEF TypeOK
<1>a. {"cancel", "cancelRead", "cancelSave"} \subseteq OpPC /\ {"cancel", "delete"} \subseteq Kinds
  BY DEF OpPC, Kinds
<1>2. op[o] \notin {"idle", "next"} => on[o] \in Build
  BY <1>0 DEF OpTypeOK
<1>1. ASSUME NEW b \in Build, CancelRequest(o, b) \/ DeleteRequest(o, b)
      PROVE  StateTypeOK' /\ OpTypeOK'
  <2>1. StateTypeOK'
    BY <1>0, <1>1 DEF CancelRequest, DeleteRequest, StateTypeOK
  <2>2. seen' \in [Op -> Phases \cup {"None"}]
    BY <1>0, <1>1 DEF CancelRequest, DeleteRequest, OpTypeOK
  <2> QED BY <1>0, <1>a, <1>1, <2>1, <2>2, BeginType DEF CancelRequest, DeleteRequest
<1>3. CASE CancelUnknown(o)
  <2>1. StateTypeOK'
    BY <1>0, <1>2, <1>3 DEF CancelUnknown, StateTypeOK
  <2> QED BY <1>0, <1>3, <2>1, AfterCancelType DEF CancelUnknown
<1>4. CASE Cancel(o)
  <2>1. StateTypeOK'
    BY <1>0, <1>2, <1>4 DEF Cancel, StateTypeOK, Phases, InProgress
  <2> QED BY <1>0, <1>a, <1>4, <2>1, GotoType DEF Cancel
<1>5. CASE CancelRead(o)
  <2>1. StateTypeOK'
    BY <1>0, <1>5 DEF CancelRead, StateTypeOK
  <2> QED BY <1>0, <1>a, <1>5, <2>1, GotoType, AfterCancelType DEF CancelRead
<1>6. CASE CancelSave(o)
  <2>1. StateTypeOK'
    BY <1>0, <1>2, <1>6 DEF CancelSave, StateTypeOK, Phases
  <2> QED BY <1>0, <1>6, <2>1, AfterCancelType DEF CancelSave
<1> QED BY <1>1, <1>3, <1>4, <1>5, <1>6 DEF Cancelling

LEMMA RemovingTypeOK ==
    ASSUME TypeOK, NEW o \in Op, Removing(o)
    PROVE  TypeOK'
<1> SUFFICES StateTypeOK' /\ OpTypeOK'
  BY DEF TypeOK
<1>0. StateTypeOK /\ OpTypeOK
  BY DEF TypeOK
<1>2. op[o] \notin {"idle", "next"} => on[o] \in Build
  BY <1>0 DEF OpTypeOK
<1>1. CASE ClearFailed(o)
  <2>1. StateTypeOK'
    BY <1>0, <1>1 DEF ClearFailed, StateTypeOK
  <2>2. todo' \in [Op -> SUBSET Build] /\ UNCHANGED seen
    BY <1>0, <1>1 DEF ClearFailed, FailedRows, OpTypeOK
  <2>3. /\ op' = [op EXCEPT ![o] = "next"] /\ kind' = [kind EXCEPT ![o] = "clear"]
        /\ on' = [on EXCEPT ![o] = NoBuild]
    BY <1>1 DEF ClearFailed, Begin
  <2> QED BY <1>0, <2>1, <2>2, <2>3 DEF OpTypeOK, OpPC, Kinds
<1>3. ASSUME NEW b \in Build, ClearNext(o, b) PROVE StateTypeOK' /\ OpTypeOK'
  <2>1. StateTypeOK'
    BY <1>0, <1>3 DEF ClearNext, StateTypeOK
  <2> QED BY <1>0, <1>3, <2>1 DEF ClearNext, OpTypeOK, OpPC
<1>4. CASE ClearRows(o)
  <2>1. StateTypeOK'
    BY <1>0, <1>4 DEF ClearRows, StateTypeOK
  <2> QED BY <1>0, <1>4, <2>1, AnswerType DEF ClearRows
<1>5. CASE RemoveDir(o)
  <2>1. StateTypeOK'
    BY <1>0, <1>5 DEF RemoveDir, StateTypeOK
  <2>2. "next" \in OpPC /\ "drop" \in OpPC
    BY DEF OpPC
  <2> QED BY <1>0, <1>5, <2>1, <2>2, GotoType DEF RemoveDir
<1>6. CASE Drop(o)
  <2>1. StateTypeOK'
    BY <1>0, <1>2, <1>6 DEF Drop, StateTypeOK
  <2> QED BY <1>0, <1>6, <2>1, AnswerType DEF Drop
<1> QED BY <1>1, <1>3, <1>4, <1>5, <1>6 DEF Removing

LEMMA PatchingTypeOK ==
    ASSUME TypeOK, NEW o \in Op, Patching(o)
    PROVE  TypeOK'
<1> SUFFICES StateTypeOK' /\ OpTypeOK'
  BY DEF TypeOK
<1>0. StateTypeOK /\ OpTypeOK
  BY DEF TypeOK
<1>1. ASSUME NEW b \in Build, Patch(o, b) PROVE StateTypeOK' /\ OpTypeOK'
  <2>1. StateTypeOK'
    BY <1>0, <1>1 DEF Patch, StateTypeOK
  <2>2. seen' \in [Op -> Phases \cup {"None"}]
    BY <1>0, <1>1 DEF Patch, OpTypeOK, StateTypeOK
  <2>3. "patch" \in Kinds /\ "patchSave" \in OpPC
    BY DEF Kinds, OpPC
  <2> QED BY <1>0, <1>1, <2>1, <2>2, <2>3, BeginType DEF Patch
<1>2. CASE PatchSave(o)
  <2>1. on[o] \in Build /\ seen[o] \in Phases \cup {"None"}
    BY <1>0, <1>2 DEF PatchSave, OpTypeOK
  <2>2. StateTypeOK'
    BY <1>0, <1>2, <2>1 DEF PatchSave, StateTypeOK
  <2> QED BY <1>0, <1>2, <2>2, AnswerType DEF PatchSave
<1> QED BY <1>1, <1>2 DEF Patching

LEMMA RestartTypeOK ==
    ASSUME TypeOK, Restart
    PROVE  TypeOK'
<1>1. PICK lost \in SUBSET OrphanedRows :
         /\ row' = [b \in Build |-> IF b \in OrphanedRows \ lost THEN "Error" ELSE row[b]]
         /\ unsaved' = unsaved \cup lost
  BY DEF Restart
<1>2. unsaved' \in SUBSET Build /\ row' \in [Build -> Phases \cup {"None"}]
  BY <1>1 DEF TypeOK, StateTypeOK, OrphanedRows, Phases
<1> QED BY <1>2 DEF Restart, TypeOK, StateTypeOK, OpTypeOK, RunPC, OpPC, Kinds, Phases

\* Every row, map entry, goroutine and request keeps its type.
THEOREM BuildTypeCorrect == Spec => []TypeOK
<1>1. Init => TypeOK
  BY DEF Init, TypeOK, StateTypeOK, OpTypeOK, Phases, InProgress, RunPC, OpPC, Kinds
<1>2. TypeOK /\ [Next]_vars => TypeOK'
  <2> SUFFICES ASSUME TypeOK, [Next]_vars PROVE TypeOK'
    OBVIOUS
  <2>1. CASE UNCHANGED vars
    BY <2>1 DEF vars, TypeOK, StateTypeOK, OpTypeOK
  <2> QED BY <2>1, RunningTypeOK, CreatingTypeOK, CancellingTypeOK, RemovingTypeOK,
             PatchingTypeOK, RestartTypeOK DEF Next
<1> QED BY <1>1, <1>2, PTL DEF Spec

-----------------------------------------------------------------------------
(* A build cancelled early does not become Ready.                          *)

LEMMA RunningInv ==
    ASSUME TypeOK, BuildInv, NEW b \in Build, Running(b)
    PROVE  BuildInv'
<1> USE DEF TypeOK, StateTypeOK, OpTypeOK, BuildInv, StartInv, OnlyBuiltIsReady, EarlyInv
<1>1. CASE SetPhase(b) BY <1>1 DEF SetPhase
<1>2. CASE ReadRow(b) BY <1>2 DEF ReadRow, Proceed
<1>3. CASE SaveRow(b) BY <1>3 DEF SaveRow, Proceed
<1>4. CASE LosePhase(b) BY <1>4 DEF LosePhase, Proceed
<1>5. CASE Image(b) BY <1>5 DEF Image
<1>6. CASE StepFails(b) BY <1>6 DEF StepFails, SetGoal
<1>7. CASE DeployWrites(b) BY <1>7 DEF DeployWrites
<1>8. CASE DeployEnds(b) BY <1>8 DEF DeployEnds, SetGoal
<1> QED BY <1>1, <1>2, <1>3, <1>4, <1>5, <1>6, <1>7, <1>8 DEF Running

\* A request's own bookkeeping disturbs neither insert nor copy, nor does a row
\* that goes away or becomes Pending or Error.
LEMMA RowInv ==
    ASSUME TypeOK, BuildInv, NEW o \in Op, op[o] # "patchSave",
           \/ Answer(o)
           \/ AfterCancel(o)
           \/ \E pc \in OpPC \ {"insert"} : Goto(o, pc),
           \A b \in Build : row'[b] = row[b] \/ row'[b] # "Ready",
           UNCHANGED <<run, goal, cancelled, early>>
    PROVE  BuildInv'
<1> USE DEF TypeOK, StateTypeOK, OpTypeOK, BuildInv, StartInv, OnlyBuiltIsReady, EarlyInv
<1>1. CASE Answer(o) BY <1>1 DEF Answer
<1>2. ASSUME NEW pc \in OpPC \ {"insert"}, Goto(o, pc) PROVE BuildInv'
  BY <1>2 DEF Goto
<1>3. CASE AfterCancel(o)
  <2>1. "remove" \in OpPC \ {"insert"}
    BY DEF OpPC
  <2> QED BY <1>1, <1>2, <1>3, <2>1 DEF AfterCancel
<1> QED BY <1>1, <1>2, <1>3

\* In particular when the rows stay as they are.
LEMMA OpInv ==
    ASSUME TypeOK, BuildInv, NEW o \in Op, op[o] # "patchSave",
           \/ Answer(o)
           \/ AfterCancel(o)
           \/ \E pc \in OpPC \ {"insert"} : Goto(o, pc),
           UNCHANGED <<row, run, goal, cancelled, early>>
    PROVE  BuildInv'
BY RowInv

LEMMA CreatingInv ==
    ASSUME TypeOK, BuildInv, NEW o \in Op, Creating(o)
    PROVE  BuildInv'
<1>a. {"confirm", "reinsert", "cancel"} \subseteq OpPC \ {"insert"}
  BY DEF OpPC
<1>1. ASSUME NEW b \in Build, Create(o, b) PROVE BuildInv'
  <2> USE DEF TypeOK, StateTypeOK, OpTypeOK, BuildInv, StartInv, OnlyBuiltIsReady, EarlyInv
  <2>1. /\ run[b] = "new" /\ op[o] = "idle"
        /\ op' = [op EXCEPT ![o] = "insert"] /\ on' = [on EXCEPT ![o] = b]
        /\ run' = [run EXCEPT ![b] = "starting"]
        /\ UNCHANGED <<row, cancelled, goal, seen, early>>
    BY <1>1 DEF Create, Begin
  <2>2. goal[b] = "Building" /\ b \notin early
    BY <2>1
  <2>3. StartInv'
    BY <2>1, <2>2
  <2>4. OnlyBuiltIsReady'
    BY <1>1, <2>1, <2>2
  <2>5. EarlyInv'
    BY <2>1, <2>2
  <2> QED BY <2>3, <2>4, <2>5
<1>2. op[o] \notin {"idle", "next"} => on[o] \in Build
  BY DEF TypeOK, OpTypeOK
<1>3. CASE Insert(o)
  <2> USE DEF TypeOK, StateTypeOK, OpTypeOK, BuildInv, StartInv, OnlyBuiltIsReady, EarlyInv
  <2>1. /\ op[o] = "insert" /\ op' = [op EXCEPT ![o] = "confirm"]
        /\ row' = [row EXCEPT ![on[o]] = "Pending"]
        /\ run' = [run EXCEPT ![on[o]] = "set"]
        /\ UNCHANGED <<on, seen, cancelled, goal, early>>
    BY <1>3 DEF Insert, Goto
  <2>2. StartInv'
    BY <1>2, <2>1
  <2>3. OnlyBuiltIsReady'
    BY <1>2, <2>1
  <2>4. EarlyInv'
    BY <1>2, <2>1
  <2> QED BY <2>2, <2>3, <2>4
<1>4. CASE InsertError(o)
  <2> USE DEF TypeOK, StateTypeOK, OpTypeOK, BuildInv, StartInv, OnlyBuiltIsReady, EarlyInv
  <2>1. /\ op[o] = "insert" /\ op' = [op EXCEPT ![o] = "idle"]
        /\ on' = [on EXCEPT ![o] = NoBuild] /\ seen' = [seen EXCEPT ![o] = "None"]
        /\ run' = [run EXCEPT ![on[o]] = "done"]
        /\ cancelled' = cancelled \cup {on[o]}
        /\ UNCHANGED <<row, goal, early>>
    BY <1>4 DEF InsertError, Answer
  <2>2. StartInv'
    BY <1>2, <2>1
  <2>3. OnlyBuiltIsReady'
    BY <1>2, <2>1
  <2>4. EarlyInv'
    BY <1>2, <2>1
  <2> QED BY <2>2, <2>3, <2>4
<1>5. CASE Confirm(o)
  BY <1>a, <1>5, OpInv DEF Confirm
<1>6. CASE Reinsert(o)
  <2>1. \A b \in Build : row'[b] = row[b] \/ row'[b] # "Ready"
    BY <1>2, <1>6 DEF Reinsert, TypeOK, StateTypeOK
  <2> QED BY <1>a, <1>6, <2>1, RowInv DEF Reinsert
<1> QED BY <1>1, <1>3, <1>4, <1>5, <1>6 DEF Creating

LEMMA CancellingInv ==
    ASSUME TypeOK, BuildInv, NEW o \in Op, Cancelling(o)
    PROVE  BuildInv'
<1>a. {"cancelRead", "cancelSave"} \subseteq OpPC \ {"insert"}
  BY DEF OpPC
<1>1. ASSUME NEW b \in Build, CancelRequest(o, b) \/ DeleteRequest(o, b) PROVE BuildInv'
  <2> USE DEF TypeOK, StateTypeOK, OpTypeOK, BuildInv, StartInv, OnlyBuiltIsReady, EarlyInv
  <2>1. /\ op[o] = "idle" /\ op' = [op EXCEPT ![o] = "cancel"]
        /\ on' = [on EXCEPT ![o] = b]
        /\ UNCHANGED <<row, run, goal, cancelled, seen, early>>
    BY <1>1 DEF CancelRequest, DeleteRequest, Begin
  <2> QED BY <1>1, <2>1
<1>2. op[o] \notin {"idle", "next"} => on[o] \in Build
  BY DEF TypeOK, OpTypeOK
<1>3. CASE CancelUnknown(o)
  BY <1>3, OpInv DEF CancelUnknown
<1>4. CASE Cancel(o)
  <2> USE DEF TypeOK, StateTypeOK, OpTypeOK, BuildInv, StartInv, OnlyBuiltIsReady, EarlyInv
  <2>1. /\ op[o] = "cancel" /\ op' = [op EXCEPT ![o] = "cancelRead"]
        /\ cancelled' = cancelled \cup {on[o]}
        /\ early' = IF Unbuilt(on[o]) THEN early \cup {on[o]} ELSE early
        /\ UNCHANGED <<row, run, goal, on, seen>>
    BY <1>4 DEF Cancel, Goto
  <2>2. Unbuilt(on[o]) => goal[on[o]] = "Building" /\ run[on[o]] \notin {"new", "deploy"}
    BY <1>2, <2>1 DEF Unbuilt
  <2>3. EarlyInv'
    BY <1>2, <2>1, <2>2
  <2> QED BY <2>1, <2>3
<1>5. CASE CancelRead(o)
  BY <1>a, <1>5, OpInv DEF CancelRead
<1>6. CASE CancelSave(o)
  <2>1. \A b \in Build : row'[b] = row[b] \/ row'[b] # "Ready"
    BY <1>2, <1>6 DEF CancelSave, TypeOK, StateTypeOK
  <2> QED BY <1>6, <2>1, RowInv DEF CancelSave
<1> QED BY <1>1, <1>3, <1>4, <1>5, <1>6 DEF Cancelling

LEMMA RemovingInv ==
    ASSUME TypeOK, BuildInv, NEW o \in Op, Removing(o)
    PROVE  BuildInv'
<1>2. op[o] \notin {"idle", "next"} => on[o] \in Build
  BY DEF TypeOK, OpTypeOK
<1>1. CASE ClearFailed(o)
  <2> USE DEF TypeOK, StateTypeOK, OpTypeOK, BuildInv, StartInv, OnlyBuiltIsReady, EarlyInv
  <2>1. /\ op[o] = "idle" /\ op' = [op EXCEPT ![o] = "next"]
        /\ on' = [on EXCEPT ![o] = NoBuild]
        /\ UNCHANGED <<row, run, goal, cancelled, seen, early>>
    BY <1>1 DEF ClearFailed, Begin
  <2> QED BY <2>1
<1>3. ASSUME NEW b \in Build, ClearNext(o, b) PROVE BuildInv'
  <2> USE DEF TypeOK, StateTypeOK, OpTypeOK, BuildInv, StartInv, OnlyBuiltIsReady, EarlyInv
  <2>1. /\ op[o] = "next" /\ op' = [op EXCEPT ![o] = "cancel"] /\ on' = [on EXCEPT ![o] = b]
        /\ UNCHANGED <<row, run, goal, cancelled, seen, early>>
    BY <1>3 DEF ClearNext
  <2> QED BY <2>1
<1>4. CASE ClearRows(o)
  <2>1. \A b \in Build : row'[b] = row[b] \/ row'[b] # "Ready"
    BY <1>4 DEF ClearRows, TypeOK, StateTypeOK
  <2> QED BY <1>4, <2>1, RowInv DEF ClearRows
<1>5. CASE RemoveDir(o)
  <2>1. "next" \in OpPC \ {"insert"} /\ "drop" \in OpPC \ {"insert"}
    BY DEF OpPC
  <2> QED BY <1>5, <2>1, OpInv DEF RemoveDir
<1>6. CASE Drop(o)
  <2>1. \A b \in Build : row'[b] = row[b] \/ row'[b] # "Ready"
    BY <1>2, <1>6 DEF Drop, TypeOK, StateTypeOK
  <2> QED BY <1>6, <2>1, RowInv DEF Drop
<1> QED BY <1>1, <1>3, <1>4, <1>5, <1>6 DEF Removing

LEMMA PatchingInv ==
    ASSUME TypeOK, BuildInv, NEW o \in Op, Patching(o)
    PROVE  BuildInv'
<1> USE DEF TypeOK, StateTypeOK, OpTypeOK, BuildInv, StartInv, OnlyBuiltIsReady, EarlyInv
<1>1. ASSUME NEW b \in Build, Patch(o, b) PROVE BuildInv'
  <2>1. /\ op' = [op EXCEPT ![o] = "patchSave"] /\ on' = [on EXCEPT ![o] = b]
        /\ seen' = [seen EXCEPT ![o] = row[b]]
        /\ UNCHANGED <<row, run, goal, cancelled, early>>
    BY <1>1 DEF Patch, Begin
  <2> QED BY <2>1
<1>2. CASE PatchSave(o)
  <2>1. /\ op[o] = "patchSave" /\ on[o] \in Build
        /\ row' = [row EXCEPT ![on[o]] = seen[o]] \/ UNCHANGED row
        /\ op' = [op EXCEPT ![o] = "idle"] /\ on' = [on EXCEPT ![o] = NoBuild]
        /\ seen' = [seen EXCEPT ![o] = "None"]
        /\ UNCHANGED <<run, goal, cancelled, early>>
    BY <1>2 DEF PatchSave, Answer
  <2>2. OnlyBuiltIsReady'
    BY <2>1
  <2> QED BY <2>1, <2>2
<1> QED BY <1>1, <1>2 DEF Patching

LEMMA RestartInv ==
    ASSUME TypeOK, BuildInv, Restart
    PROVE  BuildInv'
<1> USE DEF TypeOK, StateTypeOK, OpTypeOK, BuildInv, StartInv, OnlyBuiltIsReady, EarlyInv
<1>1. \A b \in Build : row'[b] = row[b] \/ row'[b] # "Ready"
  BY DEF Restart
<1> QED BY <1>1 DEF Restart

\* The inductive invariant holds in every state.
THEOREM BuildInvariance == Spec => []BuildInv
<1>1. Init => BuildInv
  BY DEF Init, BuildInv, StartInv, OnlyBuiltIsReady, EarlyInv
<1>2. TypeOK /\ BuildInv /\ [Next]_vars => BuildInv'
  <2> SUFFICES ASSUME TypeOK, BuildInv, [Next]_vars PROVE BuildInv'
    OBVIOUS
  <2>1. CASE UNCHANGED vars
    BY <2>1 DEF vars, BuildInv, StartInv, OnlyBuiltIsReady, EarlyInv
  <2> QED BY <2>1, RunningInv, CreatingInv, CancellingInv, RemovingInv, PatchingInv,
             RestartInv DEF Next
<1> QED BY <1>1, <1>2, BuildTypeCorrect, PTL DEF Spec

\* However cancellation, deletion, clean-up, PATCH and restart interleave with the
\* goroutine, a build cancelled before its image was built is never shown Ready.
THEOREM CancelledEarlyNeverReady == Spec => []EarlyCancelSticks
<1>1. TypeOK /\ BuildInv => EarlyCancelSticks
  BY DEF TypeOK, StateTypeOK, BuildInv, EarlyInv, OnlyBuiltIsReady, EarlyCancelSticks
<1> QED BY <1>1, BuildInvariance, BuildTypeCorrect, PTL

-----------------------------------------------------------------------------
(* A row in progress is driven by its goroutine.                           *)

Exempt == stale \cup revived \cup unsaved
Undriven == {"new", "starting", "done"}

\* A step that puts no row in progress and stops no goroutine keeps the
\* property.
LEMMA StillDriven ==
    ASSUME InProgressIsDriven, Exempt \subseteq Exempt',
           \A b \in Build \ Exempt' :
              \/ row'[b] \notin InProgress
              \/ run'[b] \notin Undriven
              \/ row'[b] = row[b] /\ run'[b] = run[b]
    PROVE  InProgressIsDriven'
BY DEF InProgressIsDriven, Exempt, Undriven

LEMMA RunningDriven ==
    ASSUME TypeOK, InProgressIsDriven, NEW b \in Build, Running(b)
    PROVE  InProgressIsDriven'
<1>1. row \in [Build -> Phases \cup {"None"}] /\ run \in [Build -> RunPC]
      /\ goal \in [Build -> {"Building", "Ready", "Error"}]
  BY DEF TypeOK, StateTypeOK
<1> USE DEF Exempt, Undriven, InProgress
<1>2. CASE SetPhase(b) BY <1>1, <1>2, StillDriven DEF SetPhase
<1>3. CASE ReadRow(b) BY <1>1, <1>3, StillDriven DEF ReadRow, Proceed, ContextEnded
<1>4. CASE SaveRow(b)
  <2>1. CASE goal[b] = "Building"
    BY <1>1, <1>4, <2>1, StillDriven DEF SaveRow, Proceed
  <2>2. CASE goal[b] # "Building"
    BY <1>1, <1>4, <2>2, StillDriven DEF SaveRow, Proceed, ContextEnded
  <2> QED BY <2>1, <2>2
<1>5. CASE LosePhase(b) BY <1>1, <1>5, StillDriven DEF LosePhase, Proceed
<1>6. CASE Image(b) BY <1>1, <1>6, StillDriven DEF Image
<1>7. CASE StepFails(b) BY <1>1, <1>7, StillDriven DEF StepFails, SetGoal
<1>8. CASE DeployWrites(b) BY <1>1, <1>8, StillDriven DEF DeployWrites
<1>9. CASE DeployEnds(b) BY <1>1, <1>9, StillDriven DEF DeployEnds, SetGoal
<1> QED BY <1>2, <1>3, <1>4, <1>5, <1>6, <1>7, <1>8, <1>9 DEF Running

\* A build is stopped before it started only when it has no row in progress.
LEMMA RequestDriven ==
    ASSUME TypeOK, StartInv, InProgressIsDriven, NEW o \in Op,
           Creating(o) \/ Cancelling(o) \/ Removing(o) \/ Patching(o)
    PROVE  InProgressIsDriven'
<1>1. row \in [Build -> Phases \cup {"None"}] /\ run \in [Build -> RunPC]
  BY DEF TypeOK, StateTypeOK
<1>2. op[o] \notin {"idle", "next"} => on[o] \in Build
  BY DEF TypeOK, OpTypeOK
<1> USE DEF Exempt, Undriven, InProgress
<1>3. ASSUME NEW b \in Build, Create(o, b) PROVE InProgressIsDriven'
  BY <1>1, <1>3 DEF Create, InProgressIsDriven
<1>4. CASE Insert(o) BY <1>1, <1>2, <1>4, StillDriven DEF Insert
<1>5. CASE InsertError(o)
  BY <1>1, <1>2, <1>5 DEF InsertError, InProgressIsDriven, StartInv
<1>6. CASE Reinsert(o) BY <1>1, <1>2, <1>6, StillDriven DEF Reinsert
<1>7. CASE CancelSave(o) BY <1>1, <1>2, <1>7, StillDriven DEF CancelSave
<1>8. CASE Drop(o) BY <1>1, <1>2, <1>8, StillDriven DEF Drop
<1>9. CASE ClearRows(o) BY <1>1, <1>9, StillDriven DEF ClearRows
<1>10. CASE PatchSave(o)
  <2>1. \A b \in Build \ Exempt' : row'[b] = row[b] /\ run'[b] = run[b]
    BY <1>1, <1>2, <1>10 DEF PatchSave
  <2>2. Exempt \subseteq Exempt'
    BY <1>10 DEF PatchSave
  <2> QED BY <2>1, <2>2, StillDriven
<1>11. CASE UNCHANGED <<row, run, stale, revived, unsaved>>
  BY <1>11, StillDriven
<1> QED BY <1>3, <1>4, <1>5, <1>6, <1>7, <1>8, <1>9, <1>10, <1>11
        DEF Creating, Cancelling, Removing, Patching, Confirm, CancelRequest, DeleteRequest,
            CancelUnknown, Cancel, CancelRead, ClearFailed, ClearNext, RemoveDir, Patch

LEMMA RestartDriven ==
    ASSUME TypeOK, InProgressIsDriven, Restart
    PROVE  InProgressIsDriven'
<1>1. PICK lost \in SUBSET OrphanedRows :
         /\ row' = [b \in Build |-> IF b \in OrphanedRows \ lost THEN "Error" ELSE row[b]]
         /\ unsaved' = unsaved \cup lost
  BY DEF Restart
<1>2. \A b \in Build \ unsaved' : row'[b] \notin InProgress
  BY <1>1 DEF OrphanedRows, InProgress
<1> QED BY <1>2 DEF InProgressIsDriven

\* Whatever races and restarts, a row shows a build in progress only while a
\* goroutine works on it, but for a PATCH with an old phase, a second insert and
\* ignored database errors.
THEOREM InProgressRowsAreDriven == Spec => []InProgressIsDriven
<1>1. Init => InProgressIsDriven
  BY DEF Init, InProgressIsDriven, InProgress
<1>2. TypeOK /\ BuildInv /\ InProgressIsDriven /\ [Next]_vars => InProgressIsDriven'
  <2> SUFFICES ASSUME TypeOK, BuildInv, InProgressIsDriven, [Next]_vars
               PROVE  InProgressIsDriven'
    OBVIOUS
  <2>1. CASE UNCHANGED vars
    BY <2>1 DEF vars, InProgressIsDriven
  <2> QED BY <2>1, RunningDriven, RequestDriven, RestartDriven DEF Next, BuildInv
<1> QED BY <1>1, <1>2, BuildInvariance, BuildTypeCorrect, PTL DEF Spec

-----------------------------------------------------------------------------
(* A Ready artifact keeps its output.                                      *)

\* What every step keeps of a build that was given up: it stays on record, its
\* goroutine does not come back, and no row turns Ready but by an old copy.
LEMMA GivenUpStays ==
    ASSUME TypeOK, StartInv, [Next]_vars, NEW b \in Build, GivenUp(b)
    PROVE  GivenUp(b)'
<1>0. /\ row \in [Build -> Phases \cup {"None"}] /\ run \in [Build -> RunPC]
      /\ goal \in [Build -> {"Building", "Ready", "Error"}]
      /\ \A o \in Op : op[o] \notin {"idle", "next"} => on[o] \in Build
  BY DEF TypeOK, StateTypeOK, OpTypeOK
<1>1. asked \subseteq asked' /\ stale \subseteq stale'
  BY DEF Next, vars, Running, SetPhase, ReadRow, SaveRow, LosePhase, Image, StepFails,
         DeployWrites, DeployEnds, Creating, Create, Insert, InsertError, Confirm, Reinsert,
         Cancelling, CancelRequest, DeleteRequest, CancelUnknown, Cancel, CancelRead, CancelSave,
         Removing, ClearFailed, ClearNext, ClearRows, RemoveDir, Drop, Patching, Patch, PatchSave,
         Restart
<1>2. CASE b \in asked \cup stale
  BY <1>1, <1>2 DEF GivenUp
<1> USE DEF GivenUp
<1>3. CASE b \notin asked \cup stale
  <2>1. row[b] # "Ready" /\ (run[b] = "done" \/ goal[b] = "Error")
    BY <1>3
  <2>2. ASSUME NEW c \in Build, Running(c) PROVE GivenUp(b)'
    <3> USE <1>0, <1>3, <2>1, <2>2
    <3>1. CASE SetPhase(c) BY <3>1 DEF SetPhase
    <3>2. CASE ReadRow(c) BY <3>2 DEF ReadRow, Proceed
    <3>3. CASE SaveRow(c) BY <3>3 DEF SaveRow, Proceed
    <3>4. CASE LosePhase(c) BY <3>4 DEF LosePhase, Proceed
    <3>5. CASE Image(c) BY <3>5 DEF Image
    <3>6. CASE StepFails(c) BY <3>6 DEF StepFails, SetGoal
    <3>7. CASE DeployWrites(c) BY <3>7 DEF DeployWrites
    <3>8. CASE DeployEnds(c) BY <3>8 DEF DeployEnds, SetGoal, StartInv
    <3> QED BY <3>1, <3>2, <3>3, <3>4, <3>5, <3>6, <3>7, <3>8 DEF Running
  <2>3. ASSUME NEW o \in Op, Creating(o) PROVE GivenUp(b)'
    <3> USE <1>0, <1>3, <2>1, <2>3
    <3>1. ASSUME NEW c \in Build, Create(o, c) PROVE GivenUp(b)'
      BY <3>1 DEF Create, StartInv
    <3>2. CASE Insert(o) BY <3>2 DEF Insert, StartInv
    <3>3. CASE InsertError(o) BY <3>3 DEF InsertError
    <3>4. CASE Confirm(o) BY <3>4 DEF Confirm
    <3>5. CASE Reinsert(o) BY <3>5 DEF Reinsert
    <3> QED BY <3>1, <3>2, <3>3, <3>4, <3>5 DEF Creating
  <2>4. ASSUME NEW o \in Op, Cancelling(o) PROVE GivenUp(b)'
    BY <1>0, <2>1, <2>4 DEF Cancelling, CancelRequest, DeleteRequest, CancelUnknown, Cancel,
       CancelRead, CancelSave
  <2>5. ASSUME NEW o \in Op, Removing(o) PROVE GivenUp(b)'
    BY <1>0, <2>1, <2>5 DEF Removing, ClearFailed, ClearNext, ClearRows, RemoveDir, Drop
  <2>6. ASSUME NEW o \in Op, Patching(o) PROVE GivenUp(b)'
    BY <1>0, <2>1, <2>6 DEF Patching, Patch, PatchSave
  <2>7. CASE Restart
    <3>1. run'[b] = "done" \/ goal'[b] = "Error"
      BY <1>0, <2>1, <2>7 DEF Restart
    <3>2. row'[b] # "Ready"
      BY <1>0, <2>1, <2>7 DEF Restart
    <3> QED BY <3>1, <3>2
  <2>8. CASE UNCHANGED vars
    BY <2>1, <2>8 DEF vars
  <2> QED BY <2>2, <2>3, <2>4, <2>5, <2>6, <2>7, <2>8 DEF Next
<1> QED BY <1>2, <1>3

\* A step of a goroutine touches no request, and what it fails it has given up.
LEMMA RunningOutput ==
    ASSUME TypeOK, StartInv, OutputInv, NEW b \in Build, Running(b),
           \A c \in Build : GivenUp(c) => GivenUp(c)'
    PROVE  OutputInv'
<1>0. /\ row \in [Build -> Phases \cup {"None"}] /\ run \in [Build -> RunPC]
      /\ goal \in [Build -> {"Building", "Ready", "Error"}] /\ dirs \in SUBSET Build
      /\ \A o \in Op : op[o] \notin {"idle", "next"} => on[o] \in Build
      /\ todo \in [Op -> SUBSET Build] /\ on \in [Op -> Build \cup {NoBuild}]
  BY DEF TypeOK, StateTypeOK, OpTypeOK
<1>1. UNCHANGED opVars /\ dirs \subseteq dirs' /\ run[b] # "new"
  BY DEF Running, SetPhase, ReadRow, SaveRow, LosePhase, Image, StepFails, DeployWrites, DeployEnds
<1>2. /\ run'[b] # "new" /\ \A c \in Build : c # b => run'[c] = run[c] /\ row'[c] = row[c]
      /\ run[b] # "new"
  BY <1>0 DEF Running, SetPhase, ReadRow, SaveRow, LosePhase, Image, StepFails, DeployWrites,
              DeployEnds, Proceed, SetGoal
<1>3. row'[b] = "Error" => row'[b] = row[b] \/ (goal'[b] = "Error" /\ row'[b] # "Ready")
  BY <1>0 DEF Running, SetPhase, ReadRow, SaveRow, LosePhase, Image, StepFails, DeployWrites,
              DeployEnds, Proceed, SetGoal
<1>4. KnownInv'
  BY <1>0, <1>1, <1>2 DEF KnownInv, OutputInv
<1>5. \A c \in Build : row'[c] = "Error" => GivenUp(c)'
  <2> SUFFICES ASSUME NEW c \in Build, row'[c] = "Error" PROVE GivenUp(c)'
    OBVIOUS
  <2>1. CASE row'[c] = row[c] BY <2>1 DEF OutputInv, DiscardInv
  <2>2. CASE goal'[c] = "Error" /\ row'[c] # "Ready" BY <2>2 DEF GivenUp
  <2> QED BY <1>2, <1>3, <2>1, <2>2
<1>6. \A c \in Build : run'[c] # "new" /\ c \notin dirs' => GivenUp(c)'
  BY <1>1, <1>2 DEF OutputInv, DiscardInv
<1>7. /\ \A o \in Op : \A c \in todo'[o] : GivenUp(c)'
      /\ \A o \in Op : Discarding(o)' => GivenUp(on[o])'
  BY <1>0, <1>1 DEF OutputInv, DiscardInv, Discarding
<1> QED BY <1>4, <1>5, <1>6, <1>7 DEF OutputInv, DiscardInv

\* A request that answers, or moves on without discarding anything new, keeps
\* the requests' part.
LEMMA OpOutput ==
    ASSUME TypeOK, OutputInv, NEW o \in Op,
           \A c \in Build : GivenUp(c) => GivenUp(c)',
           \A c \in Build : run[c] # "new" => run'[c] # "new",
           \A p \in Op : p # o => op'[p] = op[p] /\ kind'[p] = kind[p] /\ on'[p] = on[p]
                                  /\ todo'[p] = todo[p],
           on'[o] \in Build => run'[on'[o]] # "new",
           todo'[o] \subseteq todo[o] \cup FailedRows,
           op'[o] \in {"insert", "confirm", "reinsert"} => kind'[o] = "create",
           Discarding(o)' => GivenUp(on[o])',
           \A c \in Build : row'[c] # "None" => row[c] # "None" \/ run'[c] # "new",
           \A c \in Build : row'[c] = "Error" => row[c] = "Error" \/ GivenUp(c)',
           \A c \in Build : run'[c] # "new" /\ c \notin dirs' =>
              (run[c] # "new" /\ c \notin dirs) \/ GivenUp(c)'
    PROVE  OutputInv'
<1>0. /\ todo \in [Op -> SUBSET Build] /\ on \in [Op -> Build \cup {NoBuild}]
      /\ \A p \in Op : op[p] \notin {"idle", "next"} => on[p] \in Build
  BY DEF TypeOK, OpTypeOK
<1>1. \A c \in FailedRows : c \in Build /\ run[c] # "new" /\ GivenUp(c)
  BY DEF FailedRows, OutputInv, KnownInv, DiscardInv
<1>2. \A p \in Op : \A c \in todo'[p] : c \in Build /\ run'[c] # "new" /\ GivenUp(c)'
  <2> SUFFICES ASSUME NEW p \in Op, NEW c \in todo'[p]
               PROVE  c \in Build /\ run'[c] # "new" /\ GivenUp(c)'
    OBVIOUS
  <2>1. \/ c \in todo[p]
        \/ c \in FailedRows
    OBVIOUS
  <2>2. c \in todo[p] => c \in Build /\ run[c] # "new" /\ GivenUp(c)
    BY <1>0 DEF OutputInv, KnownInv, DiscardInv
  <2> QED BY <1>1, <2>1, <2>2
<1>3. \A p \in Op : on'[p] \in Build => run'[on'[p]] # "new"
  BY <1>0 DEF OutputInv, KnownInv
<1>4. KnownInv'
  BY <1>2, <1>3 DEF OutputInv, KnownInv
<1>5. \A p \in Op : Discarding(p)' => GivenUp(on[p])'
  <2> SUFFICES ASSUME NEW p \in Op, p # o, Discarding(p)' PROVE GivenUp(on[p])'
    OBVIOUS
  <2>1. Discarding(p) /\ on'[p] = on[p] /\ on[p] \in Build
    BY <1>0 DEF Discarding
  <2>2. GivenUp(on[p])
    BY <2>1 DEF OutputInv, DiscardInv
  <2> QED BY <2>1, <2>2 DEF GivenUp
<1> QED BY <1>2, <1>4, <1>5 DEF OutputInv, DiscardInv

\* What a request's bookkeeping does to its own four variables.
LEMMA OpMoves ==
    ASSUME TypeOK, NEW o \in Op,
           \/ Answer(o)
           \/ AfterCancel(o)
           \/ \E pc \in OpPC : Goto(o, pc)
    PROVE  /\ \A p \in Op : p # o => op'[p] = op[p] /\ kind'[p] = kind[p] /\ on'[p] = on[p]
                                     /\ todo'[p] = todo[p]
           /\ on'[o] \in Build => on'[o] = on[o]
           /\ todo'[o] \subseteq todo[o] \cup FailedRows
           /\ op'[o] = "idle" \/ (on'[o] = on[o] /\ kind'[o] = kind[o])
<1> USE DEF TypeOK, OpTypeOK
<1>1. CASE Answer(o) BY <1>1 DEF Answer
<1>2. ASSUME NEW pc \in OpPC, Goto(o, pc) PROVE
             /\ \A p \in Op : p # o => op'[p] = op[p] /\ kind'[p] = kind[p] /\ on'[p] = on[p]
                                     /\ todo'[p] = todo[p]
             /\ on'[o] = on[o] /\ todo'[o] = todo[o] /\ kind'[o] = kind[o]
  BY <1>2 DEF Goto
<1>3. "remove" \in OpPC
  BY DEF OpPC
<1> QED BY <1>1, <1>2, <1>3 DEF AfterCancel

LEMMA CreatingOutput ==
    ASSUME TypeOK, StartInv, OutputInv, NEW o \in Op, Creating(o),
           \A c \in Build : GivenUp(c) => GivenUp(c)'
    PROVE  OutputInv'
<1>0. /\ row \in [Build -> Phases \cup {"None"}] /\ run \in [Build -> RunPC]
      /\ dirs \in SUBSET Build
      /\ op \in [Op -> OpPC] /\ kind \in [Op -> Kinds]
      /\ op[o] \notin {"idle", "next"} => on[o] \in Build
      /\ todo \in [Op -> SUBSET Build] /\ on \in [Op -> Build \cup {NoBuild}]
  BY DEF TypeOK, StateTypeOK, OpTypeOK
<1>a. {"confirm", "reinsert", "cancel"} \subseteq OpPC
  BY DEF OpPC
<1>b. /\ on[o] \in Build => run[on[o]] # "new"
      /\ op[o] \in {"insert", "confirm", "reinsert"} => kind[o] = "create"
  BY DEF OutputInv, KnownInv
<1>1. ASSUME NEW b \in Build, Create(o, b) PROVE OutputInv'
  <2>1. /\ op' = [op EXCEPT ![o] = "insert"] /\ kind' = [kind EXCEPT ![o] = "create"]
        /\ on' = [on EXCEPT ![o] = b] /\ todo' = todo
        /\ run' = [run EXCEPT ![b] = "starting"] /\ row' = row /\ dirs' = dirs \cup {b}
    BY <1>1 DEF Create, Begin
  <2>2. ~Discarding(o)'
    BY <1>0, <2>1 DEF Discarding
  <2>3. \A c \in Build : run'[c] # "new" /\ c \notin dirs' => run[c] # "new" /\ c \notin dirs
    BY <1>0, <2>1
  <2>4. \A p \in Op : p # o => op'[p] = op[p] /\ kind'[p] = kind[p] /\ on'[p] = on[p]
                                     /\ todo'[p] = todo[p]
    BY <1>0, <2>1
  <2>5. on'[o] = b /\ kind'[o] = "create" /\ run'[b] # "new" /\ \A c \in Build : run[c] # "new" => run'[c] # "new"
    BY <1>0, <2>1
  <2> QED BY <1>0, <2>1, <2>2, <2>3, <2>4, <2>5, OpOutput
<1>2. CASE Insert(o)
  <2>1. /\ Goto(o, "confirm") /\ op[o] = "insert" /\ dirs' = dirs
        /\ run' = [run EXCEPT ![on[o]] = "set"] /\ row' = [row EXCEPT ![on[o]] = "Pending"]
    BY <1>2 DEF Insert
  <2>2. ~Discarding(o)'
    BY <1>0, <2>1 DEF Discarding, Goto
  <2>3. /\ \A c \in Build : (run[c] # "new" <=> run'[c] # "new")
        /\ \A c \in Build : row'[c] # "None" => row[c] # "None" \/ run'[c] # "new"
        /\ \A c \in Build : row'[c] = "Error" => row[c] = "Error"
    BY <1>0, <1>b, <2>1
  <2> QED BY <1>0, <1>a, <1>b, <2>1, <2>2, <2>3, OpMoves, OpOutput
<1>3. CASE InsertError(o)
  <2>1. Answer(o) /\ op[o] = "insert" /\ dirs' = dirs /\ run' = [run EXCEPT ![on[o]] = "done"] /\ row' = row
    BY <1>3 DEF InsertError
  <2>2. ~Discarding(o)'
    BY <1>0, <2>1 DEF Discarding, Answer
  <2>3. \A c \in Build : (run[c] # "new" <=> run'[c] # "new")
    BY <1>0, <1>b, <2>1
  <2> QED BY <1>0, <1>b, <2>1, <2>2, <2>3, OpMoves, OpOutput
<1>4. CASE Confirm(o)
  <2>1. op[o] = "confirm" /\ (Answer(o) \/ Goto(o, "reinsert"))
    BY <1>4 DEF Confirm
  <2>2. ~Discarding(o)'
    BY <1>0, <2>1 DEF Discarding, Answer, Goto
  <2>3. UNCHANGED <<row, run, dirs>>
    BY <1>4 DEF Confirm
  <2> QED BY <1>0, <1>a, <1>b, <2>1, <2>2, <2>3, OpMoves, OpOutput
<1>5. CASE Reinsert(o)
  <2>1. Answer(o) \/ Goto(o, "cancel")
    BY <1>5 DEF Reinsert
  <2>2. /\ UNCHANGED <<run, dirs>> /\ op[o] = "reinsert"
        /\ row' = row \/ row' = [row EXCEPT ![on[o]] = "Pending"]
    BY <1>5 DEF Reinsert
  <2>4. /\ \A c \in Build : row'[c] # "None" => row[c] # "None" \/ run'[c] # "new"
        /\ \A c \in Build : row'[c] = "Error" => row[c] = "Error"
    BY <1>0, <1>b, <2>2
  <2>5. Discarding(o)' => GivenUp(on[o])'
    <3>1. CASE Answer(o) BY <1>0, <3>1 DEF Answer, Discarding
    <3>2. CASE Goto(o, "cancel") /\ kind[o] # "clear"
      BY <1>0, <3>2 DEF Goto, Discarding
    <3> QED BY <1>b, <2>1, <2>2, <3>1, <3>2
  <2> QED BY <1>0, <1>a, <1>b, <2>1, <2>2, <2>4, <2>5, OpMoves, OpOutput
<1> QED BY <1>1, <1>2, <1>3, <1>4, <1>5 DEF Creating

\* Builder.Cancel: what it has in hand is asked away, or comes from the list of
\* failed builds.
LEMMA CancellingOutput ==
    ASSUME TypeOK, StartInv, OutputInv, NEW o \in Op, Cancelling(o),
           \A c \in Build : GivenUp(c) => GivenUp(c)'
    PROVE  OutputInv'
<1>0. /\ row \in [Build -> Phases \cup {"None"}]
      /\ op \in [Op -> OpPC] /\ kind \in [Op -> Kinds]
      /\ op[o] \notin {"idle", "next"} => on[o] \in Build
      /\ todo \in [Op -> SUBSET Build] /\ on \in [Op -> Build \cup {NoBuild}]
  BY DEF TypeOK, StateTypeOK, OpTypeOK
<1>a. {"cancelRead", "cancelSave", "remove"} \subseteq OpPC
  BY DEF OpPC
<1>b. /\ on[o] \in Build => run[on[o]] # "new"
      /\ \A b \in Build : row[b] # "None" => run[b] # "new"
      /\ Discarding(o) => GivenUp(on[o])
  BY DEF OutputInv, KnownInv, DiscardInv
<1>c. UNCHANGED <<run, goal, dirs, stale>>
  BY DEF Cancelling, CancelRequest, DeleteRequest, CancelUnknown, Cancel, CancelRead, CancelSave
<1>1. ASSUME NEW b \in Build, CancelRequest(o, b) \/ DeleteRequest(o, b) PROVE OutputInv'
  <2>1. /\ op' = [op EXCEPT ![o] = "cancel"] /\ on' = [on EXCEPT ![o] = b]
        /\ kind' = [kind EXCEPT ![o] = "cancel"] \/ kind' = [kind EXCEPT ![o] = "delete"]
        /\ todo' = todo /\ row' = row
        /\ run[b] # "new"
    BY <1>b, <1>1 DEF CancelRequest, DeleteRequest, Begin
  <2>2. ~Discarding(o)' /\ on'[o] = b /\ op'[o] = "cancel"
    BY <1>0, <2>1 DEF Discarding
  <2>3. \A p \in Op : p # o => op'[p] = op[p] /\ kind'[p] = kind[p] /\ on'[p] = on[p]
                               /\ todo'[p] = todo[p]
    BY <1>0, <2>1
  <2> QED BY <1>0, <1>c, <2>1, <2>2, <2>3, OpOutput
<1>2. ASSUME NEW b \in Build, b = on[o], GivenUp(b)',
             \/ AfterCancel(o)
             \/ \E pc \in {"cancelRead", "cancelSave"} : Goto(o, pc),
             row' = row \/ row' = [row EXCEPT ![b] = "Error"]
      PROVE  OutputInv'
  <2>1. /\ \A p \in Op : p # o => op'[p] = op[p] /\ kind'[p] = kind[p] /\ on'[p] = on[p]
                                  /\ todo'[p] = todo[p]
        /\ on'[o] \in Build => on'[o] = b
        /\ op'[o] # "idle" => on'[o] = b
        /\ todo'[o] \subseteq todo[o] \cup FailedRows
    BY <1>a, <1>2, OpMoves
  <2>2. op'[o] \in {"idle", "remove", "cancelRead", "cancelSave"}
    BY <1>0, <1>2 DEF Answer, AfterCancel, Goto
  <2>3. /\ \A c \in Build : row'[c] # "None" => row[c] # "None" \/ run'[c] # "new"
        /\ \A c \in Build : row'[c] = "Error" => row[c] = "Error" \/ GivenUp(c)'
        /\ run'[b] # "new"
    BY <1>0, <1>b, <1>c, <1>2
  <2>4. Discarding(o)' => GivenUp(on[o])'
    <3> HAVE Discarding(o)'
    <3>1. on'[o] = b
      BY <2>1 DEF Discarding
    <3> QED BY <1>2, <3>1 DEF GivenUp
  <2> QED BY <1>0, <1>c, <2>1, <2>2, <2>3, <2>4, OpOutput
<1>3. CASE CancelUnknown(o) \/ Cancel(o)
  <2>1. op[o] = "cancel" /\ on[o] \in Build /\ UNCHANGED row
    BY <1>0, <1>3 DEF CancelUnknown, Cancel
  <2>2. CASE kind[o] = "clear"
    <3>1. GivenUp(on[o])
      BY <1>b, <2>1, <2>2 DEF Discarding
    <3> QED BY <1>2, <1>3, <2>1, <3>1 DEF CancelUnknown, Cancel
  <2>3. CASE kind[o] # "clear"
    <3>0. PICK b \in Build : b = on[o]
      BY <2>1
    <3>1. b \in asked'
      BY <1>3, <2>3, <3>0 DEF CancelUnknown, Cancel
    <3>2. GivenUp(b)'
      BY <3>1 DEF GivenUp
    <3> QED BY <1>2, <1>3, <2>1, <3>0, <3>2 DEF CancelUnknown, Cancel
  <2> QED BY <2>2, <2>3
<1>4. CASE CancelRead(o) \/ CancelSave(o)
  <2>1. on[o] \in Build /\ GivenUp(on[o])
    BY <1>0, <1>b, <1>4 DEF CancelRead, CancelSave, Discarding
  <2> QED BY <1>2, <1>4, <2>1 DEF CancelRead, CancelSave
<1> QED BY <1>1, <1>3, <1>4 DEF Cancelling

\* DELETE and the clean-up of failed builds only remove what is given up.
LEMMA RemovingOutput ==
    ASSUME TypeOK, StartInv, OutputInv, NEW o \in Op, Removing(o),
           \A c \in Build : GivenUp(c) => GivenUp(c)'
    PROVE  OutputInv'
<1>0. /\ row \in [Build -> Phases \cup {"None"}]
      /\ op \in [Op -> OpPC] /\ kind \in [Op -> Kinds]
      /\ op[o] \notin {"idle", "next"} => on[o] \in Build
      /\ todo \in [Op -> SUBSET Build] /\ on \in [Op -> Build \cup {NoBuild}]
  BY DEF TypeOK, StateTypeOK, OpTypeOK
<1>a. {"next", "drop"} \subseteq OpPC
  BY DEF OpPC
<1>b. /\ on[o] \in Build => run[on[o]] # "new"
      /\ \A b \in todo[o] : run[b] # "new" /\ GivenUp(b)
      /\ Discarding(o) => GivenUp(on[o])
  BY DEF OutputInv, KnownInv, DiscardInv
<1>c. UNCHANGED run
  BY DEF Removing, ClearFailed, ClearNext, ClearRows, RemoveDir, Drop
<1>1. CASE ClearFailed(o)
  <2>1. /\ op' = [op EXCEPT ![o] = "next"] /\ on' = [on EXCEPT ![o] = NoBuild]
        /\ kind' = [kind EXCEPT ![o] = "clear"]
        /\ todo' = todo \/ todo' = [todo EXCEPT ![o] = FailedRows]
        /\ UNCHANGED <<row, dirs>>
    BY <1>1 DEF ClearFailed, Begin
  <2>2. ~Discarding(o)' /\ on'[o] = NoBuild /\ op'[o] = "next"
    BY <1>0, <2>1 DEF Discarding
  <2>3. /\ todo'[o] \subseteq todo[o] \cup FailedRows
        /\ \A p \in Op : p # o => op'[p] = op[p] /\ kind'[p] = kind[p] /\ on'[p] = on[p]
                                  /\ todo'[p] = todo[p]
    BY <1>0, <2>1
  <2> QED BY <1>0, <1>c, <2>1, <2>2, <2>3, OpOutput
<1>2. ASSUME NEW b \in Build, ClearNext(o, b) PROVE OutputInv'
  <2>1. /\ op' = [op EXCEPT ![o] = "cancel"] /\ on' = [on EXCEPT ![o] = b]
        /\ kind' = kind /\ b \in todo[o]
        /\ todo' = [todo EXCEPT ![o] = @ \ {b}]
        /\ UNCHANGED <<row, dirs>>
    BY <1>2 DEF ClearNext
  <2>2. GivenUp(b)' /\ run[b] # "new"
    BY <1>b, <2>1
  <2>3. on'[o] = b /\ op'[o] = "cancel"
    BY <1>0, <2>1
  <2>4. GivenUp(on[o])'
    BY <2>2, <2>3 DEF GivenUp
  <2>5. /\ todo'[o] \subseteq todo[o] \cup FailedRows
        /\ \A p \in Op : p # o => op'[p] = op[p] /\ kind'[p] = kind[p] /\ on'[p] = on[p]
                                  /\ todo'[p] = todo[p]
    BY <1>0, <2>1
  <2> QED BY <1>0, <1>c, <2>1, <2>2, <2>3, <2>4, <2>5, OpOutput
<1>3. CASE ClearRows(o) \/ Drop(o)
  <2>1. /\ Answer(o) /\ UNCHANGED dirs
        /\ \A c \in Build : row'[c] = row[c] \/ row'[c] = "None"
    BY <1>0, <1>3 DEF ClearRows, Drop
  <2>2. ~Discarding(o)' /\ op'[o] = "idle"
    BY <1>0, <2>1 DEF Answer, Discarding
  <2> QED BY <1>0, <1>b, <1>c, <2>1, <2>2, OpMoves, OpOutput
<1>4. CASE RemoveDir(o)
  <2>0. PICK b \in Build : b = on[o]
    BY <1>0, <1>4 DEF RemoveDir
  <2>1. /\ dirs' = dirs \ {b} /\ op[o] = "remove"
        /\ \E pc \in {"next", "drop"} : Goto(o, pc)
        /\ UNCHANGED row
    BY <1>0, <1>4, <2>0 DEF RemoveDir
  <2>2. GivenUp(b) /\ run[b] # "new"
    BY <1>b, <2>0, <2>1 DEF Discarding
  <2>3. GivenUp(b)'
    BY <2>2
  <2>4. op'[o] \in {"next", "drop"} /\ ~Discarding(o)'
    BY <1>0, <2>1 DEF Goto, Discarding
  <2> QED BY <1>0, <1>a, <1>b, <1>c, <2>1, <2>3, <2>4, OpMoves, OpOutput
<1> QED BY <1>1, <1>2, <1>3, <1>4 DEF Removing

\* A PATCH writes a phase that the row had, or leaves the build exempt.
LEMMA PatchingOutput ==
    ASSUME TypeOK, StartInv, OutputInv, NEW o \in Op, Patching(o),
           \A c \in Build : GivenUp(c) => GivenUp(c)'
    PROVE  OutputInv'
<1>0. /\ row \in [Build -> Phases \cup {"None"}]
      /\ op \in [Op -> OpPC] /\ kind \in [Op -> Kinds]
      /\ op[o] \notin {"idle", "next"} => on[o] \in Build
      /\ todo \in [Op -> SUBSET Build] /\ on \in [Op -> Build \cup {NoBuild}]
  BY DEF TypeOK, StateTypeOK, OpTypeOK
<1>b. /\ on[o] \in Build => run[on[o]] # "new"
      /\ \A b \in Build : row[b] # "None" => run[b] # "new"
  BY DEF OutputInv, KnownInv
<1>c. UNCHANGED <<run, dirs>>
  BY DEF Patching, Patch, PatchSave
<1>1. ASSUME NEW b \in Build, Patch(o, b) PROVE OutputInv'
  <2>1. /\ op' = [op EXCEPT ![o] = "patchSave"] /\ on' = [on EXCEPT ![o] = b]
        /\ kind' = [kind EXCEPT ![o] = "patch"]
        /\ todo' = todo /\ row' = row
        /\ run[b] # "new"
    BY <1>b, <1>1 DEF Patch, Begin
  <2>2. ~Discarding(o)' /\ on'[o] = b /\ op'[o] = "patchSave"
    BY <1>0, <2>1 DEF Discarding
  <2>3. \A p \in Op : p # o => op'[p] = op[p] /\ kind'[p] = kind[p] /\ on'[p] = on[p]
                               /\ todo'[p] = todo[p]
    BY <1>0, <2>1
  <2> QED BY <1>0, <1>c, <2>1, <2>2, <2>3, OpOutput
<1>2. CASE PatchSave(o)
  <2>1. Answer(o) /\ on[o] \in Build
    BY <1>0, <1>2 DEF PatchSave
  <2>2. ~Discarding(o)' /\ op'[o] = "idle"
    BY <1>0, <2>1 DEF Answer, Discarding
  <2>3. \A c \in Build : row'[c] = row[c] \/ (c = on[o] /\ c \in stale')
    BY <1>0, <1>2, <2>1 DEF PatchSave
  <2>4. \A c \in Build : row'[c] = "Error" => row[c] = "Error" \/ GivenUp(c)'
    BY <2>3 DEF GivenUp
  <2> QED BY <1>0, <1>b, <1>c, <2>1, <2>2, <2>3, <2>4, OpMoves, OpOutput
<1> QED BY <1>1, <1>2 DEF Patching

\* A restart ends every goroutine before the orphans become Error.
LEMMA RestartOutput ==
    ASSUME TypeOK, OutputInv, Restart, \A c \in Build : GivenUp(c) => GivenUp(c)'
    PROVE  OutputInv'
<1>0. row \in [Build -> Phases \cup {"None"}] /\ run \in [Build -> RunPC]
  BY DEF TypeOK, StateTypeOK
<1>1. /\ \A o \in Op : op'[o] = "idle" /\ on'[o] = NoBuild /\ todo'[o] = {}
      /\ \A b \in Build : run'[b] # "new" => run[b] # "new" /\ run'[b] = "done"
      /\ \A b \in Build : run[b] # "new" => run'[b] # "new"
      /\ UNCHANGED dirs
  BY <1>0 DEF Restart
<1>2. \A b \in Build : row'[b] = row[b] \/ (row[b] # "None" /\ row'[b] = "Error")
  BY <1>0 DEF Restart, OrphanedRows, InProgress
<1>3. KnownInv'
  BY <1>1, <1>2 DEF OutputInv, KnownInv
<1>4. \A b \in Build : row'[b] = "Error" => GivenUp(b)'
  BY <1>1, <1>2 DEF OutputInv, DiscardInv, KnownInv, GivenUp
<1>5. \A b \in Build : run'[b] # "new" /\ b \notin dirs' => GivenUp(b)'
  BY <1>1 DEF OutputInv, DiscardInv
<1> QED BY <1>1, <1>3, <1>4, <1>5 DEF OutputInv, DiscardInv, Discarding

\* Whatever clean-up of failed builds races with running builds, cancellations,
\* PATCHes and restarts, the directory of a Ready artifact that nobody asked to
\* cancel or delete is there.
THEOREM ReadyArtifactsKeepOutput == Spec => []ReadyHasOutput
<1>1. Init => OutputInv
  BY DEF Init, OutputInv, KnownInv, DiscardInv, Discarding
<1>2. TypeOK /\ BuildInv /\ OutputInv /\ [Next]_vars => OutputInv'
  <2> SUFFICES ASSUME TypeOK, StartInv, OutputInv, [Next]_vars PROVE OutputInv'
    BY DEF BuildInv
  <2>1. \A c \in Build : GivenUp(c) => GivenUp(c)'
    BY GivenUpStays
  <2>2. CASE UNCHANGED vars
    BY <2>2 DEF vars, OutputInv, KnownInv, DiscardInv, Discarding, GivenUp
  <2> QED BY <2>1, <2>2, RunningOutput, CreatingOutput, CancellingOutput, RemovingOutput,
             PatchingOutput, RestartOutput DEF Next
<1>3. OutputInv => ReadyHasOutput
  BY DEF OutputInv, KnownInv, DiscardInv, GivenUp, ReadyHasOutput
<1> QED BY <1>1, <1>2, <1>3, BuildInvariance, BuildTypeCorrect, PTL DEF Spec
=============================================================================
