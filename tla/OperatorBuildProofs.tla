------------------------ MODULE OperatorBuildProofs ------------------------
(***************************************************************************)
(* Proofs about OperatorBuild for every job, list of files, number of      *)
(* requests, retries and faults.                                           *)
(***************************************************************************)
EXTENDS OperatorBuild, TLAPS

USE DEF dir, ctx, stream

-----------------------------------------------------------------------------
(* Which steps touch what.                                                 *)

LEMMA CRSteps ==
    ASSUME [Next]_vars
    PROVE  \/ UNCHANGED cr
           \/ CreateCR \/ createSecrets \/ Reap \/ OperatorStep \/ KubectlDelete
           \/ \E o \in Op : CancelDeletes(o)
BY DEF Next, vars, Create, Launch, Persist, watchCRPhase, WatchReads, WatchStops, WatchWrites,
       ClearUploadToken, cancelShared, streamPodLogs, streamAllArtifactPods, streamAll, StreamEnds,
       UploadChecks, Upload, UploadOpens, UploadRenames, UploadLists, AbandonedEnds, ExporterHears,
       ExporterFails, AdminCalls, AdminStep, Cancel, CancelStops, CancelMarks, RemoveAll, DeleteRow,
       Update, Restart

LEMMA RowSteps ==
    ASSUME [Next]_vars
    PROVE  \/ UNCHANGED row
           \/ Persist \/ WatchWrites \/ ClearUploadToken \/ Restart
           \/ \E h \in Handler : UploadLists(h)
           \/ \E o \in Op : CancelMarks(o) \/ DeleteRow(o) \/ Update(o)
BY DEF Next, vars, Create, CreateCR, createSecrets, Launch, Reap, watchCRPhase, WatchReads,
       WatchStops, cancelShared, streamPodLogs, streamAllArtifactPods, streamAll, StreamEnds,
       UploadChecks, Upload, UploadOpens, UploadRenames, AbandonedEnds, ExporterHears,
       ExporterFails, AdminCalls, AdminStep, Cancel, CancelStops, CancelDeletes, RemoveAll,
       OperatorStep, KubectlDelete

LEMMA DirSteps ==
    ASSUME [Next]_vars
    PROVE  \/ UNCHANGED <<there, onDisk>>
           \/ \E h \in Handler : UploadOpens(h) \/ UploadRenames(h)
           \/ \E o \in Op : RemoveAll(o)
BY DEF Next, vars, Create, CreateCR, createSecrets, Launch, Persist, Reap, watchCRPhase, WatchReads,
       WatchStops, WatchWrites, ClearUploadToken, cancelShared, streamPodLogs,
       streamAllArtifactPods, streamAll, StreamEnds, UploadChecks, Upload, UploadLists,
       AbandonedEnds, ExporterHears, ExporterFails, AdminCalls, AdminStep, Cancel, CancelStops,
       CancelDeletes, CancelMarks, DeleteRow, Update, OperatorStep, KubectlDelete, Restart

LEMMA CreateSteps ==
    ASSUME [Next]_vars
    PROVE  \/ UNCHANGED create
           \/ CreateCR \/ createSecrets \/ Launch \/ Persist \/ Reap \/ Restart
BY DEF Next, vars, Create, watchCRPhase, WatchReads,
       WatchStops, WatchWrites, ClearUploadToken, cancelShared, streamPodLogs,
       streamAllArtifactPods, streamAll, StreamEnds, UploadChecks, Upload, UploadOpens,
       UploadRenames, UploadLists, AbandonedEnds, ExporterHears, ExporterFails, AdminCalls,
       AdminStep, Cancel, CancelStops, CancelDeletes, CancelMarks, RemoveAll, DeleteRow, Update,
       OperatorStep, KubectlDelete

LEMMA ContextSteps ==
    ASSUME [Next]_vars
    PROVE  \/ UNCHANGED <<live, active>>
           \/ Launch \/ Reap \/ cancelShared \/ StreamEnds \/ Restart
           \/ \E o \in Op : CancelStops(o)
BY DEF Next, vars, Create, CreateCR, createSecrets, Persist, watchCRPhase, WatchReads,
       WatchStops, WatchWrites, ClearUploadToken, streamPodLogs,
       streamAllArtifactPods, streamAll, UploadChecks, Upload, UploadOpens,
       UploadRenames, UploadLists, AbandonedEnds, ExporterHears, ExporterFails, AdminCalls,
       AdminStep, Cancel, CancelDeletes, CancelMarks, RemoveAll, DeleteRow, Update,
       OperatorStep, KubectlDelete

LEMMA WatchSteps ==
    ASSUME [Next]_vars
    PROVE  UNCHANGED watch \/ Launch \/ watchCRPhase \/ Restart
BY DEF Next, vars, Create, CreateCR, createSecrets, Persist, Reap, streamPodLogs,
       streamAllArtifactPods, streamAll, StreamEnds, UploadChecks, Upload, UploadOpens,
       UploadRenames, UploadLists, AbandonedEnds, ExporterHears, ExporterFails, AdminCalls,
       AdminStep, Cancel, CancelStops, CancelDeletes, CancelMarks, RemoveAll, DeleteRow, Update,
       OperatorStep, KubectlDelete

LEMMA StreamSteps ==
    ASSUME [Next]_vars
    PROVE  UNCHANGED <<streaming, busy>> \/ Launch \/ streamPodLogs \/ Restart
BY DEF Next, vars, Create, CreateCR, createSecrets, Persist, Reap, watchCRPhase, WatchReads,
       WatchStops, WatchWrites, ClearUploadToken, cancelShared, UploadChecks, Upload, UploadOpens,
       UploadRenames, UploadLists, AbandonedEnds, ExporterHears, ExporterFails, AdminCalls,
       AdminStep, Cancel, CancelStops, CancelDeletes, CancelMarks, RemoveAll, DeleteRow, Update,
       OperatorStep, KubectlDelete

LEMMA ExportSteps ==
    ASSUME [Next]_vars
    PROVE  \/ UNCHANGED export
           \/ OperatorStep
           \/ \E h \in Handler : UploadChecks(h) \/ ExporterHears(h) \/ ExporterFails(h)
BY DEF Next, vars, Create, CreateCR, createSecrets, Launch, Persist, Reap, watchCRPhase, WatchReads,
       WatchStops, WatchWrites, ClearUploadToken, cancelShared, streamPodLogs,
       streamAllArtifactPods, streamAll, StreamEnds, Upload, UploadOpens,
       UploadRenames, UploadLists, AbandonedEnds, AdminCalls,
       AdminStep, Cancel, CancelStops, CancelDeletes, CancelMarks, RemoveAll, DeleteRow, Update,
       KubectlDelete, Restart

LEMMA UpSteps ==
    ASSUME [Next]_vars
    PROVE  \/ UNCHANGED up
           \/ \E h \in Handler : UploadChecks(h) \/ UploadOpens(h) \/ UploadRenames(h) \/ UploadLists(h)
                                 \/ ExporterHears(h) \/ ExporterFails(h) \/ AbandonedEnds(h)
           \/ \E o \in Op : RemoveAll(o)
           \/ Restart
BY DEF Next, vars, Create, CreateCR, createSecrets, Launch, Persist, Reap, watchCRPhase, WatchReads,
       WatchStops, WatchWrites, ClearUploadToken, cancelShared, streamPodLogs,
       streamAllArtifactPods, streamAll, StreamEnds, Upload, AdminCalls,
       AdminStep, Cancel, CancelStops, CancelDeletes, CancelMarks, DeleteRow, Update,
       OperatorStep, KubectlDelete

LEMMA OpSteps ==
    ASSUME [Next]_vars
    PROVE  \/ UNCHANGED op
           \/ \E o \in Op : \/ AdminCalls(o) \/ CancelStops(o) \/ CancelDeletes(o) \/ CancelMarks(o)
                            \/ RemoveAll(o) \/ DeleteRow(o) \/ Update(o)
           \/ Restart
BY DEF Next, vars, Create, CreateCR, createSecrets, Launch, Persist, Reap, watchCRPhase, WatchReads,
       WatchStops, WatchWrites, ClearUploadToken, cancelShared, streamPodLogs,
       streamAllArtifactPods, streamAll, StreamEnds, UploadChecks, Upload, UploadOpens,
       UploadRenames, UploadLists, AbandonedEnds, ExporterHears, ExporterFails,
       AdminStep, Cancel, OperatorStep, KubectlDelete

\* Job and history: a job stays, faults are not forgotten, and only a cancel marks.
LEMMA HistorySteps ==
    ASSUME [Next]_vars
    PROVE  /\ UNCHANGED job
           /\ lost \subseteq lost'
           /\ UNCHANGED cancelled \/ \E o \in Op : CancelMarks(o)
<1>1. UNCHANGED job
  BY DEF Next, vars, Create, CreateCR, createSecrets, Launch, Persist, Reap, watchCRPhase, WatchReads,
       WatchStops, WatchWrites, ClearUploadToken, cancelShared, streamPodLogs,
       streamAllArtifactPods, streamAll, StreamEnds, UploadChecks, Upload, UploadOpens,
       UploadRenames, UploadLists, AbandonedEnds, ExporterHears, ExporterFails, AdminCalls,
       AdminStep, Cancel, CancelStops, CancelDeletes, CancelMarks, RemoveAll, DeleteRow, Update,
       OperatorStep, KubectlDelete, Restart
<1>2. UNCHANGED cancelled \/ \E o \in Op : CancelMarks(o)
  BY DEF Next, vars, Create, CreateCR, createSecrets, Launch, Persist, Reap, watchCRPhase, WatchReads,
       WatchStops, WatchWrites, ClearUploadToken, cancelShared, streamPodLogs,
       streamAllArtifactPods, streamAll, StreamEnds, UploadChecks, Upload, UploadOpens,
       UploadRenames, UploadLists, AbandonedEnds, ExporterHears, ExporterFails, AdminCalls,
       AdminStep, Cancel, CancelStops, CancelDeletes, RemoveAll, DeleteRow, Update,
       OperatorStep, KubectlDelete, Restart
<1>3. \/ UNCHANGED lost
      \/ CreateCR \/ createSecrets \/ Reap \/ WatchWrites \/ ClearUploadToken \/ KubectlDelete \/ Restart
      \/ \E h \in Handler : UploadLists(h) \/ ExporterFails(h)
      \/ \E o \in Op : CancelDeletes(o) \/ CancelMarks(o) \/ DeleteRow(o) \/ Update(o)
  BY DEF Next, vars, Create, Launch, Persist, watchCRPhase, WatchReads,
       WatchStops, cancelShared, streamPodLogs,
       streamAllArtifactPods, streamAll, StreamEnds, UploadChecks, Upload, UploadOpens,
       UploadRenames, AbandonedEnds, ExporterHears, AdminCalls,
       AdminStep, Cancel, CancelStops, RemoveAll, OperatorStep
<1>4. CASE CreateCR \/ createSecrets \/ Reap \/ KubectlDelete
  BY <1>4 DEF CreateCR, createSecrets, Reap, KubectlDelete, Fault, Lose
<1>5. CASE WatchWrites \/ ClearUploadToken
  BY <1>5 DEF WatchWrites, ClearUploadToken, Fault, Lose
<1>6. CASE Restart
  BY <1>6 DEF Restart
<1>7. ASSUME NEW h \in Handler, UploadLists(h) \/ ExporterFails(h) PROVE lost \subseteq lost'
  BY <1>7 DEF UploadLists, ExporterFails, Fault, Lose
<1>8. ASSUME NEW o \in Op, CancelDeletes(o) \/ CancelMarks(o) \/ DeleteRow(o) \/ Update(o)
      PROVE  lost \subseteq lost'
  BY <1>8 DEF CancelDeletes, CancelMarks, DeleteRow, Update, Fault, Lose
<1>9. lost \subseteq lost'
  BY <1>3, <1>4, <1>5, <1>6, <1>7, <1>8
<1> QED BY <1>1, <1>2, <1>9

-----------------------------------------------------------------------------
(* Type correctness, a part of the state at a time.                        *)

CRs == [phase : InCluster \union {"none", "gone"},
        spec : {NoSpec, translateBuildOptions(job)}, secrets : SUBSET Secrets]
CROK == job \in Jobs /\ cr \in CRs /\ (cr.phase \notin InCluster => cr.secrets = {})
RowOK == row \in Rows \union {NoRow}
DirOK == there \in BOOLEAN /\ onDisk \subseteq Range(Files) /\ (onDisk # {} => there)
CreateOK == create \in {"idle", "secrets", "launch", "row", "reap", "ok", "refused", "failed"}
FlagsOK == /\ live \in BOOLEAN /\ active \in BOOLEAN /\ cancelled \in BOOLEAN
           /\ streaming \in BOOLEAN /\ busy \in BOOLEAN /\ (busy => streaming)
WatchOK == watch \in [pc : {"off", "poll", "write", "clear", "cancel"},
                      read : Phases \union {"none"}, last : Phases \union {"none"}]
ExportOK == export \in [pc : {"none", "send", "wait", "done", "failed"}, next : 1 .. Len(Files) + 1,
                        retries : 0 .. MaxRetries, with : Handler \union {"none"}]
UpOK == up \in [Handler -> Uploads]
OpOK == op \in [Op -> Requests]

LEMMA TypeParts ==
    TypeOK <=> CROK /\ RowOK /\ DirOK /\ CreateOK /\ FlagsOK /\ WatchOK /\ ExportOK /\ UpOK /\ OpOK
BY DEF TypeOK, CROK, CRs, RowOK, DirOK, CreateOK, FlagsOK, WatchOK, ExportOK, UpOK, OpOK

LEMMA FilesAreFiles ==
    /\ Len(Files) \in Nat /\ Len(Files) >= 1
    /\ \A i \in 1 .. Len(Files) : Files[i] \in Range(Files)
    /\ \A f \in Range(Files) : \E i \in 1 .. Len(Files) : Files[i] = f
BY OperatorAssumption DEF Range

\* What a row written anew looks like.
LEMMA RowWrites ==
    ASSUME RowOK, row # NoRow
    PROVE  /\ row \in Rows
           /\ \A p \in Phases : /\ [row EXCEPT !.phase = p] \in Rows
                                /\ [row EXCEPT !.phase = p].phase = p
                                /\ [row EXCEPT !.phase = p].token = row.token
                                /\ [row EXCEPT !.phase = p].files = row.files
           /\ /\ [row EXCEPT !.token = FALSE] \in Rows
              /\ [row EXCEPT !.token = FALSE].phase = row.phase
              /\ [row EXCEPT !.token = FALSE].token = FALSE
              /\ [row EXCEPT !.token = FALSE].files = row.files
<1>1. row \in [phase : Phases, token : BOOLEAN, files : SUBSET Range(Files)]
  BY DEF RowOK, Rows
<1> QED BY <1>1 DEF Rows

LEMMA ListWrites ==
    ASSUME RowOK, row # NoRow, NEW rec \in Rows, NEW f \in Range(Files)
    PROVE  /\ UpdateFiles(rec, f) \in Rows
           /\ UpdateFiles(rec, f).phase = row.phase
           /\ UpdateFiles(rec, f).token = row.token
           /\ UpdateFiles(rec, f).files = rec.files \union {f}
<1>1. row \in [phase : Phases, token : BOOLEAN, files : SUBSET Range(Files)]
  BY DEF RowOK, Rows
<1>2. rec.files \union {f} \in SUBSET Range(Files)
  BY DEF Rows
<1> QED BY <1>1, <1>2 DEF Rows, UpdateFiles

LEMMA NewRow ==
    /\ [phase |-> "Pending", token |-> TRUE, files |-> {}] \in Rows
    /\ NoRow \notin Rows
BY OperatorAssumption DEF Rows, Phases

LEMMA StepCR ==
    ASSUME CROK, [Next]_vars
    PROVE  CROK'
<1>0. job' = job
  BY HistorySteps
<1>t. cr \in [phase : InCluster \union {"none", "gone"},
              spec : {NoSpec, translateBuildOptions(job)}, secrets : SUBSET Secrets]
  BY DEF CROK, CRs
<1>d. Deleted.phase = "gone" /\ Deleted.secrets = {} /\ Deleted \in CRs
  BY <1>t DEF Deleted, CRs
<1>g. ASSUME cr' = Deleted PROVE CROK'
  BY <1>0, <1>d, <1>g DEF CROK, CRs, InCluster
<1>o. ASSUME NEW S \in SUBSET Secrets, cr' = Owned(S) PROVE CROK'
  BY <1>0, <1>t, <1>o DEF CROK, CRs, Owned
<1>m. materializeSecrets(job) \in SUBSET Secrets
  BY DEF materializeSecrets, Secrets
<1>1. CASE UNCHANGED cr BY <1>0, <1>1 DEF CROK, CRs
<1>2. CASE CreateCR
  <2>1. CASE cr' = [phase |-> "Pending", spec |-> translateBuildOptions(job), secrets |-> {}]
    BY <1>0, <2>1 DEF CROK, CRs, InCluster
  <2> QED BY <1>1, <1>2, <2>1 DEF CreateCR
<1>3. CASE createSecrets
  <2>1. CASE cr' = Owned(materializeSecrets(job)) BY <1>m, <1>o, <2>1
  <2>2. ASSUME NEW made \in SUBSET materializeSecrets(job), cr' = Owned(made) PROVE CROK'
    BY <1>m, <1>o, <2>2
  <2> QED BY <1>3, <1>g, <2>1, <2>2 DEF createSecrets
<1>4. CASE Reap \/ KubectlDelete BY <1>1, <1>4, <1>g DEF Reap, KubectlDelete
<1>5. ASSUME NEW o \in Op, CancelDeletes(o) PROVE CROK' BY <1>1, <1>5, <1>g DEF CancelDeletes
<1>6. CASE OperatorStep
  <2>1. ASSUME NEW p \in InCluster, cr' = [cr EXCEPT !.phase = p] PROVE CROK'
    BY <1>0, <1>t, <2>1 DEF CROK, CRs
  <2>2. \E p \in InCluster : cr' = [cr EXCEPT !.phase = p]
    BY <1>6 DEF OperatorStep, InCluster
  <2> QED BY <2>1, <2>2
<1> QED BY <1>1, <1>2, <1>3, <1>4, <1>5, <1>6, CRSteps

LEMMA StepRow ==
    ASSUME TypeOK, WatchInv, ExportInv, [Next]_vars
    PROVE  RowOK'
<1>0. RowOK /\ UpOK /\ OpOK /\ WatchOK
  BY TypeParts
<1> USE <1>0
<1>1. CASE UNCHANGED row BY <1>1 DEF RowOK
<1>n. CASE row' = NoRow BY <1>n DEF RowOK
<1>e. CASE row # NoRow /\ row' = [row EXCEPT !.phase = "Error"]
  BY <1>e, RowWrites DEF RowOK, Phases
<1>2. CASE Persist BY <1>1, <1>2, NewRow DEF Persist, RowOK
<1>3. CASE WatchWrites
  <2>1. watch.read \in Phases
    BY <1>3 DEF WatchWrites, WatchInv
  <2>2. CASE row # NoRow /\ row' = [row EXCEPT !.phase = watch.read]
    BY <2>1, <2>2, RowWrites DEF RowOK
  <2> QED BY <1>1, <1>3, <2>2 DEF WatchWrites, Writable
<1>4. CASE ClearUploadToken
  <2>1. CASE row # NoRow /\ row' = [row EXCEPT !.token = FALSE]
    BY <2>1, RowWrites DEF RowOK
  <2> QED BY <1>1, <1>4, <2>1 DEF ClearUploadToken, Writable
<1>5. CASE Restart
  BY <1>1, <1>5, <1>e DEF Restart, ReconcileOrphanedArtifacts
<1>6. ASSUME NEW h \in Handler, UploadLists(h) PROVE RowOK'
  <2>1. up[h].snap \in Rows /\ up[h].file \in Range(Files)
    BY <1>6 DEF UploadLists, ExportInv, UpOK, Uploads
  <2>2. CASE row # NoRow /\ row' = UpdateFiles(up[h].snap, up[h].file)
    BY <2>1, <2>2, ListWrites DEF RowOK
  <2> QED BY <1>1, <1>6, <1>n, <2>2 DEF UploadLists
<1>7. ASSUME NEW o \in Op, CancelMarks(o) PROVE RowOK'
  BY <1>1, <1>7, <1>n, <1>e DEF CancelMarks
<1>8. ASSUME NEW o \in Op, DeleteRow(o) PROVE RowOK'
  BY <1>1, <1>8, <1>n DEF DeleteRow
<1>9. ASSUME NEW o \in Op, Update(o) PROVE RowOK'
  <2>1. op[o].snap \in Rows \union {NoRow}
    BY DEF OpOK, Requests
  <2> QED BY <1>1, <1>9, <2>1 DEF Update, RowOK
<1> QED BY <1>1, <1>2, <1>3, <1>4, <1>5, <1>6, <1>7, <1>8, <1>9, RowSteps

LEMMA StepDir ==
    ASSUME TypeOK, ExportInv, [Next]_vars
    PROVE  DirOK'
<1>0. DirOK /\ UpOK
  BY TypeParts
<1> USE <1>0 DEF DirOK
<1>1. ASSUME NEW h \in Handler, UploadOpens(h) PROVE DirOK' BY <1>1 DEF UploadOpens
<1>2. ASSUME NEW h \in Handler, UploadRenames(h) PROVE DirOK'
  <2>1. up[h].file \in Range(Files) /\ (up[h].mine => there)
    BY <1>2 DEF UploadRenames, ExportInv
  <2> QED BY <1>2, <2>1 DEF UploadRenames
<1>3. ASSUME NEW o \in Op, RemoveAll(o) PROVE DirOK' BY <1>3 DEF RemoveAll
<1> QED BY <1>1, <1>2, <1>3, DirSteps

LEMMA StepCreate ==
    ASSUME CreateOK, [Next]_vars
    PROVE  CreateOK'
BY CreateSteps DEF CreateOK, CreateCR, createSecrets, Launch, Persist, Reap, Restart

LEMMA StepFlags ==
    ASSUME FlagsOK, [Next]_vars
    PROVE  FlagsOK'
<1> USE DEF FlagsOK
<1>1. live' \in BOOLEAN /\ active' \in BOOLEAN
  BY ContextSteps DEF Launch, Reap, cancelShared, StreamEnds, Restart, CancelStops, StopGoroutines
<1>2. streaming' \in BOOLEAN /\ busy' \in BOOLEAN /\ (busy' => streaming')
  <2>1. CASE Launch BY <2>1 DEF Launch
  <2>2. CASE streamAllArtifactPods BY <2>2 DEF streamAllArtifactPods
  <2>3. CASE streamAll BY <2>3 DEF streamAll
  <2>4. CASE StreamEnds BY <2>4 DEF StreamEnds
  <2>5. CASE Restart BY <2>5 DEF Restart
  <2>6. CASE UNCHANGED <<streaming, busy>> BY <2>6
  <2> QED BY <2>1, <2>2, <2>3, <2>4, <2>5, <2>6, StreamSteps DEF streamPodLogs
<1>3. cancelled' \in BOOLEAN
  BY HistorySteps DEF CancelMarks
<1> QED BY <1>1, <1>2, <1>3

LEMMA StepWatch ==
    ASSUME WatchOK, CROK, [Next]_vars
    PROVE  WatchOK'
<1> USE DEF WatchOK
<1>p. \A p \in {"off", "poll", "write", "clear", "cancel"} :
         watch' = [watch EXCEPT !.pc = p] => WatchOK'
  OBVIOUS
<1>1. CASE Launch BY <1>1, <1>p DEF Launch
<1>2. CASE WatchReads
  <2> DEFINE now == statusFromArtifact(cr.phase)
  <2>1. cr.phase \in InCluster => now \in Phases
    BY DEF statusFromArtifact, InCluster, Phases
  <2>2. CASE cr.phase \in InCluster /\ watch' = [watch EXCEPT !.read = now, !.pc = "write"]
    <3> HIDE DEF now
    <3> QED BY <2>1, <2>2
  <2> QED BY <1>2, <1>p, <2>2 DEF WatchReads
<1>3. CASE WatchStops \/ cancelShared BY <1>3, <1>p DEF WatchStops, cancelShared, WatchEnds
<1>4. CASE WatchWrites BY <1>4 DEF WatchWrites
<1>5. CASE ClearUploadToken BY <1>5, <1>p DEF ClearUploadToken
<1>6. CASE Restart BY <1>6 DEF Restart
<1>7. CASE UNCHANGED watch BY <1>7
<1> QED BY <1>1, <1>2, <1>3, <1>4, <1>5, <1>6, <1>7, WatchSteps DEF watchCRPhase

\* What each step makes of one upload request, in terms of its fields.
LEMMA UpSet ==
    ASSUME UpOK, NEW h \in Handler, NEW X \in Uploads, up' = [up EXCEPT ![h] = X]
    PROVE  UpOK' /\ up'[h] = X /\ \A g \in Handler : g # h => up'[g] = up[g]
BY DEF UpOK

LEMMA IdleUpType ==
    /\ IdleUp \in Uploads /\ IdleUp.pc = "idle" /\ IdleUp.mine = FALSE
    /\ FailedUp \in Uploads /\ FailedUp.pc = "error" /\ FailedUp.mine = FALSE
<1>1. "none" \in Range(Files) \union {"none"} /\ NoRow \in Rows \union {NoRow}
  OBVIOUS
<1> QED BY <1>1 DEF IdleUp, FailedUp, Uploads

LEMMA CheckedUp ==
    ASSUME TypeOK, NEW h \in Handler, UploadChecks(h), ExportInv
    PROVE  /\ up'[h] \in Uploads /\ UpOK' /\ \A g \in Handler : g # h => up'[g] = up[g]
           /\ \/ up'[h] = FailedUp
              \/ /\ row # NoRow /\ up'[h].pc = "dir" /\ up'[h].file = Files[export.next]
                 /\ up'[h].snap = row /\ up'[h].mine = FALSE
           /\ row = NoRow => up'[h] = FailedUp
<1>0. UpOK /\ RowOK /\ ExportOK
  BY TypeParts
<1>1. Files[export.next] \in Range(Files)
  BY <1>0, FilesAreFiles DEF UploadChecks, ExportInv, ExportOK
<1> DEFINE X == [IdleUp EXCEPT !.pc = "dir", !.file = Files[export.next], !.snap = row]
<1>2. X \in Uploads /\ X.pc = "dir" /\ X.file = Files[export.next] /\ X.snap = row /\ X.mine = FALSE
  BY <1>0, <1>1 DEF IdleUp, Uploads, RowOK
<1> HIDE DEF X
<1>3. CASE up' = [up EXCEPT ![h] = FailedUp]
  <2>1. UpOK' /\ up'[h] = FailedUp /\ \A g \in Handler : g # h => up'[g] = up[g]
    BY <1>0, <1>3, UpSet, IdleUpType
  <2> QED BY <2>1, IdleUpType
<1>4. CASE row # NoRow /\ up' = [up EXCEPT ![h] = X]
  <2>1. UpOK' /\ up'[h] = X /\ \A g \in Handler : g # h => up'[g] = up[g]
    BY <1>0, <1>2, <1>4, UpSet
  <2> QED BY <1>2, <1>4, <2>1
<1>5. up' = [up EXCEPT ![h] = IF row = NoRow \/ ~row.token \/ row.phase \in Terminal
                              THEN FailedUp ELSE X]
  BY DEF UploadChecks, X
<1> QED BY <1>3, <1>4, <1>5

LEMMA OpenedUp ==
    ASSUME TypeOK, NEW h \in Handler, UploadOpens(h)
    PROVE  /\ UpOK' /\ \A g \in Handler : g # h => up'[g] = up[g]
           /\ \/ up'[h] = FailedUp
              \/ /\ there' = TRUE /\ up'[h].pc = "copy"
                 /\ up'[h].file = up[h].file /\ up'[h].snap = up[h].snap
           /\ there => there'
<1>0. UpOK /\ DirOK /\ up[h] \in Uploads
  BY TypeParts DEF UpOK
<1> DEFINE X == [up[h] EXCEPT !.pc = "copy", !.mine = TRUE]
<1>1. X \in Uploads /\ X.pc = "copy" /\ X.file = up[h].file /\ X.snap = up[h].snap
  BY <1>0 DEF Uploads
<1>2. (there' = TRUE /\ up' = [up EXCEPT ![h] = X]) \/ (there' = there /\ up' = [up EXCEPT ![h] = FailedUp])
  BY DEF UploadOpens
<1> HIDE DEF X
<1> QED BY <1>0, <1>1, <1>2, UpSet, IdleUpType

LEMMA RenamedUp ==
    ASSUME TypeOK, NEW h \in Handler, UploadRenames(h)
    PROVE  /\ UpOK' /\ \A g \in Handler : g # h => up'[g] = up[g]
           /\ \/ up'[h] = FailedUp /\ onDisk' = onDisk
              \/ /\ onDisk' = onDisk \union {up[h].file} /\ up'[h].pc = "list" /\ up[h].mine
                 /\ up'[h].file = up[h].file /\ up'[h].snap = up[h].snap
<1>0. UpOK /\ up[h] \in Uploads
  BY TypeParts DEF UpOK
<1> DEFINE X == [up[h] EXCEPT !.pc = "list"]
<1>1. X \in Uploads /\ X.pc = "list" /\ X.file = up[h].file /\ X.snap = up[h].snap
  BY <1>0 DEF Uploads
<1>2. \/ up[h].mine /\ onDisk' = onDisk \union {up[h].file} /\ up' = [up EXCEPT ![h] = X]
      \/ onDisk' = onDisk /\ up' = [up EXCEPT ![h] = FailedUp]
  BY DEF UploadRenames
<1> HIDE DEF X
<1> QED BY <1>0, <1>1, <1>2, UpSet, IdleUpType

LEMMA ListedUp ==
    ASSUME TypeOK, NEW h \in Handler, UploadLists(h)
    PROVE  /\ UpOK' /\ \A g \in Handler : g # h => up'[g] = up[g]
           /\ up'[h].pc = "201" /\ up'[h].file = up[h].file /\ up'[h].mine = FALSE
<1>0. UpOK /\ up[h] \in Uploads
  BY TypeParts DEF UpOK
<1> DEFINE X == [up[h] EXCEPT !.pc = "201", !.snap = NoRow, !.mine = FALSE]
<1>1. X \in Uploads /\ X.pc = "201" /\ X.file = up[h].file /\ X.mine = FALSE
  BY <1>0 DEF Uploads
<1>2. up' = [up EXCEPT ![h] = X]
  BY DEF UploadLists
<1> HIDE DEF X
<1> QED BY <1>0, <1>1, <1>2, UpSet

LEMMA IdledUp ==
    ASSUME TypeOK, NEW h \in Handler, ExporterHears(h) \/ ExporterFails(h) \/ AbandonedEnds(h)
    PROVE  /\ UpOK'
           /\ \/ UNCHANGED up /\ "abandoned" \in lost' /\ ExporterFails(h)
              \/ up'[h] = IdleUp /\ \A g \in Handler : g # h => up'[g] = up[g]
<1>0. UpOK
  BY TypeParts
<1>1. \/ UNCHANGED up /\ "abandoned" \in lost' /\ ExporterFails(h)
      \/ up' = [up EXCEPT ![h] = IdleUp]
  BY DEF ExporterHears, ExporterFails, AbandonedEnds, Fault, Lose
<1>2. UNCHANGED up => UpOK'
  BY <1>0 DEF UpOK
<1> QED BY <1>0, <1>1, <1>2, UpSet, IdleUpType

LEMMA UnmadeUp ==
    ASSUME TypeOK, NEW o \in Op, RemoveAll(o)
    PROVE  UpOK' /\ \A h \in Handler : /\ up'[h].pc = up[h].pc /\ up'[h].file = up[h].file
                                      /\ up'[h].snap = up[h].snap /\ up'[h].mine = FALSE
<1>0. UpOK
  BY TypeParts
<1>1. \A h \in Handler : up'[h] = [up[h] EXCEPT !.mine = FALSE]
  BY DEF RemoveAll
<1>2. ASSUME NEW h \in Handler
      PROVE  /\ up'[h] \in Uploads /\ up'[h].pc = up[h].pc /\ up'[h].file = up[h].file
             /\ up'[h].snap = up[h].snap /\ up'[h].mine = FALSE
  <2>1. up[h] \in [pc : {"idle", "dir", "copy", "list", "201", "error"}, file : Range(Files) \union {"none"},
                   snap : Rows \union {NoRow}, mine : BOOLEAN]
    BY <1>0 DEF UpOK, Uploads
  <2> QED BY <1>1, <2>1 DEF Uploads
<1>3. up' = [h \in Handler |-> [up[h] EXCEPT !.mine = FALSE]]
  BY DEF RemoveAll
<1> QED BY <1>2, <1>3 DEF UpOK

LEMMA StepUp ==
    ASSUME TypeOK, ExportInv, [Next]_vars
    PROVE  UpOK'
<1>1. CASE UNCHANGED up BY <1>1, TypeParts DEF UpOK
<1>2. CASE Restart
  BY <1>2, IdleUpType DEF Restart, UpOK
<1> QED BY <1>1, <1>2, UpSteps, CheckedUp, OpenedUp, RenamedUp, ListedUp, IdledUp, UnmadeUp

\* What each step makes of one of the admin's requests.
LEMMA OpSet ==
    ASSUME OpOK, NEW o \in Op, NEW X \in Requests, op' = [op EXCEPT ![o] = X]
    PROVE  OpOK' /\ op'[o] = X /\ \A p \in Op : p # o => op'[p] = op[p]
BY DEF OpOK

LEMMA DoneOpType ==
    /\ DoneOp \in Requests /\ DoneOp.pc = "done" /\ DoneOp.kind = "none"
    /\ IdleOp \in Requests /\ IdleOp.pc = "idle" /\ IdleOp.kind = "none"
<1>1. NoRow \in Rows \union {NoRow}
  OBVIOUS
<1> QED BY <1>1 DEF DoneOp, IdleOp, Requests

\* A request goes on with its next step.
LEMMA OpMoves ==
    ASSUME OpOK, NEW o \in Op,
           NEW p \in {"delete", "mark", "files", "row"}, op' = [op EXCEPT ![o] = [op[o] EXCEPT !.pc = p]]
    PROVE  /\ OpOK' /\ \A q \in Op : q # o => op'[q] = op[q]
           /\ op'[o].pc = p /\ op'[o].kind = op[o].kind
<1> DEFINE X == [op[o] EXCEPT !.pc = p]
<1>1. op[o] \in [pc : {"idle", "done", "stop", "delete", "mark", "files", "row", "save"},
                 kind : {"none", "cancel", "delete", "clear", "sweep", "patch"},
                 snap : Rows \union {NoRow}]
  BY DEF OpOK, Requests
<1>2. X \in Requests /\ X.pc = p /\ X.kind = op[o].kind
  BY <1>1 DEF Requests
<1> HIDE DEF X
<1>3. op' = [op EXCEPT ![o] = X]
  BY DEF X
<1> QED BY <1>2, <1>3, OpSet

LEMMA CalledOp ==
    ASSUME TypeOK, NEW o \in Op, AdminCalls(o)
    PROVE  /\ OpOK' /\ \A p \in Op : p # o => op'[p] = op[p]
           /\ row # NoRow
           /\ \/ op'[o].pc = "save" /\ op'[o].kind = "patch" /\ op'[o].snap = row
              \/ op'[o].pc = "row" /\ op'[o].kind = "sweep"
              \/ op'[o].pc = "stop" /\ op'[o].kind \in {"cancel", "delete"}
              \/ op'[o].pc = "stop" /\ op'[o].kind = "clear" /\ row.phase = "Error"
<1>0. OpOK /\ RowOK
  BY TypeParts
<1>1. PICK kind \in {"cancel", "delete", "clear", "sweep", "patch"} :
        /\ kind = "clear" => row.phase = "Error"
        /\ op' = [op EXCEPT ![o] =
                    [pc |-> CASE kind = "patch" -> "save" [] kind = "sweep" -> "row" [] OTHER -> "stop",
                     kind |-> kind, snap |-> IF kind = "patch" THEN row ELSE NoRow]]
  BY DEF AdminCalls
<1>2. row # NoRow
  BY DEF AdminCalls
<1> DEFINE X == [pc |-> CASE kind = "patch" -> "save" [] kind = "sweep" -> "row" [] OTHER -> "stop",
                 kind |-> kind, snap |-> IF kind = "patch" THEN row ELSE NoRow]
<1>3. X.kind = kind /\ X \in Requests
  BY <1>0 DEF Requests, RowOK
<1>4. /\ kind = "patch" => X.pc = "save" /\ X.snap = row
      /\ kind = "sweep" => X.pc = "row"
      /\ kind \in {"cancel", "delete", "clear"} => X.pc = "stop"
  OBVIOUS
<1>5. op' = [op EXCEPT ![o] = X]
  BY <1>1
<1> HIDE DEF X
<1>6. OpOK' /\ op'[o] = X /\ \A p \in Op : p # o => op'[p] = op[p]
  BY <1>0, <1>3, <1>5, OpSet
<1> QED BY <1>1, <1>2, <1>3, <1>4, <1>6

LEMMA AfterOp ==
    ASSUME OpOK, NEW o \in Op, AfterCancel(o)
    PROVE  /\ OpOK' /\ \A p \in Op : p # o => op'[p] = op[p]
           /\ \/ op[o].kind = "cancel" /\ op'[o] = DoneOp
              \/ op[o].kind # "cancel" /\ op'[o].pc = "files" /\ op'[o].kind = op[o].kind
<1>1. CASE op[o].kind = "cancel"
  <2>1. op' = [op EXCEPT ![o] = DoneOp]
    BY <1>1 DEF AfterCancel
  <2> QED BY <1>1, <2>1, OpSet, DoneOpType
<1>2. CASE op[o].kind # "cancel"
  <2>1. op' = [op EXCEPT ![o] = [op[o] EXCEPT !.pc = "files"]]
    BY <1>2 DEF AfterCancel
  <2> QED BY <1>2, <2>1, OpMoves
<1> QED BY <1>1, <1>2

LEMMA DeletesOp ==
    ASSUME TypeOK, NEW o \in Op, CancelDeletes(o)
    PROVE  /\ OpOK' /\ \A p \in Op : p # o => op'[p] = op[p]
           /\ op[o].pc = "delete" /\ UNCHANGED <<row, live, active, create, watch, up, export, onDisk, cancelled>>
           /\ \/ cr' = Deleted /\ op'[o].pc = "mark" /\ op'[o].kind = op[o].kind /\ lost' = lost
              \/ /\ cr' = cr /\ (cr.phase \notin InCluster \/ "delete" \in lost')
                 /\ \/ op'[o] = DoneOp
                    \/ op[o].kind # "cancel" /\ op'[o].pc = "files" /\ op'[o].kind = op[o].kind
<1>0. OpOK
  BY TypeParts
<1>1. op[o].pc = "delete" /\ UNCHANGED <<row, live, active, create, watch, up, export, onDisk, cancelled>>
  BY DEF CancelDeletes
<1>2. CASE cr' = Deleted /\ op' = [op EXCEPT ![o] = [op[o] EXCEPT !.pc = "mark"]] /\ lost' = lost
  BY <1>0, <1>1, <1>2, OpMoves
<1>3. CASE cr' = cr /\ AfterCancel(o) /\ (cr.phase \notin InCluster \/ "delete" \in lost')
  BY <1>0, <1>1, <1>3, AfterOp
<1> QED BY <1>2, <1>3 DEF CancelDeletes, Fault, Lose

LEMMA MarksOp ==
    ASSUME TypeOK, NEW o \in Op, CancelMarks(o)
    PROVE  /\ OpOK' /\ \A p \in Op : p # o => op'[p] = op[p]
           /\ op[o].pc = "mark" /\ UNCHANGED <<cr, live, active, create, watch, up, export, onDisk>>
           /\ \/ op'[o] = DoneOp
              \/ op[o].kind # "cancel" /\ op'[o].pc = "files" /\ op'[o].kind = op[o].kind
           /\ \/ UNCHANGED <<row, cancelled>>
              \/ row = NoRow /\ row' = NoRow /\ cancelled' = cancelled
              \/ row # NoRow /\ row' = [row EXCEPT !.phase = "Error"] /\ cancelled' = TRUE
           /\ lost \subseteq lost'
<1>0. OpOK /\ cancelled \in BOOLEAN
  BY TypeParts DEF FlagsOK
<1>1. op[o].pc = "mark" /\ UNCHANGED <<cr, live, active, create, watch, up, export, onDisk>> /\ AfterCancel(o)
  BY DEF CancelMarks
<1>2. \/ UNCHANGED <<row, cancelled>>
      \/ row = NoRow /\ row' = NoRow /\ cancelled' = cancelled
      \/ row # NoRow /\ row' = [row EXCEPT !.phase = "Error"] /\ cancelled' = TRUE
  BY <1>0 DEF CancelMarks
<1>3. lost \subseteq lost'
  BY DEF CancelMarks, Fault, Lose
<1> QED BY <1>0, <1>1, <1>2, <1>3, AfterOp

LEMMA OtherOp ==
    ASSUME TypeOK, NEW o \in Op
    PROVE  /\ CancelStops(o) =>
                 /\ OpOK' /\ \A p \in Op : p # o => op'[p] = op[p]
                 /\ op'[o].pc = "delete" /\ op'[o].kind = op[o].kind
           /\ RemoveAll(o) =>
                 /\ OpOK' /\ \A p \in Op : p # o => op'[p] = op[p]
                 /\ op'[o].pc = "row" /\ op'[o].kind = op[o].kind
           /\ DeleteRow(o) \/ Update(o) =>
                 /\ OpOK' /\ \A p \in Op : p # o => op'[p] = op[p]
                 /\ op'[o] = DoneOp
<1>0. OpOK
  BY TypeParts
<1>1. ASSUME CancelStops(o)
      PROVE  op' = [op EXCEPT ![o] = [op[o] EXCEPT !.pc = "delete"]]
  BY <1>1 DEF CancelStops
<1>2. ASSUME RemoveAll(o)
      PROVE  op' = [op EXCEPT ![o] = [op[o] EXCEPT !.pc = "row"]]
  BY <1>2 DEF RemoveAll
<1>3. ASSUME DeleteRow(o) \/ Update(o)
      PROVE  op' = [op EXCEPT ![o] = DoneOp]
  BY <1>3 DEF DeleteRow, Update
<1> QED BY <1>0, <1>1, <1>2, <1>3, OpMoves, OpSet, DoneOpType

LEMMA RestartedOp ==
    ASSUME TypeOK, Restart
    PROVE  OpOK' /\ \A o \in Op : op'[o] \in {IdleOp, DoneOp} /\ (op'[o] # IdleOp => op[o].pc # "idle")
<1>1. op' = [o \in Op |-> IF op[o].pc = "idle" THEN IdleOp ELSE DoneOp]
  BY DEF Restart
<1> QED BY <1>1, DoneOpType DEF OpOK

LEMMA StepOp ==
    ASSUME TypeOK, [Next]_vars
    PROVE  OpOK'
<1>1. CASE UNCHANGED op BY <1>1, TypeParts DEF OpOK
<1> QED BY <1>1, OpSteps, CalledOp, DeletesOp, MarksOp, OtherOp, RestartedOp

LEMMA StepExport ==
    ASSUME TypeOK, ExportInv, [Next]_vars
    PROVE  ExportOK'
<1>0. ExportOK
  BY TypeParts
<1>f. Len(Files) \in Nat /\ Len(Files) >= 1 /\ MaxRetries \in Nat
  BY FilesAreFiles, OperatorAssumption
<1>e. /\ export.pc \in {"none", "send", "wait", "done", "failed"} /\ export.next \in 1 .. Len(Files) + 1
      /\ export.retries \in 0 .. MaxRetries
  BY <1>0 DEF ExportOK
<1>1. CASE UNCHANGED export BY <1>0, <1>1 DEF ExportOK
<1>2. CASE OperatorStep
  <2>1. UNCHANGED export \/ export' = [export EXCEPT !.pc = "send"]
    BY <1>2 DEF OperatorStep
  <2> QED BY <1>0, <1>1, <2>1 DEF ExportOK
<1>3. ASSUME NEW h \in Handler, UploadChecks(h) PROVE ExportOK'
  <2>1. export' = [export EXCEPT !.pc = "wait", !.with = h]
    BY <1>3 DEF UploadChecks
  <2> QED BY <1>0, <2>1 DEF ExportOK
<1>4. ASSUME NEW h \in Handler, ExporterHears(h) PROVE ExportOK'
  <2>1. export' = [export EXCEPT !.next = export.next + 1, !.with = "none",
                    !.pc = IF export.next = Len(Files) THEN "done" ELSE "send"]
    BY <1>4 DEF ExporterHears
  <2>2. export.next + 1 \in 1 .. Len(Files) + 1
    BY <1>4, <1>e, <1>f DEF ExporterHears, ExportInv
  <2>3. (IF export.next = Len(Files) THEN "done" ELSE "send") \in {"none", "send", "wait", "done", "failed"}
    OBVIOUS
  <2> QED BY <1>0, <2>1, <2>2, <2>3 DEF ExportOK
<1>5. ASSUME NEW h \in Handler, ExporterFails(h) PROVE ExportOK'
  <2>1. CASE export' = [export EXCEPT !.pc = "failed", !.with = "none"]
    BY <1>0, <2>1 DEF ExportOK
  <2>2. ASSUME NEW next \in {export.next, 1}, export.retries < MaxRetries,
               export' = [pc |-> "send", next |-> next, retries |-> export.retries + 1, with |-> "none"]
        PROVE  ExportOK'
    <3>1. next \in 1 .. Len(Files) + 1 /\ export.retries + 1 \in 0 .. MaxRetries
      BY <1>e, <1>f, <2>2
    <3> QED BY <2>2, <3>1 DEF ExportOK
  <2> QED BY <1>5, <2>1, <2>2 DEF ExporterFails
<1> QED BY <1>1, <1>2, <1>3, <1>4, <1>5, ExportSteps

LEMMA StepTypeOK ==
    ASSUME TypeOK, ExportInv, WatchInv, [Next]_vars
    PROVE  TypeOK'
<1>1. CROK /\ CreateOK /\ FlagsOK /\ WatchOK
  BY TypeParts
<1>2. CROK' /\ RowOK' /\ DirOK' /\ CreateOK' /\ FlagsOK' /\ WatchOK' /\ ExportOK' /\ UpOK' /\ OpOK'
  BY <1>1, StepCR, StepRow, StepDir, StepCreate, StepFlags, StepWatch, StepExport, StepUp, StepOp
<1> QED BY <1>2 DEF TypeOK, CROK, CRs, RowOK, DirOK, CreateOK, FlagsOK, WatchOK, ExportOK, UpOK, OpOK

-----------------------------------------------------------------------------
(* How the row changes, in terms of its columns.                           *)

RowKeeps(p, t, f) == /\ row # NoRow /\ row' # NoRow
                     /\ row'.phase = p /\ row'.token = t /\ row'.files = f

LEMMA RowEffect ==
    ASSUME TypeOK, WatchInv, ExportInv, RequestInv, [Next]_vars
    PROVE  \/ UNCHANGED row
           \/ Persist /\ row' # NoRow /\ row'.phase = "Pending" /\ row'.token = TRUE /\ row'.files = {}
           \/ WatchWrites /\ live /\ RowKeeps(watch.read, row.token, row.files)
           \/ ClearUploadToken /\ RowKeeps(row.phase, FALSE, row.files)
           \/ Restart /\ row.phase \in {"Pending", "Building"} /\ RowKeeps("Error", row.token, row.files)
           \/ \E h \in Handler : /\ UploadLists(h)
                                 /\ RowKeeps(row.phase, row.token, up[h].snap.files \union {up[h].file})
           \/ \E o \in Op : CancelMarks(o) /\ RowKeeps("Error", row.token, row.files)
           \/ \E o \in Op : DeleteRow(o) /\ row' = NoRow
           \/ \E o \in Op : Update(o) /\ "patch" \in lost' /\ row' # NoRow
<1>0. RowOK /\ UpOK /\ OpOK
  BY TypeParts
<1>n. NoRow \notin Rows /\ "Error" \in Phases
  BY NewRow DEF Phases
<1>1. CASE UNCHANGED row BY <1>1
<1>e. ASSUME row # NoRow, row' = [row EXCEPT !.phase = "Error"]
      PROVE  RowKeeps("Error", row.token, row.files)
  BY <1>0, <1>n, <1>e, RowWrites DEF RowKeeps
<1>2. CASE Persist
  <2>1. CASE row' = [phase |-> "Pending", token |-> TRUE, files |-> {}]
    BY <1>2, <1>n, <2>1, NewRow
  <2> QED BY <1>1, <1>2, <2>1 DEF Persist
<1>3. CASE WatchWrites
  <2>1. watch.read \in Phases
    BY <1>3 DEF WatchWrites, WatchInv
  <2>2. CASE live /\ row # NoRow /\ row' = [row EXCEPT !.phase = watch.read]
    BY <1>0, <1>3, <1>n, <2>1, <2>2, RowWrites DEF RowKeeps
  <2> QED BY <1>1, <1>3, <2>2 DEF WatchWrites, Writable
<1>4. CASE ClearUploadToken
  <2>1. CASE row # NoRow /\ row' = [row EXCEPT !.token = FALSE]
    BY <1>0, <1>4, <1>n, <2>1, RowWrites DEF RowKeeps
  <2> QED BY <1>1, <1>4, <2>1 DEF ClearUploadToken, Writable
<1>5. CASE Restart
  BY <1>1, <1>5, <1>e DEF Restart, ReconcileOrphanedArtifacts
<1>6. ASSUME NEW h \in Handler, UploadLists(h)
      PROVE  \/ UNCHANGED row
             \/ RowKeeps(row.phase, row.token, up[h].snap.files \union {up[h].file})
  <2>1. up[h].snap \in Rows /\ up[h].file \in Range(Files)
    BY <1>0, <1>6 DEF UploadLists, ExportInv, UpOK, Uploads
  <2>2. CASE row # NoRow /\ row' = UpdateFiles(up[h].snap, up[h].file)
    BY <1>0, <1>n, <2>1, <2>2, ListWrites DEF RowKeeps
  <2> QED BY <1>6, <2>2 DEF UploadLists
<1>7. ASSUME NEW o \in Op, CancelMarks(o)
      PROVE  UNCHANGED row \/ RowKeeps("Error", row.token, row.files)
  BY <1>7, <1>e, MarksOp
<1>8. ASSUME NEW o \in Op, DeleteRow(o) PROVE UNCHANGED row \/ row' = NoRow
  BY <1>8 DEF DeleteRow
<1>9. ASSUME NEW o \in Op, Update(o) PROVE UNCHANGED row \/ ("patch" \in lost' /\ row' # NoRow)
  BY <1>9 DEF Update, RequestInv, Lose
<1> QED BY <1>1, <1>2, <1>3, <1>4, <1>5, <1>6, <1>7, <1>8, <1>9, RowSteps

-----------------------------------------------------------------------------
(* The order of things, and a cancel that stays.                           *)

LEMMA StartedStays ==
    ASSUME [Next]_vars, Started
    PROVE  Started'
BY CreateSteps DEF Started, CreateCR, createSecrets, Launch, Persist, Reap, Restart

LEMMA StepOrder ==
    ASSUME TypeOK, WatchInv, ExportInv, RequestInv, OrderInv, [Next]_vars
    PROVE  OrderInv'
<1>f. FlagsOK /\ WatchOK /\ OpOK /\ CreateOK
  BY TypeParts
<1> USE DEF OrderInv
<1>1. live' => active'
  BY <1>f, ContextSteps DEF Launch, Reap, cancelShared, StreamEnds, Restart, CancelStops,
                            StopGoroutines, FlagsOK
<1>2. watch'.pc = "off" => ~live'
  <2>1. CASE live'
    <3>1. live \/ Launch
      BY <1>f, <2>1, ContextSteps DEF Reap, cancelShared, StreamEnds, Restart, CancelStops,
                                     StopGoroutines, FlagsOK
    <3>2. CASE Launch BY <1>f, <3>2 DEF Launch, WatchOK
    <3>3. CASE live /\ ~Launch
      <4>1. ~Restart /\ ~WatchStops /\ ~cancelShared
        BY <1>f, <2>1, <3>3 DEF Restart, WatchStops, cancelShared, FlagsOK
      <4>2. CASE WatchReads
        BY <1>f, <4>2 DEF WatchReads, WatchOK
      <4>3. CASE WatchWrites
        BY <1>f, <4>3 DEF WatchWrites, WatchOK
      <4>4. CASE ClearUploadToken
        BY <1>f, <4>4 DEF ClearUploadToken, WatchOK
      <4> QED BY <3>3, <4>1, <4>2, <4>3, <4>4, WatchSteps DEF watchCRPhase
    <3> QED BY <3>1, <3>2, <3>3
  <2> QED BY <2>1
<1>3. create' \in {"idle", "secrets", "launch"} => watch'.pc = "off" /\ watch'.last = "none"
  <2> SUFFICES ASSUME create' \in {"idle", "secrets", "launch"}
               PROVE  watch'.pc = "off" /\ watch'.last = "none"
    OBVIOUS
  <2>1. create \in {"idle", "secrets", "launch"}
    BY CreateSteps DEF CreateCR, createSecrets, Launch, Persist, Reap, Restart
  <2>2. watch.pc = "off"
    BY <2>1
  <2>3. ~watchCRPhase
    BY <2>2 DEF watchCRPhase, WatchReads, WatchStops, WatchWrites, ClearUploadToken, cancelShared
  <2>4. ~Launch
    BY DEF Launch
  <2>5. CASE Restart BY <2>5 DEF Restart
  <2> QED BY <2>1, <2>3, <2>4, <2>5, WatchSteps
<1>4. row' # NoRow => Started'
  <2>1. CASE row # NoRow BY <2>1, StartedStays
  <2>2. CASE Persist /\ row' # NoRow /\ row = NoRow
    BY <2>2 DEF Persist, Started
  <2>3. CASE \E o \in Op : Update(o)
    <3>1. Started
      BY <2>3 DEF Update
    <3> QED BY <3>1, StartedStays
  <2> QED BY <2>1, <2>2, <2>3, RowEffect DEF RowKeeps
<1>5. \A o \in Op : op'[o].pc # "idle" => Started'
  <2> SUFFICES ASSUME NEW o \in Op, op'[o].pc # "idle" PROVE Started'
    OBVIOUS
  <2>1. op[o].pc # "idle" \/ row # NoRow
    <3>1. CASE UNCHANGED op BY <3>1
    <3>2. CASE Restart BY <3>2, RestartedOp, DoneOpType
    <3>3. ASSUME NEW p \in Op, AdminCalls(p) PROVE row # NoRow
      BY <3>3, CalledOp
    <3>4. ASSUME NEW p \in Op, CancelStops(p) \/ CancelDeletes(p) \/ CancelMarks(p)
                               \/ RemoveAll(p) \/ DeleteRow(p) \/ Update(p)
          PROVE  op[o].pc # "idle"
      <4>1. op[p].pc # "idle"
        BY <3>4 DEF CancelStops, CancelDeletes, CancelMarks, RemoveAll, DeleteRow, Update
      <4>2. p # o => op'[o] = op[o]
        BY <3>4, DeletesOp, MarksOp, OtherOp
      <4> QED BY <4>1, <4>2
    <3> QED BY <3>1, <3>2, <3>3, <3>4, OpSteps
  <2> QED BY <2>1, StartedStays
<1>6. cancelled' => Started'
  <2>1. CASE UNCHANGED cancelled BY <2>1, StartedStays
  <2>2. ASSUME NEW o \in Op, CancelMarks(o) PROVE Started'
    <3>1. op[o].pc # "idle"
      BY <2>2 DEF CancelMarks
    <3> QED BY <3>1, StartedStays
  <2> QED BY <2>1, <2>2, HistorySteps
<1> QED BY <1>1, <1>2, <1>3, <1>4, <1>5, <1>6

LEMMA StepRequest ==
    ASSUME TypeOK, RequestInv, [Next]_vars
    PROVE  RequestInv'
<1> SUFFICES ASSUME NEW o \in Op
             PROVE  /\ op'[o].pc = "idle" => op'[o].kind = "none"
                    /\ op'[o].pc \in {"stop", "delete", "mark"} => op'[o].kind \in {"cancel", "delete", "clear"}
                    /\ op'[o].pc = "files" => op'[o].kind \in {"delete", "clear"}
                    /\ op'[o].pc = "row" => op'[o].kind \in {"delete", "clear", "sweep"}
                    /\ op'[o].pc = "save" => op'[o].snap # NoRow
  BY DEF RequestInv
<1>1. CASE UNCHANGED op BY <1>1 DEF RequestInv
<1>2. CASE Restart BY <1>2, RestartedOp, DoneOpType
<1>s. CASE op'[o] = op[o] BY <1>s DEF RequestInv
<1>d. CASE op'[o] = DoneOp BY <1>d, DoneOpType
<1>3. CASE AdminCalls(o) BY <1>3, CalledOp
<1>4. CASE CancelStops(o) BY <1>4, OtherOp DEF CancelStops, RequestInv
<1>5. CASE CancelDeletes(o) BY <1>5, <1>d, DeletesOp DEF RequestInv
<1>6. CASE CancelMarks(o) BY <1>6, <1>d, MarksOp DEF RequestInv
<1>7. CASE RemoveAll(o) BY <1>7, OtherOp DEF RemoveAll, RequestInv
<1>8. CASE DeleteRow(o) \/ Update(o) BY <1>8, <1>d, OtherOp
<1>9. ASSUME NEW p \in Op, p # o,
             \/ AdminCalls(p) \/ CancelStops(p) \/ CancelDeletes(p) \/ CancelMarks(p)
             \/ RemoveAll(p) \/ DeleteRow(p) \/ Update(p)
      PROVE  op'[o] = op[o]
  BY <1>9, CalledOp, DeletesOp, MarksOp, OtherOp
<1> QED BY <1>1, <1>2, <1>s, <1>3, <1>4, <1>5, <1>6, <1>7, <1>8, <1>9, OpSteps

LEMMA StepCancel ==
    ASSUME TypeOK, WatchInv, ExportInv, RequestInv, OrderInv, CancelInv, [Next]_vars
    PROVE  CancelInv'
<1>f. FlagsOK /\ OpOK
  BY TypeParts
<1>l. Started /\ ~live => ~live'
  BY <1>f, ContextSteps DEF Started, Launch, Reap, cancelShared, StreamEnds, Restart, CancelStops,
                            StopGoroutines, FlagsOK
<1>1. \A o \in Op : op'[o].pc \in {"delete", "mark"} => ~live'
  <2> SUFFICES ASSUME NEW o \in Op, op'[o].pc \in {"delete", "mark"} PROVE ~live'
    OBVIOUS
  <2>1. CASE op'[o] = op[o]
    BY <1>l, <2>1 DEF CancelInv, OrderInv
  <2>2. CASE Restart BY <2>2 DEF Restart
  <2>3. CASE CancelStops(o)
    BY <1>f, <2>3 DEF CancelStops, StopGoroutines, OrderInv, FlagsOK
  <2>4. CASE CancelDeletes(o)
    BY <1>l, <2>4 DEF CancelDeletes, CancelInv, OrderInv
  <2>5. ~(AdminCalls(o) \/ CancelMarks(o) \/ RemoveAll(o) \/ DeleteRow(o) \/ Update(o))
    BY CalledOp, MarksOp, OtherOp, DoneOpType
  <2>6. ASSUME NEW p \in Op, p # o,
             \/ AdminCalls(p) \/ CancelStops(p) \/ CancelDeletes(p) \/ CancelMarks(p)
             \/ RemoveAll(p) \/ DeleteRow(p) \/ Update(p)
        PROVE  op'[o] = op[o]
    BY <2>6, CalledOp, DeletesOp, MarksOp, OtherOp
  <2> QED BY <2>1, <2>2, <2>3, <2>4, <2>5, <2>6, OpSteps
<1>2. cancelled' => ~live'
  <2>1. CASE UNCHANGED cancelled BY <1>l, <2>1 DEF CancelInv, OrderInv
  <2>2. ASSUME NEW o \in Op, CancelMarks(o) PROVE ~live'
    <3>1. ~live /\ Started
      BY <2>2 DEF CancelMarks, CancelInv, OrderInv
    <3> QED BY <1>l, <3>1
  <2> QED BY <2>1, <2>2, HistorySteps
<1>3. CancelSticks'
  <2> SUFFICES ASSUME cancelled', row' # NoRow, "patch" \notin lost' PROVE row'.phase = "Error"
    BY DEF CancelSticks
  <2>0. "patch" \notin lost
    BY HistorySteps
  <2>1. CASE ~cancelled
    <3>1. PICK o \in Op : CancelMarks(o)
      BY <2>1, HistorySteps
    <3>2. row # NoRow /\ row' = [row EXCEPT !.phase = "Error"]
      BY <2>1, <3>1, <1>f, MarksOp DEF FlagsOK
    <3>3. RowOK /\ "Error" \in Phases
      BY TypeParts DEF Phases
    <3> QED BY <3>2, <3>3, RowWrites
  <2>2. CASE cancelled
    <3>1. ~live /\ Started
      BY <2>2 DEF CancelInv, OrderInv
    <3>2. ~Persist
      BY <3>1 DEF Persist, Started
    <3>3. row # NoRow => row.phase = "Error"
      BY <2>0, <2>2 DEF CancelInv, CancelSticks
    <3> QED BY <3>1, <3>2, <3>3, RowEffect DEF RowKeeps
  <2> QED BY <2>1, <2>2
<1> QED BY <1>1, <1>2, <1>3 DEF CancelInv

-----------------------------------------------------------------------------
(* What the build leaves in the cluster.                                   *)

LEMMA DeletedIsGone ==
    ASSUME TypeOK
    PROVE  /\ Deleted.phase = "gone" /\ Deleted.phase \notin InCluster /\ Deleted.secrets = {}
           /\ Deleted.spec = cr.spec
<1>1. cr \in [phase : InCluster \union {"none", "gone"},
              spec : {NoSpec, translateBuildOptions(job)}, secrets : SUBSET Secrets]
  BY DEF TypeOK
<1> QED BY <1>1 DEF Deleted, InCluster

\* A CR that has gone, or never came, does not come back.
LEMMA GoneStays ==
    ASSUME TypeOK, [Next]_vars, create # "idle", cr.phase \notin InCluster
    PROVE  cr'.phase \notin InCluster
<1>1. cr' = Deleted => cr'.phase \notin InCluster
  BY DeletedIsGone
<1>2. \A S : Owned(S) = cr
  BY DEF Owned
<1>3. CASE createSecrets BY <1>1, <1>2, <1>3 DEF createSecrets
<1>4. CASE Reap \/ KubectlDelete BY <1>1, <1>4 DEF Reap, KubectlDelete
<1>5. ~CreateCR
  BY DEF CreateCR
<1>6. ~OperatorStep
  BY DEF OperatorStep, InCluster
<1>7. ASSUME NEW o \in Op, CancelDeletes(o) PROVE cr'.phase \notin InCluster
  BY <1>1, <1>7 DEF CancelDeletes
<1> QED BY <1>3, <1>4, <1>5, <1>6, <1>7, CRSteps

\* The operator moves the phase only.
LEMMA OperatorMoves ==
    ASSUME TypeOK, OperatorStep
    PROVE  /\ cr.phase \in {"Pending", "Building", "Exporting"}
           /\ cr'.phase \in InCluster /\ cr'.spec = cr.spec /\ cr'.secrets = cr.secrets
<1>1. cr \in [phase : InCluster \union {"none", "gone"},
              spec : {NoSpec, translateBuildOptions(job)}, secrets : SUBSET Secrets]
  BY DEF TypeOK
<1>2. cr.phase \in {"Pending", "Building", "Exporting"} /\ \E p \in InCluster : cr' = [cr EXCEPT !.phase = p]
  BY DEF OperatorStep, InCluster
<1> QED BY <1>1, <1>2

LEMMA StepSecret ==
    ASSUME TypeOK, OrderInv, SecretInv, [Next]_vars
    PROVE  SecretInv'
<1>0. job' = job
  BY HistorySteps
<1>t. cr \in [phase : InCluster \union {"none", "gone"},
              spec : {NoSpec, translateBuildOptions(job)}, secrets : SUBSET Secrets]
  BY DEF TypeOK
<1>c. /\ create # "idle" => create' # "idle"
      /\ create \in {"idle", "refused", "failed"} /\ ~CreateCR => create' \in {"idle", "refused", "failed"}
      /\ create' \in {"launch", "row", "reap", "ok"} =>
            create \in {"launch", "row", "reap", "ok"} \/ (createSecrets /\ create' = "launch")
  BY CreateSteps DEF CreateCR, createSecrets, Launch, Persist, Reap, Restart
<1>g. ASSUME cr' = Deleted, create' # "idle" PROVE SecretInv'
  BY <1>g, DeletedIsGone DEF SecretInv, InCluster
<1>1. CASE UNCHANGED cr
  <2>1. CASE createSecrets /\ create' = "launch"
    <3>1. cr = Owned(materializeSecrets(job))
      BY <1>1, <2>1 DEF createSecrets
    <3>2. cr.phase \in InCluster => cr.secrets = materializeSecrets(job)
      BY <1>t, <3>1 DEF Owned
    <3> QED BY <1>0, <1>1, <2>1, <3>2 DEF SecretInv, createSecrets
  <2>2. CASE CreateCR
    BY <1>0, <1>1, <2>2 DEF CreateCR, SecretInv, NoCR, InCluster
  <2> QED BY <1>0, <1>1, <1>c, <2>1, <2>2 DEF SecretInv
<1>2. CASE CreateCR
  <2>1. CASE cr' = [phase |-> "Pending", spec |-> translateBuildOptions(job), secrets |-> {}] /\ create' \in {"secrets", "failed"}
    BY <1>0, <2>1 DEF SecretInv, InCluster
  <2> QED BY <1>1, <1>2, <2>1 DEF CreateCR
<1>3. CASE createSecrets
  <2>1. ASSUME NEW S \in SUBSET Secrets, cr' = Owned(S)
        PROVE  /\ cr'.phase = cr.phase /\ cr'.spec = cr.spec
               /\ cr.phase \in InCluster => cr'.secrets = S
    BY <1>t, <2>1 DEF Owned
  <2>2. materializeSecrets(job) \in SUBSET Secrets
    BY DEF materializeSecrets, Secrets
  <2>3. CASE cr' = Owned(materializeSecrets(job)) /\ create' = "launch"
    BY <1>0, <1>3, <2>1, <2>2, <2>3 DEF SecretInv, createSecrets
  <2>4. ASSUME NEW made \in SUBSET materializeSecrets(job), cr' = Owned(made), create' = "failed"
        PROVE  SecretInv'
    BY <1>0, <1>3, <2>1, <2>2, <2>4 DEF SecretInv, createSecrets
  <2> QED BY <1>3, <1>g, <2>3, <2>4 DEF createSecrets
<1>4. CASE Reap
  BY <1>1, <1>4, <1>g DEF Reap
<1>5. CASE KubectlDelete
  <2>1. create # "idle"
    BY <1>5 DEF KubectlDelete, SecretInv, NoCR, InCluster
  <2> QED BY <1>5, <1>c, <1>g, <2>1 DEF KubectlDelete
<1>6. CASE OperatorStep
  <2>1. create # "idle" /\ create' = create
    BY <1>6 DEF OperatorStep, SecretInv, NoCR
  <2> QED BY <1>0, <1>6, <2>1, OperatorMoves DEF SecretInv, InCluster
<1>7. ASSUME NEW o \in Op, CancelDeletes(o) PROVE SecretInv'
  <2>1. create' # "idle"
    BY <1>7, DeletesOp DEF OrderInv, Started
  <2> QED BY <1>1, <1>7, <1>g, <2>1, DeletesOp
<1> QED BY <1>1, <1>2, <1>3, <1>4, <1>5, <1>6, <1>7, CRSteps

\* The fields of a specification that decide what is read from Secrets.
LEMMA SpecFields ==
    ASSUME NEW o
    PROVE  /\ translateBuildOptions(o).exporter = o.url
           /\ translateBuildOptions(o).reads = (IF o.cc THEN {"cloud-config"} ELSE {}) \union
                                               (IF o.dockerfile THEN {"dockerfile"} ELSE {})
<1>1. \A i, f, t, r, e : /\ [image |-> i, flags |-> f, outputs |-> t, reads |-> r, exporter |-> e].exporter = e
                        /\ [image |-> i, flags |-> f, outputs |-> t, reads |-> r, exporter |-> e].reads = r
  OBVIOUS
<1> QED BY <1>1, Zenon DEF translateBuildOptions

LEMMA SecretsFollow ==
    ASSUME SecretInv
    PROVE  SecretsMatchSpec
<1> SUFFICES ASSUME create \in {"row", "reap", "ok"}, cr.phase \in InCluster
             PROVE  cr.secrets = cr.spec.reads \union (IF cr.spec.exporter THEN {"upload"} ELSE {})
  BY DEF SecretsMatchSpec
<1>1. cr.spec = translateBuildOptions(job) /\ cr.secrets = materializeSecrets(job)
  BY DEF SecretInv
<1>2. cr.spec.exporter = job.url
  BY <1>1, SpecFields
<1>3. cr.spec.reads = (IF job.cc THEN {"cloud-config"} ELSE {}) \union
                      (IF job.dockerfile THEN {"dockerfile"} ELSE {})
  BY <1>1, SpecFields
<1> QED BY <1>1, <1>2, <1>3 DEF materializeSecrets

\* The requests a step does not take stay where they are.
LEMMA OthersStay ==
    ASSUME TypeOK, NEW o \in Op, NEW p \in Op, p # o,
           \/ AdminCalls(p) \/ CancelStops(p) \/ CancelDeletes(p) \/ CancelMarks(p)
           \/ RemoveAll(p) \/ DeleteRow(p) \/ Update(p)
    PROVE  op'[o] = op[o]
BY CalledOp, DeletesOp, MarksOp, OtherOp

LEMMA StepStray ==
    ASSUME TypeOK, WatchInv, ExportInv, RequestInv, OrderInv, SecretInv, StrayInv, [Next]_vars
    PROVE  StrayInv'
<1>l. lost \subseteq lost'
  BY HistorySteps
<1>1. \A o \in Op : op'[o].pc \in {"mark", "files", "row"} /\ op'[o].kind # "sweep"
                       => cr'.phase \notin InCluster \/ "delete" \in lost'
  <2> SUFFICES ASSUME NEW o \in Op, op'[o].pc \in {"mark", "files", "row"}, op'[o].kind # "sweep"
               PROVE  cr'.phase \notin InCluster \/ "delete" \in lost'
    OBVIOUS
  <2>1. ASSUME op[o].pc \in {"mark", "files", "row"}, op[o].kind # "sweep"
        PROVE  cr'.phase \notin InCluster \/ "delete" \in lost'
    <3>1. cr.phase \notin InCluster \/ "delete" \in lost
      BY <2>1 DEF StrayInv
    <3>2. create # "idle"
      BY <2>1 DEF OrderInv, Started
    <3> QED BY <1>l, <3>1, <3>2, GoneStays
  <2>2. CASE op'[o] = op[o] BY <2>1, <2>2
  <2>3. CASE CancelDeletes(o)
    BY <2>3, DeletesOp, DeletedIsGone
  <2>4. CASE CancelMarks(o)
    <3>1. op[o].kind # "sweep" /\ op[o].pc = "mark"
      BY <2>4, MarksOp DEF RequestInv
    <3> QED BY <2>1, <3>1
  <2>5. CASE RemoveAll(o)
    <3>1. op[o].kind # "sweep" /\ op[o].pc = "files"
      BY <2>5, OtherOp DEF RemoveAll
    <3> QED BY <2>1, <3>1
  <2>6. ~(AdminCalls(o) \/ CancelStops(o) \/ DeleteRow(o) \/ Update(o) \/ Restart)
    BY CalledOp, OtherOp, RestartedOp, DoneOpType
  <2> QED BY <2>2, <2>3, <2>4, <2>5, <2>6, OpSteps, OthersStay
<1>2. NoStrayCR'
  <2> SUFFICES ASSUME cr'.phase \in InCluster, row' = NoRow, create' \in {"ok", "failed"}
               PROVE  lost' \intersect {"answer", "reap", "delete", "restart", "swept"} # {}
    BY DEF NoStrayCR
  <2>1. CASE ~Started
    <3>1. CASE Restart BY <3>1 DEF Restart
    <3>2. CASE createSecrets
      BY <3>2, DeletedIsGone DEF createSecrets, Fault, Lose
    <3>3. CASE Reap
      BY <3>3, DeletedIsGone DEF Reap, Fault, Lose
    <3>4. CASE Persist
      BY <3>4, NewRow DEF Persist
    <3>5. CASE CreateCR
      BY <3>5 DEF CreateCR, SecretInv, NoCR, InCluster, Fault, Lose
    <3>6. ~Launch
      BY DEF Launch
    <3> QED BY <2>1, <3>1, <3>2, <3>3, <3>4, <3>5, <3>6, CreateSteps DEF Started
  <2>2. CASE Started
    <3>1. cr.phase \in InCluster
      BY <2>2, GoneStays DEF Started
    <3>2. CASE row = NoRow
      BY <1>l, <2>2, <3>1, <3>2 DEF StrayInv, NoStrayCR, Started
    <3>3. ASSUME NEW o \in Op, DeleteRow(o), row # NoRow
          PROVE  lost' \intersect {"answer", "reap", "delete", "restart", "swept"} # {}
      <4>1. op[o].pc = "row"
        BY <3>3 DEF DeleteRow
      <4>2. CASE op[o].kind = "sweep"
        BY <3>3, <4>2 DEF DeleteRow, Lose
      <4>3. CASE op[o].kind # "sweep"
        BY <1>l, <3>1, <4>1, <4>3 DEF StrayInv
      <4> QED BY <4>2, <4>3
    <3> QED BY <3>2, <3>3, RowEffect DEF RowKeeps
  <2> QED BY <2>1, <2>2
<1> QED BY <1>1, <1>2 DEF StrayInv

-----------------------------------------------------------------------------
(* The watcher and the failed row.                                         *)

\* A phase the watcher has read is one the row may show.
LEMMA StatusIsPhase ==
    ASSUME cr.phase \in InCluster
    PROVE  /\ statusFromArtifact(cr.phase) \in Phases
           /\ statusFromArtifact(cr.phase) \in Terminal => cr.phase = statusFromArtifact(cr.phase)
BY DEF statusFromArtifact, InCluster, Phases, Terminal

\* What each step of the watcher makes of it.
LEMMA WatchEffect ==
    ASSUME TypeOK, WatchInv, OrderInv, [Next]_vars
    PROVE  \/ UNCHANGED watch
           \/ Launch /\ watch'.pc = "poll" /\ watch'.last = "none"
           \/ /\ WatchReads /\ cr.phase \in InCluster /\ watch.pc = "poll" /\ UNCHANGED <<cr, row, live, lost, create>>
              /\ watch'.pc = "write" /\ watch'.read = statusFromArtifact(cr.phase)
              /\ watch'.last = watch.last
           \/ /\ WatchReads /\ watch'.pc = "poll" /\ watch'.last = watch.last
           \/ /\ WatchReads /\ cr.phase \notin InCluster /\ watch'.pc = "cancel"
              /\ watch'.last = watch.last /\ watch.pc = "poll" /\ UNCHANGED <<cr, row, live, lost, create>>
           \/ WatchStops /\ watch'.pc = "off" /\ watch'.last = watch.last
           \/ /\ WatchWrites /\ watch.pc = "write" /\ watch'.last = watch.read
              /\ watch'.pc = IF watch.read \in Terminal THEN "clear" ELSE "poll"
           \/ /\ ClearUploadToken /\ watch.pc = "clear" /\ watch'.pc = "cancel" /\ watch'.last = watch.last
           \/ cancelShared /\ watch.pc = "cancel" /\ watch'.pc = "off" /\ watch'.last = watch.last
           \/ Restart /\ watch'.pc = "off" /\ watch'.last = "none" /\ watch'.read = "none"
<1>t. watch \in [pc : {"off", "poll", "write", "clear", "cancel"},
                 read : Phases \union {"none"}, last : Phases \union {"none"}]
  BY DEF TypeOK
<1>1. CASE Launch
  <2>1. watch.last = "none"
    BY <1>1 DEF Launch, OrderInv
  <2>2. watch' = [watch EXCEPT !.pc = "poll"]
    BY <1>1 DEF Launch
  <2> QED BY <1>1, <1>t, <2>1, <2>2
<1>2. CASE WatchReads
  <2>0. watch.pc = "poll" /\ UNCHANGED <<cr, row, live, lost, create>>
    BY <1>2 DEF WatchReads
  <2>1. watch.last \notin Terminal
    BY <2>0 DEF WatchInv
  <2>2. CASE cr.phase \notin InCluster
    <3>1. watch' = [watch EXCEPT !.pc = "cancel"]
      BY <1>2, <2>2 DEF WatchReads
    <3> QED BY <1>2, <1>t, <2>0, <2>2, <3>1
  <2>3. CASE cr.phase \in InCluster
    <3> DEFINE now == statusFromArtifact(cr.phase)
    <3>1. \/ watch' = [watch EXCEPT !.read = now, !.pc = "write"]
          \/ now = watch.last /\ watch' = [watch EXCEPT !.pc = IF now \in Terminal THEN "clear" ELSE "poll"]
      BY <1>2, <2>3 DEF WatchReads
    <3> HIDE DEF now
    <3>2. CASE watch' = [watch EXCEPT !.read = now, !.pc = "write"]
      <4>1. watch'.pc = "write" /\ watch'.read = now /\ watch'.last = watch.last
        BY <1>t, <3>2
      <4> QED BY <1>2, <2>0, <2>3, <4>1 DEF now
    <3>3. CASE watch' = [watch EXCEPT !.pc = "poll"]
      <4>1. watch'.pc = "poll" /\ watch'.last = watch.last
        BY <1>t, <3>3
      <4> QED BY <1>2, <4>1
    <3> QED BY <2>1, <3>1, <3>2, <3>3
  <2> QED BY <2>2, <2>3
<1>3. CASE WatchStops
  <2>1. watch' = [watch EXCEPT !.pc = "off"]
    BY <1>3 DEF WatchStops, WatchEnds
  <2> QED BY <1>3, <1>t, <2>1
<1>4. CASE WatchWrites
  <2>1. watch' = [watch EXCEPT !.last = watch.read, !.read = "none",
                   !.pc = IF watch.read \in Terminal THEN "clear" ELSE "poll"]
    BY <1>4 DEF WatchWrites
  <2>2. watch'.last = watch.read /\ watch'.pc = IF watch.read \in Terminal THEN "clear" ELSE "poll"
    BY <1>t, <2>1
  <2> QED BY <1>4, <2>2 DEF WatchWrites
<1>5. CASE ClearUploadToken
  <2>1. watch.pc = "clear" /\ watch' = [watch EXCEPT !.pc = "cancel"]
    BY <1>5 DEF ClearUploadToken
  <2> QED BY <1>5, <1>t, <2>1
<1>6. CASE cancelShared
  <2>1. watch.pc = "cancel" /\ watch' = [watch EXCEPT !.pc = "off"]
    BY <1>6 DEF cancelShared, WatchEnds
  <2> QED BY <1>6, <1>t, <2>1
<1>7. CASE Restart
  <2>1. watch' = [pc |-> "off", read |-> "none", last |-> "none"]
    BY <1>7 DEF Restart
  <2> QED BY <1>7, <2>1
<1>8. CASE UNCHANGED watch BY <1>8
<1> QED BY <1>1, <1>2, <1>3, <1>4, <1>5, <1>6, <1>7, <1>8, WatchSteps DEF watchCRPhase

\* An end is the last phase of a CR.
LEMMA EndStays ==
    ASSUME TypeOK, SecretInv, [Next]_vars, cr.phase \in {"Ready", "Error", "gone"}
    PROVE  cr'.phase \in {cr.phase, "gone"}
<1>t. cr \in [phase : InCluster \union {"none", "gone"},
              spec : {NoSpec, translateBuildOptions(job)}, secrets : SUBSET Secrets]
  BY DEF TypeOK
<1>1. cr' = Deleted => cr'.phase = "gone"
  BY DeletedIsGone
<1>2. \A S : Owned(S).phase = cr.phase
  BY <1>t DEF Owned
<1>3. CASE createSecrets BY <1>1, <1>2, <1>3 DEF createSecrets
<1>4. CASE Reap \/ KubectlDelete BY <1>1, <1>4 DEF Reap, KubectlDelete
<1>5. ~CreateCR
  BY DEF CreateCR, SecretInv, NoCR
<1>6. ~OperatorStep
  BY OperatorMoves
<1>7. ASSUME NEW o \in Op, CancelDeletes(o) PROVE cr'.phase \in {cr.phase, "gone"}
  BY <1>1, <1>7 DEF CancelDeletes
<1> QED BY <1>3, <1>4, <1>5, <1>6, <1>7, CRSteps

\* A context that lives was alive before, or is launched now.
LEMMA LiveBefore ==
    ASSUME TypeOK, [Next]_vars, live'
    PROVE  live \/ Launch
BY ContextSteps, TypeParts DEF Reap, cancelShared, StreamEnds, Restart, CancelStops, StopGoroutines, FlagsOK

LEMMA StepWatchInv ==
    ASSUME TypeOK, WatchInv, ExportInv, RequestInv, OrderInv, CancelInv, SecretInv, [Next]_vars
    PROVE  WatchInv'
<1>1. watch'.pc \in {"poll", "write"} => watch'.last \notin Terminal
  <2>1. WatchReads => watch.pc = "poll"
    BY DEF WatchReads
  <2> QED BY <2>1, WatchEffect DEF WatchInv, Terminal
<1>2. watch'.pc = "write" => watch'.read \in Phases
  BY WatchEffect, StatusIsPhase DEF WatchInv
<1>3. watch'.pc = "write" /\ watch'.read \in Terminal => cr'.phase \in {watch'.read, "gone"}
  <2>1. CASE UNCHANGED watch
    BY <2>1, EndStays DEF WatchInv, Terminal
  <2> QED BY <2>1, WatchEffect, StatusIsPhase
<1>4. ASSUME row' # NoRow, row'.phase = "Error", "patch" \notin lost', live'
      PROVE  cr'.phase \in {"Error", "gone"} /\ (watch'.pc = "write" => watch'.read = "Error")
  <2>0. "patch" \notin lost
    BY <1>4, HistorySteps
  <2>1. CASE UNCHANGED row
    <3>1. ~Launch
      BY <1>4, <2>1 DEF Launch, OrderInv, Started
    <3>2. live
      BY <1>4, <3>1, LiveBefore
    <3>3. cr.phase \in {"Error", "gone"} /\ (watch.pc = "write" => watch.read = "Error")
      BY <1>4, <2>0, <2>1, <3>2 DEF WatchInv
    <3>4. cr.phase \in InCluster => statusFromArtifact(cr.phase) = "Error"
      BY <3>3 DEF statusFromArtifact, InCluster
    <3> QED BY <3>3, <3>4, EndStays, WatchEffect
  <2>2. CASE WatchWrites /\ RowKeeps(watch.read, row.token, row.files)
    <3>1. watch.read = "Error" /\ watch.pc = "write" /\ cr' = cr
      BY <1>4, <2>2 DEF RowKeeps, WatchWrites
    <3>2. cr.phase \in {"Error", "gone"}
      BY <3>1 DEF WatchInv, Terminal
    <3>3. watch'.pc = "clear"
      <4>1. watch' = [watch EXCEPT !.last = watch.read, !.read = "none",
                       !.pc = IF watch.read \in Terminal THEN "clear" ELSE "poll"]
        BY <2>2 DEF WatchWrites
      <4>2. watch \in [pc : {"off", "poll", "write", "clear", "cancel"},
                       read : Phases \union {"none"}, last : Phases \union {"none"}]
        BY DEF TypeOK
      <4> QED BY <3>1, <4>1, <4>2 DEF Terminal
    <3> QED BY <3>1, <3>2, <3>3
  <2>3. CASE ClearUploadToken /\ RowKeeps(row.phase, FALSE, row.files)
    <3>1. UNCHANGED <<cr, live>> /\ watch' = [watch EXCEPT !.pc = "cancel"]
      BY <2>3 DEF ClearUploadToken
    <3>2. cr.phase \in {"Error", "gone"}
      BY <1>4, <2>0, <2>3, <3>1 DEF WatchInv, RowKeeps
    <3>3. watch'.pc = "cancel"
      BY <3>1 DEF TypeOK
    <3> QED BY <3>1, <3>2, <3>3
  <2>4. ~Restart
    BY <1>4 DEF Restart
  <2>5. ASSUME NEW h \in Handler, UploadLists(h), row # NoRow, row'.phase = row.phase
        PROVE  cr'.phase \in {"Error", "gone"} /\ (watch'.pc = "write" => watch'.read = "Error")
    BY <1>4, <2>0, <2>5 DEF UploadLists, WatchInv
  <2>6. ASSUME NEW o \in Op PROVE ~CancelMarks(o)
    BY <1>4 DEF CancelMarks, CancelInv
  <2>7. ~(Persist /\ row'.phase = "Pending")
    BY <1>4
  <2> QED BY <1>4, <2>1, <2>2, <2>3, <2>4, <2>5, <2>6, <2>7, RowEffect DEF RowKeeps
<1> QED BY <1>1, <1>2, <1>3, <1>4 DEF WatchInv

\* A request keeps its kind until it is done.
LEMMA KindStays ==
    ASSUME TypeOK, [Next]_vars, NEW o \in Op, op'[o].kind \notin {"none", op[o].kind}
    PROVE  AdminCalls(o)
<1>1. ~(CancelStops(o) \/ CancelDeletes(o) \/ CancelMarks(o) \/ RemoveAll(o) \/ DeleteRow(o) \/ Update(o))
  BY DeletesOp, MarksOp, OtherOp, DoneOpType
<1>2. ~Restart
  BY RestartedOp, DoneOpType
<1> QED BY <1>1, <1>2, OpSteps, OthersStay

\* ClearFailed still finds the row failed, or gone, when it removes it.
LEMMA StepClear ==
    ASSUME TypeOK, WatchInv, ExportInv, RequestInv, OrderInv, ClearInv, [Next]_vars
    PROVE  ClearInv'
<1> SUFFICES ASSUME NEW o \in Op, op'[o].kind = "clear", "patch" \notin lost', row' # NoRow
             PROVE  row'.phase = "Error"
  BY DEF ClearInv
<1>0. "patch" \notin lost
  BY HistorySteps
<1>1. CASE op[o].kind = "clear"
  <2>1. row = NoRow \/ row.phase = "Error"
    BY <1>0, <1>1 DEF ClearInv
  <2>2. ~Persist
    BY <1>1 DEF Persist, OrderInv, Started, RequestInv
  <2>3. WatchWrites /\ live /\ row # NoRow => watch.read = "Error"
    BY <1>0, <2>1 DEF WatchInv, WatchWrites
  <2>4. CASE UNCHANGED row BY <2>1, <2>4
  <2>5. ASSUME NEW p, NEW t, NEW f, RowKeeps(p, t, f), p \in {row.phase, "Error"} PROVE row'.phase = "Error"
    BY <2>1, <2>5 DEF RowKeeps
  <2>6. CASE WatchWrites /\ live /\ RowKeeps(watch.read, row.token, row.files)
    BY <2>3, <2>6 DEF RowKeeps
  <2> QED BY <2>2, <2>4, <2>5, <2>6, RowEffect
<1>2. CASE AdminCalls(o)
  <2>1. row' = row
    BY <1>2 DEF AdminCalls
  <2>2. op'[o].kind = "clear" => row.phase = "Error"
    BY <1>2, CalledOp
  <2> QED BY <2>1, <2>2
<1> QED BY <1>1, <1>2, KindStays

-----------------------------------------------------------------------------
(* The exporter and its uploads.                                           *)

\* What a step makes of one upload request.
LEMMA UpEffect ==
    ASSUME TypeOK, ExportInv, [Next]_vars, NEW h \in Handler
    PROVE  \/ up'[h] = up[h]
           \/ up'[h] = IdleUp
           \/ up'[h] = FailedUp /\ (UploadChecks(h) \/ up[h].pc \in {"dir", "copy"})
           \/ /\ UploadChecks(h) /\ row # NoRow /\ up'[h].pc = "dir" /\ up'[h].file = Files[export.next]
              /\ up'[h].snap = row /\ up'[h].mine = FALSE
           \/ /\ UploadOpens(h) /\ up[h].pc = "dir" /\ up'[h].pc = "copy" /\ there' = TRUE
              /\ up'[h].file = up[h].file /\ up'[h].snap = up[h].snap
           \/ /\ UploadRenames(h) /\ up[h].pc = "copy" /\ up'[h].pc = "list" /\ up[h].mine
              /\ onDisk' = onDisk \union {up[h].file}
              /\ up'[h].file = up[h].file /\ up'[h].snap = up[h].snap
           \/ /\ UploadLists(h) /\ up[h].pc = "list" /\ up'[h].pc = "201"
              /\ up'[h].file = up[h].file /\ up'[h].mine = FALSE
           \/ /\ \E o \in Op : RemoveAll(o)
              /\ up'[h].pc = up[h].pc /\ up'[h].file = up[h].file
              /\ up'[h].snap = up[h].snap /\ up'[h].mine = FALSE
<1>1. CASE UNCHANGED up BY <1>1
<1>2. CASE Restart BY <1>2 DEF Restart
<1>3. CASE \E o \in Op : RemoveAll(o) BY <1>3, UnmadeUp
<1>4. CASE UploadChecks(h) BY <1>4, CheckedUp
<1>5. CASE UploadOpens(h) BY <1>5, OpenedUp DEF UploadOpens
<1>6. CASE UploadRenames(h) BY <1>6, RenamedUp DEF UploadRenames
<1>7. CASE UploadLists(h) BY <1>7, ListedUp DEF UploadLists
<1>8. CASE ExporterHears(h) \/ ExporterFails(h) \/ AbandonedEnds(h) BY <1>8, IdledUp
<1>9. ASSUME NEW g \in Handler, g # h,
             \/ UploadChecks(g) \/ UploadOpens(g) \/ UploadRenames(g) \/ UploadLists(g)
             \/ ExporterHears(g) \/ ExporterFails(g) \/ AbandonedEnds(g)
      PROVE  up'[h] = up[h]
  BY <1>9, CheckedUp, OpenedUp, RenamedUp, ListedUp, IdledUp
<1> QED BY <1>1, <1>2, <1>3, <1>4, <1>5, <1>6, <1>7, <1>8, <1>9, UpSteps

\* What a step makes of the exporter.
LEMMA ExportEffect ==
    ASSUME TypeOK, [Next]_vars
    PROVE  \/ UNCHANGED export
           \/ /\ OperatorStep /\ cr.phase = "Building" /\ cr'.phase = "Exporting"
              /\ export'.pc = "send" /\ export'.next = export.next /\ export'.with = export.with
           \/ \E h \in Handler :
                 /\ UploadChecks(h) /\ export.pc = "send" /\ cr.phase = "Exporting" /\ up[h].pc = "idle"
                 /\ export'.pc = "wait" /\ export'.next = export.next /\ export'.with = h
           \/ \E h \in Handler :
                 /\ ExporterHears(h) /\ export.pc = "wait" /\ export.with = h /\ up[h].pc = "201"
                 /\ export'.next = export.next + 1 /\ export'.with = "none" /\ up'[h] = IdleUp
                 /\ export'.pc = IF export.next = Len(Files) THEN "done" ELSE "send"
           \/ \E h \in Handler :
                 /\ ExporterFails(h) /\ export.pc = "wait" /\ export.with = h
                 /\ export'.next \in {export.next, 1} /\ export'.with = "none"
                 /\ export'.pc \in {"send", "failed"}
<1>0. export \in [pc : {"none", "send", "wait", "done", "failed"}, next : 1 .. Len(Files) + 1,
                  retries : 0 .. MaxRetries, with : Handler \union {"none"}]
  BY DEF TypeOK
<1>1. CASE UNCHANGED export BY <1>1
<1>2. CASE OperatorStep
  <2>1. \/ UNCHANGED export
        \/ cr.phase = "Building" /\ cr' = [cr EXCEPT !.phase = "Exporting"] /\ export' = [export EXCEPT !.pc = "send"]
    BY <1>2 DEF OperatorStep
  <2>2. cr \in [phase : InCluster \union {"none", "gone"},
                spec : {NoSpec, translateBuildOptions(job)}, secrets : SUBSET Secrets]
    BY DEF TypeOK
  <2> QED BY <1>0, <1>1, <1>2, <2>1, <2>2
<1>3. ASSUME NEW h \in Handler, UploadChecks(h)
      PROVE  /\ export.pc = "send" /\ cr.phase = "Exporting" /\ up[h].pc = "idle"
             /\ export'.pc = "wait" /\ export'.next = export.next /\ export'.with = h
  BY <1>0, <1>3 DEF UploadChecks
<1>4. ASSUME NEW h \in Handler, ExporterHears(h)
      PROVE  /\ export.pc = "wait" /\ export.with = h /\ up[h].pc = "201"
             /\ export'.next = export.next + 1 /\ export'.with = "none" /\ up'[h] = IdleUp
             /\ export'.pc = IF export.next = Len(Files) THEN "done" ELSE "send"
  <2> DEFINE p == IF export.next = Len(Files) THEN "done" ELSE "send"
  <2>1. export' = [export EXCEPT !.next = export.next + 1, !.with = "none", !.pc = p]
    BY <1>4 DEF ExporterHears
  <2> HIDE DEF p
  <2>2. export'.next = export.next + 1 /\ export'.with = "none" /\ export'.pc = p
    BY <1>0, <2>1
  <2>3. up'[h] = IdleUp
    BY <1>4, TypeParts DEF ExporterHears, UpOK
  <2> QED BY <1>4, <2>2, <2>3 DEF ExporterHears, p
<1>5. ASSUME NEW h \in Handler, ExporterFails(h)
      PROVE  /\ export.pc = "wait" /\ export.with = h
             /\ export'.next \in {export.next, 1} /\ export'.with = "none"
             /\ export'.pc \in {"send", "failed"}
  <2>1. CASE export' = [export EXCEPT !.pc = "failed", !.with = "none"]
    BY <1>0, <1>5, <2>1 DEF ExporterFails
  <2>2. ASSUME NEW next \in {export.next, 1},
               export' = [pc |-> "send", next |-> next, retries |-> export.retries + 1, with |-> "none"]
        PROVE  export'.next = next /\ export'.with = "none" /\ export'.pc = "send"
    BY <2>2
  <2> QED BY <1>5, <2>1, <2>2 DEF ExporterFails
<1> QED BY <1>1, <1>2, <1>3, <1>4, <1>5, ExportSteps

\* The phases before the export are not come back to.
LEMMA EarlyBefore ==
    ASSUME TypeOK, SecretInv, [Next]_vars, cr'.phase \in {"none", "Pending", "Building"}
    PROVE  cr.phase \in {"none", "Pending", "Building"}
<1>t. cr \in [phase : InCluster \union {"none", "gone"},
              spec : {NoSpec, translateBuildOptions(job)}, secrets : SUBSET Secrets]
  BY DEF TypeOK
<1>1. cr' # Deleted
  BY DeletedIsGone
<1>2. \A S : Owned(S).phase = cr.phase
  BY <1>t DEF Owned
<1>3. CASE createSecrets BY <1>1, <1>2, <1>3 DEF createSecrets
<1>4. CASE CreateCR BY <1>4 DEF CreateCR, SecretInv, NoCR
<1>5. CASE OperatorStep
  <2>1. CASE cr.phase = "Exporting"
    <3>1. cr'.phase \in {"Ready", "Error"}
      BY <1>5, <1>t, <2>1 DEF OperatorStep
    <3> QED BY <3>1
  <2> QED BY <1>5, <2>1, OperatorMoves
<1>6. CASE UNCHANGED cr BY <1>6
<1>7. CASE Reap \/ KubectlDelete BY <1>1, <1>6, <1>7 DEF Reap, KubectlDelete
<1>8. ASSUME NEW o \in Op, CancelDeletes(o) PROVE cr' = cr
  BY <1>1, <1>8 DEF CancelDeletes
<1> QED BY <1>3, <1>4, <1>5, <1>6, <1>7, <1>8, CRSteps

LEMMA StepExportInv ==
    ASSUME TypeOK, ExportInv, OrderInv, SecretInv, [Next]_vars
    PROVE  ExportInv'
<1>f. Len(Files) \in Nat /\ Len(Files) >= 1 /\ export.next \in 1 .. Len(Files) + 1
  BY FilesAreFiles, TypeParts DEF ExportOK
<1>b. cr.phase = "Building" => export.pc = "none" /\ export.with = "none"
  BY DEF ExportInv
<1>1. export'.pc \in {"none", "send", "wait"} => export'.next <= Len(Files)
  <2>1. CASE UNCHANGED export BY <2>1 DEF ExportInv
  <2> QED BY <1>f, <1>b, <2>1, ExportEffect DEF ExportInv
<1>2. export'.pc = "done" => export'.next = Len(Files) + 1
  <2>1. CASE UNCHANGED export BY <2>1 DEF ExportInv
  <2> QED BY <1>f, <2>1, ExportEffect
<1>3. IF export'.pc = "wait" THEN export'.with \in Handler ELSE export'.with = "none"
  <2>1. CASE UNCHANGED export BY <2>1 DEF ExportInv
  <2> QED BY <1>b, <2>1, ExportEffect
<1>4. cr'.phase \in {"none", "Pending", "Building"} => export'.pc = "none"
  <2> SUFFICES ASSUME cr'.phase \in {"none", "Pending", "Building"} PROVE export'.pc = "none"
    OBVIOUS
  <2>1. export.pc = "none"
    BY EarlyBefore DEF ExportInv
  <2> QED BY <2>1, ExportEffect
<1>5. ~Started' => /\ export'.next = 1
                   /\ \A h \in Handler : up'[h].pc \in {"idle", "error"}
  <2> SUFFICES ASSUME ~Started' PROVE export'.next = 1 /\ \A h \in Handler : up'[h].pc \in {"idle", "error"}
    OBVIOUS
  <2>1. ~Started /\ row = NoRow
    BY StartedStays DEF OrderInv
  <2>2. export.next = 1 /\ \A h \in Handler : up[h].pc \in {"idle", "error"}
    BY <2>1 DEF ExportInv
  <2>3. export'.next = 1
    BY <2>2, ExportEffect
  <2>4. ASSUME NEW h \in Handler PROVE up'[h].pc \in {"idle", "error"}
    BY <2>1, <2>2, UpEffect, IdleUpType
  <2> QED BY <2>3, <2>4
<1>6. ASSUME NEW h \in Handler
      PROVE  export'.pc = "wait" /\ export'.with = h /\ up'[h].pc \in {"dir", "copy", "list", "201"}
                => up'[h].file = Files[export'.next]
  <2> SUFFICES ASSUME export'.pc = "wait", export'.with = h, up'[h].pc \in {"dir", "copy", "list", "201"}
               PROVE  up'[h].file = Files[export'.next]
    OBVIOUS
  <2>1. CASE UploadChecks(h)
    <3>1. export'.next = export.next
      BY <2>1, ExportEffect
    <3> QED BY <2>1, <3>1, CheckedUp, IdleUpType
  <2>2. CASE UNCHANGED export
    <3>1. ~(UploadChecks(h))
      BY <2>2, TypeParts DEF UploadChecks, ExportOK
    <3>2. up[h].pc \in {"dir", "copy", "list", "201"} /\ up'[h].file = up[h].file
      BY <3>1, UpEffect, IdleUpType
    <3> QED BY <2>2, <3>2 DEF ExportInv
  <2> QED BY <2>1, <2>2, ExportEffect
<1>7. ASSUME NEW h \in Handler
      PROVE  up'[h].pc \in {"dir", "copy", "list"} => up'[h].snap # NoRow /\ up'[h].file \in Range(Files)
  <2> SUFFICES ASSUME up'[h].pc \in {"dir", "copy", "list"}
               PROVE  up'[h].snap # NoRow /\ up'[h].file \in Range(Files)
    OBVIOUS
  <2>1. CASE UploadChecks(h)
    <3>1. Files[export.next] \in Range(Files)
      BY <1>f, <2>1, FilesAreFiles DEF UploadChecks, ExportInv
    <3> QED BY <2>1, <3>1, CheckedUp, IdleUpType
  <2>2. CASE ~UploadChecks(h)
    <3>1. up[h].pc \in {"dir", "copy", "list"} /\ up'[h].file = up[h].file /\ up'[h].snap = up[h].snap
      BY <2>2, UpEffect, IdleUpType
    <3> QED BY <3>1 DEF ExportInv
  <2> QED BY <2>1, <2>2
<1>8. ASSUME NEW h \in Handler PROVE up'[h].mine => there'
  <2>1. CASE \E o \in Op : RemoveAll(o) BY <2>1, UnmadeUp
  <2>2. CASE ~\E o \in Op : RemoveAll(o)
    <3>1. there => there'
      BY <2>2, DirSteps, OpenedUp DEF UploadRenames
    <3> QED BY <2>2, <3>1, UpEffect, IdleUpType DEF ExportInv
  <2> QED BY <2>1, <2>2
<1> QED BY <1>1, <1>2, <1>3, <1>4, <1>5, <1>6, <1>7, <1>8 DEF ExportInv

\* What is made of the CR, but for its Secrets.
LEMMA CREffect ==
    ASSUME TypeOK, [Next]_vars
    PROVE  \/ cr'.phase = cr.phase /\ cr'.spec = cr.spec
           \/ CreateCR /\ cr'.phase = "Pending"
           \/ cr'.phase = "gone" /\ cr'.spec = cr.spec
           \/ OperatorStep /\ cr'.spec = cr.spec
<1>t. cr \in [phase : InCluster \union {"none", "gone"},
              spec : {NoSpec, translateBuildOptions(job)}, secrets : SUBSET Secrets]
  BY DEF TypeOK
<1>1. cr' = Deleted => cr'.phase = "gone" /\ cr'.spec = cr.spec
  BY DeletedIsGone
<1>2. \A S : Owned(S).phase = cr.phase /\ Owned(S).spec = cr.spec
  BY <1>t DEF Owned
<1>3. CASE createSecrets BY <1>1, <1>2, <1>3 DEF createSecrets
<1>4. CASE CreateCR BY <1>4 DEF CreateCR
<1>5. CASE OperatorStep BY <1>5, OperatorMoves
<1>7. CASE Reap \/ KubectlDelete BY <1>1, <1>7 DEF Reap, KubectlDelete
<1>8. ASSUME NEW o \in Op, CancelDeletes(o) PROVE cr' = cr \/ cr' = Deleted
  BY <1>8 DEF CancelDeletes
<1> QED BY <1>1, <1>3, <1>4, <1>5, <1>7, <1>8, CRSteps

\* Ready comes behind the exporter, for whoever reads or has read it.
LEMMA StepDone ==
    ASSUME TypeOK, WatchInv, ExportInv, RequestInv, OrderInv, SecretInv, DoneInv, [Next]_vars
    PROVE  DoneInv'
<1>0. export.pc = "done" => export'.pc = "done"
  BY ExportEffect DEF ExportInv
<1>l. "patch" \notin lost' => "patch" \notin lost
  BY HistorySteps
<1>1. CASE CreateCR
  <2>1. row = NoRow /\ row' = row /\ watch.pc = "off" /\ watch' = watch
    BY <1>1 DEF CreateCR, OrderInv, Started
  <2>2. cr'.phase \in {"none", "Pending"}
    BY <1>1 DEF CreateCR, SecretInv, NoCR
  <2> QED BY <2>1, <2>2 DEF DoneInv
<1>2. CASE ~CreateCR
  <2> SUFFICES ASSUME cr'.spec.exporter
               PROVE  /\ cr'.phase = "Ready" => export'.pc = "done"
                      /\ watch'.pc = "write" /\ watch'.read = "Ready" => export'.pc = "done"
                      /\ row' # NoRow /\ row'.phase = "Ready" /\ "patch" \notin lost' => export'.pc = "done"
    BY DEF DoneInv
  <2>1. cr.spec.exporter
    BY <1>2, CREffect
  <2>2. cr'.phase = "Ready" => export'.pc = "done"
    <3>1. CASE OperatorStep
      <4>1. cr \in [phase : InCluster \union {"none", "gone"},
                    spec : {NoSpec, translateBuildOptions(job)}, secrets : SUBSET Secrets]
        BY DEF TypeOK
      <4> QED BY <1>0, <2>1, <3>1, <4>1 DEF OperatorStep
    <3>2. CASE cr'.phase = cr.phase BY <1>0, <2>1, <3>2 DEF DoneInv
    <3> QED BY <1>2, <3>1, <3>2, CREffect
  <2>3. watch'.pc = "write" /\ watch'.read = "Ready" => export'.pc = "done"
    <3>1. CASE UNCHANGED watch BY <1>0, <2>1, <3>1 DEF DoneInv
    <3>2. ASSUME cr.phase \in InCluster, statusFromArtifact(cr.phase) = "Ready" PROVE cr.phase = "Ready"
      BY <3>2, StatusIsPhase DEF Terminal
    <3> QED BY <1>0, <2>1, <3>1, <3>2, WatchEffect DEF DoneInv
  <2>4. row' # NoRow /\ row'.phase = "Ready" /\ "patch" \notin lost' => export'.pc = "done"
    <3> SUFFICES ASSUME row' # NoRow, row'.phase = "Ready", "patch" \notin lost' PROVE export'.pc = "done"
      OBVIOUS
    <3>1. row # NoRow /\ row.phase = "Ready" => export.pc = "done"
      BY <1>l, <2>1 DEF DoneInv
    <3>2. CASE UNCHANGED row BY <1>0, <3>1, <3>2
    <3>3. ASSUME NEW t, NEW f, RowKeeps(row.phase, t, f) PROVE export'.pc = "done"
      BY <1>0, <3>1, <3>3 DEF RowKeeps
    <3>4. ASSUME NEW t, NEW f PROVE ~RowKeeps("Error", t, f)
      BY DEF RowKeeps
    <3>5. CASE WatchWrites /\ RowKeeps(watch.read, row.token, row.files)
      <4>1. watch.pc = "write" /\ watch.read = "Ready"
        BY <3>5 DEF WatchWrites, RowKeeps
      <4> QED BY <1>0, <2>1, <4>1 DEF DoneInv
    <3> QED BY <3>2, <3>3, <3>4, <3>5, RowEffect
  <2> QED BY <2>2, <2>3, <2>4
<1> QED BY <1>1, <1>2

-----------------------------------------------------------------------------
(* The files of a build that is ready.                                     *)

\* A request that is about to remove the row removes it, or the fault is known.
LEMMA IntactBefore ==
    ASSUME TypeOK, WatchInv, ExportInv, RequestInv, ClearInv, [Next]_vars, Intact'
    PROVE  Intact \/ (Persist /\ row = NoRow)
<1>0. lost \intersect {"patch", "row", "restart"} = {} /\ lost' \intersect {"patch", "row", "restart"} = {}
  BY HistorySteps DEF Intact
<1>1. ASSUME NEW o \in Op, op[o].pc = "row", op[o].kind # "sweep" PROVE row = NoRow
  <2>1. op'[o] # op[o]
    BY <1>1 DEF Intact
  <2>2. ~Restart
    BY <1>0 DEF Restart
  <2>3. ~(AdminCalls(o) \/ CancelStops(o) \/ CancelDeletes(o) \/ CancelMarks(o) \/ RemoveAll(o) \/ Update(o))
    BY <1>1 DEF AdminCalls, CancelStops, CancelDeletes, CancelMarks, RemoveAll, Update
  <2>4. DeleteRow(o)
    BY <2>1, <2>2, <2>3, OpSteps, OthersStay
  <2>5. row # NoRow => op[o].kind = "delete" \/ row.phase = "Error"
    BY <1>0, <1>1 DEF RequestInv, ClearInv
  <2>6. row # NoRow => row' = NoRow
    BY <1>0, <2>4, <2>5 DEF DeleteRow, Fault, Lose
  <2> QED BY <2>6 DEF Intact
<1>2. CASE row # NoRow
  BY <1>0, <1>1, <1>2 DEF Intact
<1>3. CASE row = NoRow
  BY <1>0, <1>3, RowEffect DEF RowKeeps, Intact
<1> QED BY <1>2, <1>3

LEMMA StepDisk ==
    ASSUME TypeOK, WatchInv, ExportInv, RequestInv, OrderInv, ClearInv, DiskInv, [Next]_vars
    PROVE  DiskInv'
<1>f. Len(Files) \in Nat /\ export.next \in 1 .. Len(Files) + 1
  BY FilesAreFiles, TypeParts DEF ExportOK
<1> SUFFICES ASSUME Intact'
             PROVE  /\ \A i \in 1 .. export'.next - 1 : Files[i] \in onDisk'
                    /\ \A h \in Handler : up'[h].pc \in {"list", "201"} => up'[h].file \in onDisk'
  BY DEF DiskInv
<1>1. CASE Persist /\ row = NoRow
  <2>1. ~Started /\ export' = export /\ up' = up
    BY <1>1 DEF Persist, Started
  <2>2. export'.next = 1 /\ \A h \in Handler : up'[h].pc \in {"idle", "error"}
    BY <2>1 DEF ExportInv
  <2> QED BY <2>2
<1>2. CASE Intact
  <2>0. /\ \A i \in 1 .. export.next - 1 : Files[i] \in onDisk
        /\ \A h \in Handler : up[h].pc \in {"list", "201"} => up[h].file \in onDisk
    BY <1>2 DEF DiskInv
  <2>1. ASSUME NEW o \in Op PROVE ~RemoveAll(o)
    <3>1. RemoveAll(o) => op'[o].pc = "row" /\ op'[o].kind = op[o].kind /\ op[o].pc = "files"
      BY OtherOp DEF RemoveAll
    <3> QED BY <3>1 DEF RequestInv, Intact
  <2>2. onDisk \subseteq onDisk'
    BY <2>1, DirSteps, RenamedUp DEF UploadOpens
  <2>3. ASSUME NEW i \in 1 .. export'.next - 1 PROVE Files[i] \in onDisk'
    <3>1. CASE i \in 1 .. export.next - 1 BY <2>0, <2>2, <3>1
    <3>2. ASSUME NEW h \in Handler, ExporterHears(h), i = export.next PROVE Files[i] \in onDisk'
      BY <2>0, <2>2, <3>2 DEF ExporterHears, ExportInv
    <3> QED BY <1>f, <3>1, <3>2, ExportEffect
  <2>4. ASSUME NEW h \in Handler, up'[h].pc \in {"list", "201"} PROVE up'[h].file \in onDisk'
    BY <2>0, <2>1, <2>2, <2>4, UpEffect, IdleUpType
  <2> QED BY <2>3, <2>4
<1> QED BY <1>1, <1>2, IntactBefore

\* What an upload writes, and that others leave the list alone.
LEMMA ListsAppend ==
    ASSUME TypeOK, ExportInv, NEW h \in Handler, UploadLists(h), "list" \notin lost', row # NoRow
    PROVE  row'.files = up[h].snap.files \union {up[h].file}
<1>1. row' = UpdateFiles(up[h].snap, up[h].file)
  BY DEF UploadLists, Fault, Lose
<1>2. up[h].snap \in Rows /\ up[h].file \in Range(Files)
  BY TypeParts DEF UploadLists, ExportInv, UpOK, Uploads
<1> QED BY <1>1, <1>2, ListWrites, TypeParts

LEMMA StepList ==
    ASSUME TypeOK, WatchInv, ExportInv, RequestInv, OrderInv, ListInv, [Next]_vars
    PROVE  ListInv'
<1>f. Len(Files) \in Nat /\ export.next \in 1 .. Len(Files) + 1
  BY FilesAreFiles, TypeParts DEF ExportOK
<1> SUFFICES ASSUME Listing'
             PROVE  /\ \A h \in Handler : up'[h].pc # "idle" => export'.pc = "wait" /\ export'.with = h
                    /\ row' # NoRow =>
                        /\ \A i \in 1 .. export'.next - 1 : Files[i] \in row'.files
                        /\ \A h \in Handler :
                              /\ up'[h].pc = "201" => up'[h].file \in row'.files
                              /\ up'[h].pc \in {"dir", "copy", "list"} => row'.files \subseteq up'[h].snap.files
  BY DEF ListInv
<1>l. Listing /\ "list" \notin lost' /\ "abandoned" \notin lost' /\ "patch" \notin lost'
  BY HistorySteps DEF Listing
<1>w. \A h \in Handler : up[h].pc # "idle" => export.pc = "wait" /\ export.with = h
  BY <1>l DEF ListInv
<1>1. ASSUME NEW h \in Handler, up'[h].pc # "idle" PROVE export'.pc = "wait" /\ export'.with = h
  <2>1. CASE UploadChecks(h)
    BY <2>1, TypeParts DEF UploadChecks, ExportOK
  <2>2. CASE ~UploadChecks(h)
    <3>1. up[h].pc # "idle"
      BY <1>1, <2>2, UpEffect, IdleUpType
    <3>2. export.pc = "wait" /\ export.with = h
      BY <1>w, <3>1
    <3>3. ~ExporterHears(h) /\ ~ExporterFails(h)
      BY <1>1, <1>l, IdledUp, IdleUpType
    <3> QED BY <3>2, <3>3, ExportEffect DEF ExportInv
  <2> QED BY <2>1, <2>2
<1>2. CASE row = NoRow /\ row' # NoRow
  <2>1. Persist
    BY <1>2, <1>l, RowEffect DEF RowKeeps
  <2>2. ~Started /\ export' = export /\ up' = up
    BY <2>1 DEF Persist, Started
  <2>3. export'.next = 1 /\ \A h \in Handler : up'[h].pc \in {"idle", "error"}
    BY <2>2 DEF ExportInv
  <2> QED BY <1>1, <2>3
<1>3. CASE row # NoRow /\ row' # NoRow
  <2>0. /\ \A i \in 1 .. export.next - 1 : Files[i] \in row.files
        /\ \A h \in Handler :
              /\ up[h].pc = "201" => up[h].file \in row.files
              /\ up[h].pc \in {"dir", "copy", "list"} => row.files \subseteq up[h].snap.files
    BY <1>3, <1>l DEF ListInv
  <2>1. ~Persist
    BY <1>3 DEF Persist, OrderInv, Started
  <2>2. row'.files = row.files \/ \E h \in Handler : UploadLists(h)
    BY <1>3, <1>l, <2>1, RowEffect DEF RowKeeps
  <2>3. row.files \subseteq row'.files
    BY <1>3, <1>l, <2>0, <2>2, ListsAppend DEF UploadLists
  <2>4. ASSUME NEW i \in 1 .. export'.next - 1 PROVE Files[i] \in row'.files
    <3>1. CASE i \in 1 .. export.next - 1 BY <2>0, <2>3, <3>1
    <3>2. ASSUME NEW h \in Handler, ExporterHears(h), i = export.next PROVE Files[i] \in row'.files
      BY <2>0, <2>3, <3>2 DEF ExporterHears, ExportInv
    <3> QED BY <1>f, <3>1, <3>2, ExportEffect
  <2>5. ASSUME NEW h \in Handler, up'[h].pc = "201" PROVE up'[h].file \in row'.files
    <3>1. CASE UploadLists(h) BY <1>3, <1>l, <3>1, ListsAppend, ListedUp
    <3>2. CASE ~UploadLists(h)
      <4>1. up[h].pc = "201" /\ up'[h].file = up[h].file
        BY <2>5, <3>2, UpEffect, IdleUpType
      <4> QED BY <2>0, <2>3, <4>1
    <3> QED BY <3>1, <3>2
  <2>6. ASSUME NEW h \in Handler, up'[h].pc \in {"dir", "copy", "list"}
        PROVE  row'.files \subseteq up'[h].snap.files
    <3>1. CASE UploadChecks(h)
      BY <2>6, <3>1, CheckedUp, IdleUpType DEF UploadChecks
    <3>2. CASE ~UploadChecks(h)
      <4>1. up[h].pc \in {"dir", "copy", "list"} /\ up'[h].snap = up[h].snap
        BY <2>6, <3>2, UpEffect, IdleUpType
      <4>2. row.files \subseteq up'[h].snap.files
        BY <2>0, <4>1
      <4>3. ASSUME NEW g \in Handler PROVE ~UploadLists(g)
        <5>1. UploadLists(g) => up[g].pc = "list" /\ up'[g].pc = "201"
          BY ListedUp DEF UploadLists
        <5>2. UploadLists(g) => g = h
          BY <1>w, <4>1, <5>1
        <5> QED BY <2>6, <5>1, <5>2
      <4> QED BY <2>2, <4>2, <4>3
    <3> QED BY <3>1, <3>2
  <2> QED BY <1>1, <2>4, <2>5, <2>6
<1> QED BY <1>1, <1>2, <1>3

-----------------------------------------------------------------------------
(* How a build comes to rest.                                              *)

LEMMA StepToken ==
    ASSUME TypeOK, WatchInv, ExportInv, RequestInv, OrderInv, TokenInv, [Next]_vars
    PROVE  TokenInv'
<1> SUFFICES ASSUME watch'.last \in Terminal, watch'.pc \in {"cancel", "off"}
             PROVE  /\ create' = "row" => "token" \in lost'
                    /\ row' # NoRow /\ lost' \intersect {"token", "patch"} = {} => ~row'.token
  BY DEF TokenInv
<1>l. lost \subseteq lost'
  BY HistorySteps
<1>1. CASE UNCHANGED watch
  <2>0. /\ create = "row" => "token" \in lost
        /\ row # NoRow /\ lost \intersect {"token", "patch"} = {} => ~row.token
    BY <1>1 DEF TokenInv
  <2>1. create \notin {"idle", "secrets", "launch"}
    BY <1>1 DEF OrderInv, Terminal
  <2>2. create' = "row" => create = "row"
    BY <2>1, CreateSteps DEF CreateCR, createSecrets, Launch, Persist, Reap, Restart
  <2>3. Persist => "token" \in lost'
    BY <1>l, <2>0 DEF Persist
  <2>4. ASSUME row' # NoRow, lost' \intersect {"token", "patch"} = {} PROVE ~row'.token
    <3>1. row # NoRow => ~row.token
      BY <1>l, <2>0, <2>4
    <3>2. CASE UNCHANGED row BY <2>4, <3>1, <3>2
    <3>3. ASSUME NEW p, NEW f, RowKeeps(p, row.token, f) PROVE ~row'.token
      BY <3>1, <3>3 DEF RowKeeps
    <3>4. ASSUME NEW p, NEW f, RowKeeps(p, FALSE, f) PROVE ~row'.token
      BY <3>4 DEF RowKeeps
    <3> QED BY <2>3, <2>4, <3>2, <3>3, <3>4, RowEffect
  <2> QED BY <1>l, <2>0, <2>2, <2>4
<1>2. CASE ClearUploadToken
  <2>1. create = "row" => row = NoRow
    BY DEF OrderInv, Started
  <2>2. create' = create /\ (row = NoRow => "token" \in lost')
    BY <1>2 DEF ClearUploadToken, Writable, Lose
  <2>3. ASSUME row' # NoRow, "token" \notin lost' PROVE ~row'.token
    <3>1. row # NoRow /\ row' = [row EXCEPT !.token = FALSE]
      BY <1>2, <2>3 DEF ClearUploadToken, Writable, Fault, Lose
    <3> QED BY <3>1, RowWrites, TypeParts
  <2> QED BY <2>1, <2>2, <2>3
<1>3. CASE cancelShared /\ watch.pc = "cancel" /\ watch'.last = watch.last
  BY <1>3 DEF cancelShared, TokenInv
<1>4. CASE watch.pc = "poll" /\ watch'.last = watch.last
  BY <1>4 DEF WatchInv
<1>5. WatchStops => watch.pc = "poll"
  BY DEF WatchStops
<1> QED BY <1>1, <1>2, <1>3, <1>4, <1>5, WatchEffect DEF Terminal

\* A row that shows an end keeps showing one, and a CR that has gone does not come back.
LEMMA SettledStays ==
    ASSUME TypeOK, WatchInv, ExportInv, RequestInv, OrderInv, [Next]_vars,
           row # NoRow, row' # NoRow, RowSettled, "patch" \notin lost', ~(WatchWrites /\ live)
    PROVE  RowSettled'
<1>0. Started
  BY DEF OrderInv
<1>1. CASE cr.phase \notin InCluster
  BY <1>0, <1>1, GoneStays DEF RowSettled, Started
<1>2. CASE row.phase \in Terminal
  <2>1. ~Persist
    BY <1>0 DEF Persist, Started
  <2>2. CASE UNCHANGED row BY <1>2, <2>2 DEF RowSettled
  <2>3. ASSUME NEW p \in {row.phase, "Error"}, NEW t, NEW f, RowKeeps(p, t, f) PROVE RowSettled'
    BY <1>2, <2>3 DEF RowSettled, RowKeeps, Terminal
  <2> QED BY <2>1, <2>2, <2>3, RowEffect
<1> QED BY <1>1, <1>2 DEF RowSettled

\* A restart reconciles the row, or loses it.
LEMMA RestartSettles ==
    ASSUME TypeOK, Restart, row' # NoRow, "phase" \notin lost'
    PROVE  RowSettled'
<1>1. row' = ReconcileOrphanedArtifacts(row)
  BY DEF Restart
<1>2. row # NoRow
  BY <1>1 DEF ReconcileOrphanedArtifacts
<1>3. row \in Rows /\ "Error" \in Phases
  BY <1>2, TypeParts DEF RowOK, Phases
<1>4. row.phase \in {"Pending", "Building"} \/ row.phase \in Terminal
  BY <1>3 DEF Rows, Phases, Terminal
<1>5. CASE row.phase \in {"Pending", "Building"}
  <2>1. row' = [row EXCEPT !.phase = "Error"]
    BY <1>1, <1>2, <1>5 DEF ReconcileOrphanedArtifacts
  <2>2. row'.phase = "Error"
    BY <1>2, <1>3, <2>1, RowWrites, TypeParts
  <2> QED BY <2>2 DEF RowSettled, Terminal
<1>6. CASE row.phase \notin {"Pending", "Building"}
  <2>1. row' = row
    BY <1>1, <1>6 DEF ReconcileOrphanedArtifacts
  <2> QED BY <1>4, <1>6, <2>1 DEF RowSettled
<1> QED BY <1>5, <1>6

LEMMA StepSettle ==
    ASSUME TypeOK, WatchInv, ExportInv, RequestInv, OrderInv, SettleInv, [Next]_vars
    PROVE  SettleInv'
<1>l. lost \subseteq lost'
  BY HistorySteps
<1>f. FlagsOK
  BY TypeParts
<1>d. live => live' \/ cancelShared \/ Reap \/ Restart \/ \E o \in Op : CancelStops(o)
  BY ContextSteps DEF Launch, StreamEnds
<1>n. row = NoRow /\ row' # NoRow /\ "patch" \notin lost' => Persist
  BY RowEffect DEF RowKeeps
<1>1. ASSUME create' = "row", ~live' \/ watch'.pc \in {"clear", "cancel"}
      PROVE  "phase" \in lost' \/ cr'.phase \notin InCluster
  <2>1. CASE Launch
    BY <1>1, <2>1, TypeParts DEF Launch, WatchOK
  <2>2. CASE ~Launch
    <3>1. create = "row" /\ ~Restart
      BY <1>1, <2>2, CreateSteps DEF CreateCR, createSecrets, Persist, Reap, Restart
    <3>2. row = NoRow /\ \A o \in Op : op[o].pc = "idle"
      BY <3>1 DEF OrderInv, Started
    <3>3. CASE ~live \/ watch.pc \in {"clear", "cancel"}
      <4>1. "phase" \in lost \/ cr.phase \notin InCluster
        BY <3>1, <3>3 DEF SettleInv
      <4> QED BY <1>l, <3>1, <4>1, GoneStays
    <3>4. CASE live /\ ~live'
      <4>1. ~Reap
        BY <3>1 DEF Reap
      <4>2. \A o \in Op : ~CancelStops(o)
        BY <3>2 DEF CancelStops
      <4>3. cancelShared => watch.pc = "cancel"
        BY DEF cancelShared
      <4> QED BY <1>d, <3>1, <3>3, <3>4, <4>1, <4>2, <4>3
    <3>5. CASE watch'.pc \in {"clear", "cancel"} /\ watch.pc \notin {"clear", "cancel"}
      <4>1. CASE WatchWrites
        BY <3>2, <4>1 DEF WatchWrites, Writable, Lose
      <4> QED BY <2>2, <3>1, <3>5, <4>1, WatchEffect
    <3> QED BY <1>1, <3>3, <3>4, <3>5
  <2> QED BY <2>1, <2>2
<1>p. ASSUME Persist, row = NoRow, row' # NoRow, "phase" \notin lost', ~live \/ watch.pc \in {"clear", "cancel"}
      PROVE  RowSettled'
  <2>1. create = "row" /\ cr' = cr
    BY <1>p DEF Persist
  <2>2. cr.phase \notin InCluster
    BY <1>l, <1>p, <2>1 DEF SettleInv
  <2> QED BY <2>1, <2>2 DEF RowSettled
<1>2. ASSUME watch'.pc \in {"clear", "cancel"}, row' # NoRow, lost' \intersect {"phase", "patch"} = {}
      PROVE  RowSettled'
  <2>0. "patch" \notin lost' /\ "phase" \notin lost'
    BY <1>2
  <2>1. CASE watch.pc \in {"clear", "cancel"}
    <3>1. ~WatchWrites
      BY <2>1 DEF WatchWrites
    <3>2. row # NoRow => RowSettled
      BY <1>2, <1>l, <2>1 DEF SettleInv
    <3> QED BY <1>2, <1>n, <1>p, <2>0, <2>1, <3>1, <3>2, SettledStays
  <2>2. CASE WatchWrites
    <3>1. row # NoRow /\ row' = [row EXCEPT !.phase = watch.read]
      BY <1>2, <2>0, <2>2 DEF WatchWrites, Writable, Fault, Lose
    <3>2. watch.read \in Terminal /\ watch.read \in Phases
      BY <1>2, <2>2, WatchEffect DEF WatchWrites, WatchReads, WatchStops, ClearUploadToken, cancelShared, WatchInv, Launch, OrderInv, Restart
    <3>3. row'.phase = watch.read
      BY <3>1, <3>2, RowWrites, TypeParts
    <3> QED BY <3>2, <3>3 DEF RowSettled
  <2>3. CASE cr.phase \notin InCluster /\ UNCHANGED cr
    BY <2>3 DEF RowSettled
  <2> QED BY <1>2, <2>1, <2>2, <2>3, WatchEffect
<1>3. ASSUME ~live', row' # NoRow, lost' \intersect {"phase", "delete", "patch"} = {}
      PROVE  RowSettled' \/ \E o \in Op : op'[o].pc = "delete"
  <2>0. "patch" \notin lost' /\ "phase" \notin lost' /\ "delete" \notin lost'
    BY <1>3
  <2>1. CASE Restart BY <1>3, <2>0, <2>1, RestartSettles
  <2>2. CASE row = NoRow
    <3>1. Persist
      BY <1>3, <1>n, <2>0, <2>2
    <3>2. ~live
      BY <1>3, <3>1 DEF Persist
    <3> QED BY <1>3, <1>p, <2>0, <2>2, <3>1, <3>2
  <2>3. CASE row # NoRow /\ live
    <3>1. ~Reap
      BY <2>3 DEF Reap, OrderInv, Started
    <3>2. CASE cancelShared
      <4>1. RowSettled
        BY <1>l, <2>0, <2>3, <3>2 DEF cancelShared, SettleInv
      <4> QED BY <3>2, <4>1 DEF cancelShared, RowSettled
    <3>3. ASSUME NEW o \in Op, CancelStops(o) PROVE op'[o].pc = "delete"
      BY <3>3, OtherOp
    <3> QED BY <1>3, <1>d, <2>1, <2>3, <3>1, <3>2, <3>3
  <2>4. CASE row # NoRow /\ ~live /\ ~Restart
    <3>1. RowSettled \/ \E o \in Op : op[o].pc = "delete"
      BY <1>l, <2>0, <2>4 DEF SettleInv
    <3>2. CASE RowSettled BY <1>3, <2>0, <2>4, <3>2, SettledStays
    <3>3. ASSUME NEW o \in Op, op[o].pc = "delete"
          PROVE  RowSettled' \/ op'[o].pc = "delete"
      <4>1. CASE op'[o] = op[o] BY <3>3, <4>1
      <4>2. CASE CancelDeletes(o)
        <5>1. cr'.phase \notin InCluster
          BY <2>0, <4>2, DeletesOp, DeletedIsGone
        <5> QED BY <5>1 DEF RowSettled
      <4>3. ~(AdminCalls(o) \/ CancelStops(o) \/ CancelMarks(o) \/ RemoveAll(o) \/ DeleteRow(o) \/ Update(o))
        BY <3>3 DEF AdminCalls, CancelStops, CancelMarks, RemoveAll, DeleteRow, Update
      <4> QED BY <2>4, <4>1, <4>2, <4>3, OpSteps, OthersStay
    <3> QED BY <3>1, <3>2, <3>3
  <2> QED BY <2>1, <2>2, <2>3, <2>4
<1> QED BY <1>1, <1>2, <1>3 DEF SettleInv

-----------------------------------------------------------------------------
(* The theorems.                                                           *)

LEMMA InitInv ==
    ASSUME Init
    PROVE  OperatorInv
<1> USE DEF Init
<1>n. NoRow \in Rows \union {NoRow} /\ "none" \in InCluster \union {"none", "gone"} /\ "none" \notin InCluster
  BY DEF InCluster
<1>c. cr = NoCR /\ cr.phase = "none" /\ cr.spec = NoSpec /\ cr.secrets = {}
  BY DEF NoCR
<1>s. ~cr.spec.exporter
  BY <1>c DEF NoSpec
<1>1. CROK /\ RowOK /\ DirOK /\ CreateOK /\ FlagsOK
  BY <1>n DEF CROK, CRs, NoCR, RowOK, DirOK, CreateOK, FlagsOK
<1>2. WatchOK
  BY DEF WatchOK
<1>3. ExportOK /\ export.next = 1 /\ 1 <= Len(Files)
  BY FilesAreFiles, OperatorAssumption DEF ExportOK
<1>4. UpOK /\ OpOK
  BY IdleUpType, DoneOpType DEF UpOK, OpOK
<1>5. TypeOK
  BY <1>1, <1>2, <1>3, <1>4, TypeParts
<1>o. \A o \in Op : op[o] = IdleOp
  OBVIOUS
<1>u. \A h \in Handler : up[h] = IdleUp
  OBVIOUS
<1>w. watch.pc = "off" /\ watch.last = "none" /\ watch.read = "none" /\ export.pc = "none" /\ export.with = "none"
  OBVIOUS
<1>6. OrderInv
  BY <1>o, <1>w, DoneOpType DEF OrderInv
<1>7. RequestInv
  BY <1>o, DoneOpType DEF RequestInv
<1>8. CancelInv
  BY <1>o, DoneOpType DEF CancelInv, CancelSticks
<1>9. SecretInv
  BY <1>c, <1>n DEF SecretInv
<1>10. StrayInv
  BY <1>c, <1>n, <1>o, DoneOpType DEF StrayInv, NoStrayCR
<1>11. WatchInv /\ ClearInv
  BY <1>o, <1>w, DoneOpType DEF WatchInv, ClearInv
<1>12. ExportInv
  BY <1>3, <1>u, <1>w, IdleUpType DEF ExportInv
<1>13. DoneInv
  BY <1>s DEF DoneInv
<1>14. DiskInv
  BY DEF DiskInv, Intact
<1>15. ListInv
  BY <1>u, IdleUpType DEF ListInv
<1>16. TokenInv /\ SettleInv
  BY <1>w DEF TokenInv, SettleInv, Terminal
<1> QED BY <1>5, <1>6, <1>7, <1>8, <1>9, <1>10, <1>11, <1>12, <1>13, <1>14, <1>15, <1>16 DEF OperatorInv

LEMMA StepInv ==
    ASSUME OperatorInv, [Next]_vars
    PROVE  OperatorInv'
<1> USE DEF OperatorInv
<1>1. TypeOK' /\ OrderInv' /\ RequestInv' /\ CancelInv' /\ SecretInv'
  BY StepTypeOK, StepOrder, StepRequest, StepCancel, StepSecret
<1>2. StrayInv' /\ WatchInv' /\ ClearInv' /\ ExportInv' /\ DoneInv'
  BY StepStray, StepWatchInv, StepClear, StepExportInv, StepDone
<1>3. DiskInv' /\ ListInv' /\ TokenInv' /\ SettleInv'
  BY StepDisk, StepList, StepToken, StepSettle
<1> QED BY <1>1, <1>2, <1>3

\* Every state of a build on the operator backend satisfies the inductive invariant,
\* whatever the job, the files, the requests and the faults.
THEOREM OperatorInvariant == Spec => []OperatorInv
<1>1. Init => OperatorInv
  BY InitInv
<1>2. OperatorInv /\ [Next]_vars => OperatorInv'
  BY StepInv
<1> QED BY <1>1, <1>2, PTL DEF Spec

\* The state of the build, of its goroutines and requests keeps its types.
THEOREM OperatorTypeCorrect == Spec => []TypeOK
<1>1. OperatorInv => TypeOK
  BY DEF OperatorInv
<1> QED BY <1>1, OperatorInvariant, PTL

\* A CR in the cluster has the Secrets it reads and, once Create has ended, a row from
\* which it can be found; only a refused delete, a create whose answer is lost, a restart
\* or a ClearFailed that removes a row it did not list can leave one behind (Build,
\* Create, Delete, ClearFailed).
THEOREM NoCRIsLost == Spec => []CRIsAccountedFor
<1>1. OperatorInv => CRIsAccountedFor
  BY SecretsFollow DEF OperatorInv, StrayInv, CRIsAccountedFor
<1> QED BY <1>1, OperatorInvariant, PTL

\* A cancel that was recorded in the row is not overwritten by the watcher or by an
\* upload: Cancel stops the goroutines before it marks, and they write single columns
\* under a live context.
THEOREM CancelsStick == Spec => []CancelSticks
<1>1. OperatorInv => CancelSticks
  BY DEF OperatorInv, CancelInv
<1> QED BY <1>1, OperatorInvariant, PTL

\* A build shown as Ready has every file on the disk, and lists them unless one of the
\* named faults was met: however many uploads run at once, are repeated, or outlive the
\* exporter's interest in them.
THEOREM ReadyBuildsAreComplete == Spec => []ReadyIsComplete
<1>1. OperatorInv => ReadyIsComplete
  <2> SUFFICES ASSUME OperatorInv,
                      row # NoRow, row.phase = "Ready", cr.spec.exporter,
                      \A o \in Op : op[o].pc # "row",
                      lost \intersect {"patch", "row", "restart"} = {}
               PROVE  /\ onDisk = Range(Files)
                      /\ lost \intersect {"list", "abandoned"} = {} => row.files = Range(Files)
    BY DEF ReadyIsComplete
  <2>1. export.pc = "done"
    BY DEF OperatorInv, DoneInv
  <2>2. export.next - 1 = Len(Files)
    BY <2>1, FilesAreFiles DEF OperatorInv, ExportInv
  <2>3. Intact
    BY DEF Intact
  <2>4. \A i \in 1 .. Len(Files) : Files[i] \in onDisk
    BY <2>2, <2>3 DEF OperatorInv, DiskInv
  <2>r. ASSUME NEW S, S \subseteq Range(Files), \A i \in 1 .. Len(Files) : Files[i] \in S
        PROVE  S = Range(Files)
    <3>1. \A f \in Range(Files) : f \in S
      BY <2>r, FilesAreFiles
    <3> QED BY <2>r, <3>1
  <2>5. onDisk = Range(Files)
    <3>1. onDisk \subseteq Range(Files)
      BY TypeParts DEF OperatorInv, DirOK
    <3> QED BY <2>4, <2>r, <3>1
  <2>6. ASSUME lost \intersect {"list", "abandoned"} = {} PROVE row.files = Range(Files)
    <3>1. Listing
      BY <2>6 DEF Listing
    <3>2. \A i \in 1 .. Len(Files) : Files[i] \in row.files
      BY <2>2, <3>1 DEF OperatorInv, ListInv
    <3>3. row.files \subseteq Range(Files)
      BY TypeParts DEF OperatorInv, RowOK, Rows
    <3> QED BY <2>r, <3>2, <3>3
  <2> QED BY <2>5, <2>6
<1> QED BY <1>1, OperatorInvariant, PTL

\* The row of a build that has ended in the cluster shows an end once nobody is left to
\* change it, and its upload token is dead, but for the writes that are known to have
\* failed (watchCRPhase, Cancel, ReconcileOrphanedArtifacts).
THEOREM BuildsComeToRest == Spec => []BuildComesToRest
<1>1. OperatorInv => BuildSettles
  <2> SUFFICES ASSUME OperatorInv, cr.phase \in Terminal, row # NoRow, watch.pc = "off",
                      \A o \in Op : op[o].pc \in {"idle", "done"},
                      lost \intersect {"phase", "delete", "patch"} = {}
               PROVE  row.phase \in Terminal
    BY DEF BuildSettles
  <2>1. ~live
    BY DEF OperatorInv, OrderInv
  <2>2. RowSettled
    BY <2>1 DEF OperatorInv, SettleInv
  <2> QED BY <2>2 DEF RowSettled, Terminal, InCluster
<1>2. OperatorInv => TokenDies
  BY DEF OperatorInv, TokenInv, TokenDies
<1>3. OperatorInv => BuildComesToRest
  BY <1>1, <1>2 DEF BuildComesToRest
<1> QED BY <1>3, OperatorInvariant, PTL

=============================================================================
