--------------------------- MODULE OperatorBuild ---------------------------
(***************************************************************************)
(* A build on the operator backend: the fleet server submits an OSArtifact *)
(* and its Secrets to a Kubernetes cluster, follows it with a phase        *)
(* watcher and a log streamer, and takes the finished files back through   *)
(* an upload endpoint (internal/builder/operator, pkg/handlers/artifacts). *)
(*                                                                         *)
(* One build: builds have their own CR, row, directory and goroutines.     *)
(* The cluster's operator, the exporter Job and garbage collection are     *)
(* external.  Calls to the cluster, the store and the disk may fail.       *)
(***************************************************************************)
EXTENDS Integers, FiniteSets, SequencesExt

CONSTANTS
    Jobs,           \* the build options explored: records, see Asked
    Files,          \* what a build makes, in the order it is uploaded
    Handler,        \* concurrent requests to the upload endpoint
    Op,             \* the admin's requests, possibly at the same time
    NoRow,
    MaxRetries,     \* retries of the exporter's uploads
    MaxFaults       \* how many kinds of faults a behaviour may have

Phases == {"Pending", "Building", "Ready", "Error"}
Terminal == {"Ready", "Error"}
InCluster == {"Pending", "Building", "Exporting", "Ready", "Error"}
Rows == [phase : Phases, token : BOOLEAN, files : SUBSET Range(Files)]

\* A build makes at least one file.
ASSUME OperatorAssumption ==
    /\ Files \in Seq(STRING) /\ Files # <<>>
    /\ NoRow \notin Rows
    /\ MaxRetries \in Nat /\ MaxFaults \in Nat

VARIABLES
    job,        \* the options of the build
    cr,         \* the OSArtifact and its Secrets
    row,        \* the row of the build in the store
    there,      \* the build's directory is there
    onDisk,     \* the files in it
    create,     \* where the request that starts the build is
    live,       \* the context of the goroutines
    active,     \* its entry in b.active
    watch,      \* watchCRPhase
    streaming,  \* streamPodLogs
    busy,       \* one of its pods' goroutines
    export,     \* the exporter Job
    up,         \* the upload requests
    op,         \* the admin's requests
    lost,       \* history: the faults met and the writes that came to nothing
    cancelled   \* history: a cancel has been recorded in the row

dir == <<there, onDisk>>
ctx == <<live, active>>
stream == <<streaming, busy>>
vars == <<job, cr, row, dir, create, ctx, watch, stream, export, up, op, lost, cancelled>>

(***************************************************************************)
(* Options and the CR's specification.                                     *)
(***************************************************************************)
\* Consumed as it is: nothing asks for work at build time.
preBuilt(o) == o.base /\ ~o.dockerfile /\ ~o.version /\ ~o.init

isHadronBuild(o) == o.hadron /\ o.dockerfile

Refused(o) == \/ o.arch \notin {"none", "amd64", "arm64"}
              \/ preBuilt(o) /\ o.flags # {}

\* What the operator is told: who provides the image, the kairos-init flags,
\* the outputs and the Secrets it has to read.
translateBuildOptions(o) ==
    [image |-> CASE preBuilt(o)      -> "ref"
                 [] isHadronBuild(o) -> "wrapped dockerfile"
                 [] o.dockerfile     -> "dockerfile"
                 [] OTHER            -> "kairos-init",
     flags |-> IF o.dockerfile /\ ~isHadronBuild(o) THEN {} ELSE o.flags,
     outputs |-> (o.outputs \ {"raw", "tar", "maas"}) \union
                 (IF "raw" \in o.outputs THEN {"cloud"} ELSE {}),
     reads |-> (IF o.cc THEN {"cloud-config"} ELSE {}) \union
               (IF o.dockerfile THEN {"dockerfile"} ELSE {}),
     exporter |-> o.url]

materializeSecrets(o) ==
    (IF o.cc THEN {"cloud-config"} ELSE {}) \union
    (IF o.dockerfile THEN {"dockerfile"} ELSE {}) \union
    (IF o.url THEN {"upload"} ELSE {})

(***************************************************************************)
(* State.                                                                  *)
(***************************************************************************)
Secrets == {"cloud-config", "dockerfile", "upload"}

NoSpec == [image |-> "none", flags |-> {}, outputs |-> {}, reads |-> {}, exporter |-> FALSE]
NoCR == [phase |-> "none", spec |-> NoSpec, secrets |-> {}]
IdleOp == [pc |-> "idle", kind |-> "none", snap |-> NoRow]
DoneOp == [IdleOp EXCEPT !.pc = "done"]
IdleUp == [pc |-> "idle", file |-> "none", snap |-> NoRow, mine |-> FALSE]
FailedUp == [IdleUp EXCEPT !.pc = "error"]

Uploads == [pc : {"idle", "dir", "copy", "list", "201", "error"}, file : Range(Files) \union {"none"},
            snap : Rows \union {NoRow}, mine : BOOLEAN]
Requests == [pc : {"idle", "done", "stop", "delete", "mark", "files", "row", "save"},
             kind : {"none", "cancel", "delete", "clear", "sweep", "patch"},
             snap : Rows \union {NoRow}]

TypeOK ==
    /\ job \in Jobs
    /\ cr \in [phase : InCluster \union {"none", "gone"},
               spec : {NoSpec, translateBuildOptions(job)}, secrets : SUBSET Secrets]
    /\ cr.phase \notin InCluster => cr.secrets = {}
    /\ row \in Rows \union {NoRow}
    /\ there \in BOOLEAN /\ onDisk \subseteq Range(Files) /\ (onDisk # {} => there)
    /\ create \in {"idle", "secrets", "launch", "row", "reap", "ok", "refused", "failed"}
    /\ live \in BOOLEAN /\ active \in BOOLEAN
    /\ watch \in [pc : {"off", "poll", "write", "clear", "cancel"},
                  read : Phases \union {"none"}, last : Phases \union {"none"}]
    /\ streaming \in BOOLEAN /\ busy \in BOOLEAN /\ (busy => streaming)
    /\ export \in [pc : {"none", "send", "wait", "done", "failed"}, next : 1 .. Len(Files) + 1,
                   retries : 0 .. MaxRetries, with : Handler \union {"none"}]
    /\ up \in [Handler -> Uploads]
    /\ op \in [Op -> Requests]
    /\ cancelled \in BOOLEAN

Init ==
    /\ job \in Jobs
    /\ cr = NoCR
    /\ row = NoRow
    /\ there = FALSE /\ onDisk = {}
    /\ create = "idle"
    /\ live = FALSE /\ active = FALSE
    /\ watch = [pc |-> "off", read |-> "none", last |-> "none"]
    /\ streaming = FALSE /\ busy = FALSE
    /\ export = [pc |-> "none", next |-> 1, retries |-> 0, with |-> "none"]
    /\ up = [h \in Handler |-> IdleUp]
    /\ op = [o \in Op |-> IdleOp]
    /\ lost = {}
    /\ cancelled = FALSE

Lose(what) == lost' = lost \union {what}

\* Something outside the program goes wrong.
Fault(what) == Cardinality(lost \union {what}) <= MaxFaults /\ Lose(what)

Deleted == [cr EXCEPT !.phase = "gone", !.secrets = {}]

\* Slip: a Secret without owner.
Unowned(secrets) == [cr EXCEPT !.secrets = secrets]

\* A Secret whose owner is gone is collected.
Owned(secrets) == IF cr.phase \in InCluster THEN [cr EXCEPT !.secrets = secrets] ELSE cr

(***************************************************************************)
(* Starting the build: Create of the API and Build of the backend.         *)
(***************************************************************************)
\* A create that fails may have made the CR all the same: its answer is lost.
CreateCR ==
    LET made == [phase |-> "Pending", spec |-> translateBuildOptions(job), secrets |-> {}]
    IN  /\ create = "idle"
        /\ IF Refused(job)
           THEN create' = "refused" /\ cr' = cr /\ lost' = lost
           ELSE \/ cr' = made /\ create' = "secrets" /\ lost' = lost
                \/ cr' = cr /\ create' = "failed" /\ lost' = lost
                \/ cr' = made /\ create' = "failed" /\ Fault("answer")
        /\ UNCHANGED <<job, row, dir, ctx, watch, stream, export, up, op, cancelled>>

\* One Secret after the other, each owned by the CR; a failure deletes the CR
\* and with it the Secrets that had been made.
createSecrets ==
    /\ create = "secrets"
    /\ \/ cr' = Owned(materializeSecrets(job)) /\ create' = "launch" /\ lost' = lost
       \/ /\ materializeSecrets(job) # {}
          /\ cr' = Deleted /\ create' = "failed" /\ lost' = lost
       \/ /\ materializeSecrets(job) # {}
          /\ \E made \in SUBSET materializeSecrets(job) : cr' = Owned(made)
          /\ create' = "failed" /\ Fault("reap")
    /\ UNCHANGED <<job, row, dir, ctx, watch, stream, export, up, op, cancelled>>

Launch ==
    /\ create = "launch"
    /\ create' = "row"
    /\ live' = TRUE /\ active' = TRUE
    /\ watch' = [watch EXCEPT !.pc = "poll"]
    /\ streaming' = TRUE
    /\ UNCHANGED <<job, cr, row, dir, busy, export, up, op, lost, cancelled>>

\* Slip: a row that could not be written only fails the request.
PersistOrFail ==
    /\ create = "row"
    /\ \/ /\ row' = [phase |-> "Pending", token |-> TRUE, files |-> {}]
          /\ create' = "ok"
       \/ row' = row /\ create' = "failed"
    /\ UNCHANGED <<job, cr, dir, ctx, watch, stream, export, up, op, lost, cancelled>>

\* The row is written after the watcher has been started, with the phase Build
\* returned.  Without a row the build is cancelled again.
Persist ==
    /\ create = "row"
    /\ \/ /\ row' = [phase |-> "Pending", token |-> TRUE, files |-> {}]
          /\ create' = "ok"
       \/ row' = row /\ create' = "reap"
    /\ UNCHANGED <<job, cr, dir, ctx, watch, stream, export, up, op, lost, cancelled>>

StopGoroutines == live' = (live /\ ~active) /\ active' = FALSE

Reap ==
    /\ create = "reap"
    /\ create' = "failed"
    /\ StopGoroutines
    /\ \/ cr' = Deleted /\ lost' = lost
       \/ cr' = cr /\ Fault("reap")
    /\ UNCHANGED <<job, row, dir, watch, stream, export, up, op, cancelled>>

(***************************************************************************)
(* watchCRPhase.                                                           *)
(***************************************************************************)
statusFromArtifact(phase) == IF phase = "Exporting" THEN "Building" ELSE phase

WatchEnds == watch' = [watch EXCEPT !.pc = "off"]

\* Slip: a CR that has disappeared is waited for.
WatchReadsExisting ==
    /\ watch.pc = "poll" /\ live /\ cr.phase \in InCluster
    /\ watch' = [watch EXCEPT !.read = statusFromArtifact(cr.phase),
                  !.pc = IF statusFromArtifact(cr.phase) # watch.last THEN "write" ELSE "poll"]
    /\ UNCHANGED <<job, cr, row, dir, create, ctx, stream, export, up, op, lost, cancelled>>

\* A phase that is neither new nor final is waited out; one that is not new is
\* written again when the CR's message has changed.  A read that fails is
\* repeated: it changes nothing and is left out.
WatchReads ==
    /\ watch.pc = "poll" /\ live
    /\ IF cr.phase \in InCluster
       THEN LET now == statusFromArtifact(cr.phase)
            IN  \/ watch' = [watch EXCEPT !.read = now, !.pc = "write"]
                \/ /\ now = watch.last
                   /\ watch' = [watch EXCEPT !.pc = IF now \in Terminal THEN "clear" ELSE "poll"]
       ELSE watch' = [watch EXCEPT !.pc = "cancel"]
    /\ UNCHANGED <<job, cr, row, dir, create, ctx, stream, export, up, op, lost, cancelled>>

WatchStops ==
    /\ watch.pc = "poll" /\ ~live
    /\ WatchEnds
    /\ UNCHANGED <<job, cr, row, dir, create, ctx, stream, export, up, op, lost, cancelled>>

Writable == live /\ row # NoRow

\* Only phase and message are written, and only under a live context.  A write
\* that fails or finds no row is remembered as done.
WatchWrites ==
    /\ watch.pc = "write"
    /\ watch' = [watch EXCEPT !.last = watch.read, !.read = "none",
                  !.pc = IF watch.read \in Terminal THEN "clear" ELSE "poll"]
    /\ \/ Writable /\ row' = [row EXCEPT !.phase = watch.read] /\ lost' = lost
       \/ Writable /\ row' = row /\ Fault("phase")
       \/ ~Writable /\ row' = row /\ Lose("phase")
    /\ UNCHANGED <<job, cr, dir, create, ctx, stream, export, up, op, cancelled>>

ClearUploadToken ==
    /\ watch.pc = "clear"
    /\ watch' = [watch EXCEPT !.pc = "cancel"]
    /\ \/ Writable /\ row' = [row EXCEPT !.token = FALSE] /\ lost' = lost
       \/ Writable /\ row' = row /\ Fault("token")
       \/ ~Writable /\ row' = row /\ Lose("token")
    /\ UNCHANGED <<job, cr, dir, create, ctx, stream, export, up, op, cancelled>>

\* The entry of b.active is left for the streamer to remove.
cancelShared ==
    /\ watch.pc = "cancel"
    /\ WatchEnds
    /\ live' = (live /\ ~active)
    /\ UNCHANGED <<job, cr, row, dir, create, active, stream, export, up, op, lost, cancelled>>

watchCRPhase == WatchReads \/ WatchStops \/ WatchWrites \/ ClearUploadToken \/ cancelShared

(***************************************************************************)
(* streamPodLogs: while the context lives, every pod of the build that     *)
(* turns up, the builder's and later the exporter's, is streamed by a      *)
(* goroutine of its own.  busy says that one of them runs.                 *)
(***************************************************************************)
streamAllArtifactPods ==
    /\ streaming /\ live /\ ~busy
    /\ cr.phase \in {"Building", "Exporting", "Ready"}
    /\ busy' = TRUE
    /\ UNCHANGED <<job, cr, row, dir, create, ctx, watch, streaming, export, up, op, lost, cancelled>>

\* The pods' containers end, their logs fail, or the context ends.
streamAll ==
    /\ busy
    /\ busy' = FALSE
    /\ UNCHANGED <<job, cr, row, dir, create, ctx, watch, streaming, export, up, op, lost, cancelled>>

\* The streamer ends behind its pods and takes the entry of b.active with it.
StreamEnds ==
    /\ streaming /\ ~live /\ ~busy
    /\ streaming' = FALSE
    /\ active' = FALSE
    /\ UNCHANGED <<job, cr, row, dir, create, live, watch, busy, export, up, op, lost, cancelled>>

streamPodLogs == streamAllArtifactPods \/ streamAll \/ StreamEnds

(***************************************************************************)
(* External: the operator, which wants the Secrets the CR names; garbage   *)
(* collection and whoever else has access to the cluster.                  *)
(***************************************************************************)
OperatorStep ==
    /\ \/ cr.phase = "Pending" /\ cr.spec.reads \subseteq cr.secrets
          /\ cr' = [cr EXCEPT !.phase = "Building"] /\ export' = export
       \/ cr.phase \in {"Pending", "Building"}
          /\ cr' = [cr EXCEPT !.phase = "Error"] /\ export' = export
       \/ cr.phase = "Building" /\ ~cr.spec.exporter
          /\ cr' = [cr EXCEPT !.phase = "Ready"] /\ export' = export
       \/ cr.phase = "Building" /\ cr.spec.exporter /\ "upload" \in cr.secrets
          /\ cr' = [cr EXCEPT !.phase = "Exporting"]
          /\ export' = [export EXCEPT !.pc = "send"]
       \/ cr.phase = "Exporting" /\ export.pc \in {"done", "failed"}
          /\ cr' = [cr EXCEPT !.phase = IF export.pc = "done" THEN "Ready" ELSE "Error"]
          /\ export' = export
    /\ UNCHANGED <<job, row, dir, create, ctx, watch, stream, up, op, lost, cancelled>>

KubectlDelete ==
    /\ cr.phase \in InCluster
    /\ cr' = Deleted
    /\ Fault("kubectl")
    /\ UNCHANGED <<job, row, dir, create, ctx, watch, stream, export, up, op, cancelled>>

(***************************************************************************)
(* The exporter sends one file after the other to the upload endpoint.     *)
(* curl repeats a request, the Job starts over with the first file.        *)
(***************************************************************************)
\* Upload, up to its checks: the token, and a build that is still running.
UploadChecks(h) ==
    /\ export.pc = "send" /\ cr.phase = "Exporting"
    /\ up[h].pc = "idle"
    /\ h = CHOOSE free \in Handler : up[free].pc = "idle"
    /\ export' = [export EXCEPT !.pc = "wait", !.with = h]
    /\ up' = [up EXCEPT ![h] =
                IF row = NoRow \/ ~row.token \/ row.phase \in Terminal
                THEN FailedUp
                ELSE [IdleUp EXCEPT !.pc = "dir", !.file = Files[export.next], !.snap = row]]
    /\ UNCHANGED <<job, cr, row, dir, create, ctx, watch, stream, op, lost, cancelled>>

\* The directory and the temporary file.
UploadOpens(h) ==
    /\ up[h].pc = "dir"
    /\ \/ /\ there' = TRUE
          /\ up' = [up EXCEPT ![h] = [up[h] EXCEPT !.pc = "copy", !.mine = TRUE]]
       \/ there' = there /\ up' = [up EXCEPT ![h] = FailedUp]
    /\ UNCHANGED <<job, cr, row, onDisk, create, ctx, watch, stream, export, op, lost, cancelled>>

\* The body is complete and renamed: only if nobody has removed the directory
\* and the temporary file with it.
UploadRenames(h) ==
    /\ up[h].pc = "copy"
    /\ \/ /\ up[h].mine
          /\ onDisk' = onDisk \union {up[h].file}
          /\ up' = [up EXCEPT ![h] = [up[h] EXCEPT !.pc = "list"]]
       \/ onDisk' = onDisk /\ up' = [up EXCEPT ![h] = FailedUp]
    /\ UNCHANGED <<job, cr, row, there, create, ctx, watch, stream, export, op, lost, cancelled>>

\* Slip: the record is saved whole.
SaveRecord(rec, f) == [rec EXCEPT !.files = @ \union {f}]

\* Slip: the list is what this request has added.
ListOnly(rec, f) == [row EXCEPT !.files = {f}]

\* appendArtifactFile on the record read at the start; UpdateFiles writes that
\* one column.
UpdateFiles(rec, f) == [row EXCEPT !.files = rec.files \union {f}]

UploadLists(h) ==
    /\ up[h].pc = "list"
    /\ up' = [up EXCEPT ![h] = [up[h] EXCEPT !.pc = "201", !.snap = NoRow, !.mine = FALSE]]
    /\ \/ /\ row' = IF row = NoRow THEN NoRow ELSE UpdateFiles(up[h].snap, up[h].file)
          /\ lost' = lost
       \/ row' = row /\ Fault("list")
    /\ UNCHANGED <<job, cr, dir, create, ctx, watch, stream, export, op, cancelled>>

Upload(h) == UploadOpens(h) \/ UploadRenames(h) \/ UploadLists(h)

ExporterHears(h) ==
    /\ export.pc = "wait" /\ export.with = h
    /\ up[h].pc = "201"
    /\ export' = [export EXCEPT !.next = @ + 1, !.with = "none",
                   !.pc = IF export.next = Len(Files) THEN "done" ELSE "send"]
    /\ up' = [up EXCEPT ![h] = IdleUp]
    /\ UNCHANGED <<job, cr, row, dir, create, ctx, watch, stream, op, lost, cancelled>>

\* An error, a server that has gone away, or an answer that does not arrive
\* while the request goes on.
ExporterFails(h) ==
    /\ export.pc = "wait" /\ export.with = h
    /\ \/ up[h].pc \in {"idle", "error"} /\ up' = [up EXCEPT ![h] = IdleUp] /\ lost' = lost
       \/ up[h].pc \notin {"idle", "error"} /\ up' = up /\ Fault("abandoned")
    /\ IF export.retries < MaxRetries
       THEN \E next \in {export.next, 1} :
              export' = [pc |-> "send", next |-> next, retries |-> export.retries + 1,
                         with |-> "none"]
       ELSE export' = [export EXCEPT !.pc = "failed", !.with = "none"]
    /\ UNCHANGED <<job, cr, row, dir, create, ctx, watch, stream, op, cancelled>>

AbandonedEnds(h) ==
    /\ up[h].pc \in {"201", "error"} /\ export.with # h
    /\ up' = [up EXCEPT ![h] = IdleUp]
    /\ UNCHANGED <<job, cr, row, dir, create, ctx, watch, stream, export, op, lost, cancelled>>

(***************************************************************************)
(* The admin: cancel, delete, clear the failed builds, change the name.    *)
(* "sweep" is a ClearFailed that did not list this build as failed.        *)
(***************************************************************************)
AdminCalls(o) ==
    /\ op[o].pc = "idle" /\ row # NoRow
    /\ \E kind \in {"cancel", "delete", "clear", "sweep", "patch"} :
        /\ kind = "clear" => row.phase = "Error"
        /\ kind = "sweep" => row.phase # "Error"
        /\ op' = [op EXCEPT ![o] =
                    [pc |-> CASE kind = "patch" -> "save" [] kind = "sweep" -> "row" [] OTHER -> "stop",
                     kind |-> kind, snap |-> IF kind = "patch" THEN row ELSE NoRow]]
    /\ UNCHANGED <<job, cr, row, dir, create, ctx, watch, stream, export, up, lost, cancelled>>

AfterCancel(o) == op' = [op EXCEPT ![o] = IF op[o].kind = "cancel" THEN DoneOp
                                          ELSE [op[o] EXCEPT !.pc = "files"]]

CancelStops(o) ==
    /\ op[o].pc = "stop"
    /\ op' = [op EXCEPT ![o] = [op[o] EXCEPT !.pc = "delete"]]
    /\ StopGoroutines
    /\ UNCHANGED <<job, cr, row, dir, create, watch, stream, export, up, lost, cancelled>>

\* A CR that is not there ends the cancel without a word in the row.
CancelDeletes(o) ==
    /\ op[o].pc = "delete"
    /\ \/ /\ cr.phase \in InCluster
          /\ cr' = Deleted /\ op' = [op EXCEPT ![o] = [op[o] EXCEPT !.pc = "mark"]] /\ lost' = lost
       \/ cr.phase \notin InCluster /\ cr' = cr /\ AfterCancel(o) /\ Lose("notfound")
       \/ cr' = cr /\ AfterCancel(o) /\ Fault("delete")
    /\ UNCHANGED <<job, row, dir, create, ctx, watch, stream, export, up, cancelled>>

CancelMarks(o) ==
    /\ op[o].pc = "mark"
    /\ AfterCancel(o)
    /\ \/ /\ row' = IF row = NoRow THEN NoRow ELSE [row EXCEPT !.phase = "Error"]
          /\ cancelled' = (cancelled \/ row # NoRow)
          /\ lost' = lost
       \/ row' = row /\ cancelled' = cancelled /\ Fault("mark")
    /\ UNCHANGED <<job, cr, dir, create, ctx, watch, stream, export, up>>

Cancel(o) == CancelStops(o) \/ CancelDeletes(o) \/ CancelMarks(o)

RemoveAll(o) ==
    /\ op[o].pc = "files"
    /\ op' = [op EXCEPT ![o] = [op[o] EXCEPT !.pc = "row"]]
    /\ there' = FALSE /\ onDisk' = {}
    /\ up' = [h \in Handler |-> [up[h] EXCEPT !.mine = FALSE]]
    /\ UNCHANGED <<job, cr, row, create, ctx, watch, stream, export, lost, cancelled>>

\* Delete removes its row, ClearFailed every row that is failed by then.
DeleteRow(o) ==
    /\ op[o].pc = "row"
    /\ op' = [op EXCEPT ![o] = DoneOp]
    /\ LET hit == row # NoRow /\ (op[o].kind = "delete" \/ row.phase = "Error")
       IN  \/ /\ row' = IF hit THEN NoRow ELSE row
              /\ IF hit /\ op[o].kind = "sweep" THEN Lose("swept") ELSE lost' = lost
           \/ row' = row /\ Fault("row")
    /\ UNCHANGED <<job, cr, dir, create, ctx, watch, stream, export, up, cancelled>>

\* Save writes every column of the record read before, and inserts it when the
\* row has gone.
Update(o) ==
    /\ op[o].pc = "save"
    /\ op' = [op EXCEPT ![o] = DoneOp]
    /\ \/ /\ row' = op[o].snap
          /\ IF row # op[o].snap THEN Lose("patch") ELSE lost' = lost
       \/ row' = row /\ lost' = lost
    /\ UNCHANGED <<job, cr, dir, create, ctx, watch, stream, export, up, cancelled>>

AdminStep(o) == Cancel(o) \/ RemoveAll(o) \/ DeleteRow(o) \/ Update(o)

(***************************************************************************)
(* The server restarts: its goroutines and requests are gone, the cluster  *)
(* goes on, and rows of unfinished builds become failed.                   *)
(***************************************************************************)
\* Slip: only running builds are reconciled.
ReconcileRunning(r) == IF r # NoRow /\ r.phase = "Building" THEN [r EXCEPT !.phase = "Error"] ELSE r

ReconcileOrphanedArtifacts(r) ==
    IF r # NoRow /\ r.phase \in {"Pending", "Building"} THEN [r EXCEPT !.phase = "Error"] ELSE r

Restart ==
    /\ create # "idle" /\ "restart" \notin lost
    /\ create' = IF create \in {"ok", "refused"} THEN create ELSE "failed"
    /\ live' = FALSE /\ active' = FALSE
    /\ watch' = [pc |-> "off", read |-> "none", last |-> "none"]
    /\ streaming' = FALSE /\ busy' = FALSE
    /\ up' = [h \in Handler |-> IdleUp]
    /\ op' = [o \in Op |-> IF op[o].pc = "idle" THEN IdleOp ELSE DoneOp]
    /\ Cardinality(lost \union {"restart"}) <= MaxFaults
    /\ \/ row' = ReconcileOrphanedArtifacts(row) /\ lost' = lost \union {"restart"}
       \/ row # NoRow /\ row' = row /\ lost' = lost \union {"restart", "phase"}
    /\ UNCHANGED <<job, cr, dir, export, cancelled>>

Create == CreateCR \/ createSecrets \/ Launch \/ Persist \/ Reap

Next ==
    \/ Create \/ watchCRPhase \/ streamPodLogs
    \/ \E h \in Handler : UploadChecks(h) \/ Upload(h) \/ AbandonedEnds(h) \/ ExporterHears(h) \/ ExporterFails(h)
    \/ \E o \in Op : AdminCalls(o) \/ AdminStep(o)
    \/ OperatorStep \/ KubectlDelete \/ Restart

\* The goroutines of a running server and the request that starts the build go
\* on; a pod's log ends once its context has.  Nothing is assumed of the cluster,
\* of uploads or of the admin.
Fairness ==
    /\ WF_vars(Create)
    /\ WF_vars(watchCRPhase)
    /\ WF_vars(StreamEnds)
    /\ WF_vars(~live /\ streamAll)

Spec == Init /\ [][Next]_vars /\ Fairness

(***************************************************************************)
(* Properties.                                                             *)
(***************************************************************************)
\* Once Build has returned, the CR in the cluster has exactly the Secrets that
\* its specification and its exporter read: translateBuildOptions and
\* materializeSecrets decide independently which inputs go into a Secret.
SecretsMatchSpec ==
    create \in {"row", "reap", "ok"} /\ cr.phase \in InCluster =>
        cr.secrets = cr.spec.reads \union (IF cr.spec.exporter THEN {"upload"} ELSE {})

\* A CR in the cluster has a row from which it can be listed, cancelled and
\* deleted, once the request that made it has ended: Create reaps a CR whose
\* Secrets or row could not be written, Delete and ClearFailed cancel before
\* they remove the row.  A cluster that refuses the delete or whose answer to the
\* create is lost, a restart, and a ClearFailed that removes a row it did not list
\* are what can break this.
NoStrayCR ==
    /\ cr.phase \in InCluster /\ row = NoRow
    /\ create \in {"ok", "failed"}
    => lost \intersect {"answer", "reap", "delete", "restart", "swept"} # {}

\* A cancel that was recorded stays: no watcher writes the phase it had read
\* before, no upload brings its copy of the record back.  Only the PATCH, which
\* saves the whole record, can.
CancelSticks ==
    cancelled /\ row # NoRow /\ "patch" \notin lost => row.phase = "Error"

\* A build shown as Ready has all its files on the server's disk, and lists
\* them unless a request was cut off, a list could not be written or a PATCH
\* wrote an older one: every file is renamed into place before the exporter is
\* answered, and the watcher writes Ready only behind the exporter.
ReadyIsComplete ==
    /\ row # NoRow /\ row.phase = "Ready" /\ cr.spec.exporter
    /\ \A o \in Op : op[o].pc # "row"
    /\ lost \intersect {"patch", "row", "restart"} = {}
    => /\ onDisk = Range(Files)
       /\ lost \intersect {"list", "abandoned"} = {} => row.files = Range(Files)

\* A watcher that has seen the end of its build leaves no live upload token
\* behind, if the row was there and its writes went through.
TokenDies ==
    /\ watch.pc = "off" /\ watch.last \in Terminal /\ row # NoRow
    /\ lost \intersect {"token", "patch"} = {}
    => ~row.token

\* When the CR has reached its end or is gone, both goroutines end and the
\* entry of b.active is removed: nothing polls the cluster forever.
GoroutinesEnd ==
    (cr.phase \in Terminal \union {"gone"}) ~>
        (watch.pc = "off" /\ ~streaming /\ ~active)

\* The row of a build that has ended in the cluster does not stay Pending or
\* Building once nobody is left to change it: the watcher has ended, as has the
\* request that started the build and every request of the admin.  Writes that
\* fail or come before the row, a cancel whose delete failed (it has stopped
\* the watcher all the same) and a PATCH can break this.
BuildSettles ==
    /\ cr.phase \in Terminal /\ row # NoRow
    /\ watch.pc = "off" /\ create \in {"ok", "failed"}
    /\ \A o \in Op : op[o].pc \in {"idle", "done"}
    => \/ row.phase \in Terminal
       \/ lost \intersect {"phase", "delete", "patch"} # {}

\* What Build and the requests after it leave in the cluster is accounted for: a CR
\* has the Secrets it reads, and a row from which it can be found.
CRIsAccountedFor == SecretsMatchSpec /\ NoStrayCR

\* A build that has ended comes to rest on the server: its row shows an end and its
\* upload token is dead.
BuildComesToRest == BuildSettles /\ TokenDies

(***************************************************************************)
(* Why these hold, as an inductive invariant.                              *)
(***************************************************************************)
\* The row, the admin's requests and the goroutines come in this order; nobody polls
\* without a context.
Started == create \in {"ok", "failed"}
OrderInv ==
    /\ live => active
    /\ watch.pc = "off" => ~live
    /\ create \in {"idle", "secrets", "launch"} => watch.pc = "off" /\ watch.last = "none"
    /\ row # NoRow => Started
    /\ \A o \in Op : op[o].pc # "idle" => Started
    /\ cancelled => Started

\* What a request of the admin is doing at each of its steps.
RequestInv ==
    \A o \in Op :
        /\ op[o].pc = "idle" => op[o].kind = "none"
        /\ op[o].pc \in {"stop", "delete", "mark"} => op[o].kind \in {"cancel", "delete", "clear"}
        /\ op[o].pc = "files" => op[o].kind \in {"delete", "clear"}
        /\ op[o].pc = "row" => op[o].kind \in {"delete", "clear", "sweep"}
        /\ op[o].pc = "save" => op[o].snap # NoRow

\* A cancel stops the watcher before it marks the row, so nobody writes behind it.
CancelInv ==
    /\ \A o \in Op : op[o].pc \in {"delete", "mark"} => ~live
    /\ cancelled => ~live
    /\ CancelSticks

\* The CR carries what the job asked for from the moment it is made.
SecretInv ==
    /\ create = "idle" => cr = NoCR
    /\ cr.phase = "none" => create \in {"idle", "refused", "failed"}
    /\ cr.phase \in InCluster => cr.spec = translateBuildOptions(job)
    /\ create \in {"launch", "row", "reap", "ok"} /\ cr.phase \in InCluster
          => cr.secrets = materializeSecrets(job)

\* A request that removes the row has first deleted the CR, or failed to.
StrayInv ==
    /\ \A o \in Op : op[o].pc \in {"mark", "files", "row"} /\ op[o].kind # "sweep"
                        => cr.phase \notin InCluster \/ "delete" \in lost
    /\ NoStrayCR

\* What the watcher has read is what the CR still says, if it was an end.  A failed row
\* is not written again, so ClearFailed still finds it failed when it deletes it.
WatchInv ==
    /\ watch.pc \in {"poll", "write"} => watch.last \notin Terminal
    /\ watch.pc = "write" => watch.read \in Phases
    /\ watch.pc = "write" /\ watch.read \in Terminal => cr.phase \in {watch.read, "gone"}
    /\ row # NoRow /\ row.phase = "Error" /\ "patch" \notin lost /\ live
          => /\ cr.phase \in {"Error", "gone"}
             /\ watch.pc = "write" => watch.read = "Error"
ClearInv ==
    \A o \in Op : op[o].kind = "clear" /\ "patch" \notin lost
                     => row = NoRow \/ row.phase = "Error"

\* The exporter has sent the files before the one it is at; the CR is Ready behind it.
ExportInv ==
    /\ export.pc \in {"none", "send", "wait"} => export.next <= Len(Files)
    /\ export.pc = "done" => export.next = Len(Files) + 1
    /\ IF export.pc = "wait" THEN export.with \in Handler ELSE export.with = "none"
    /\ cr.phase \in {"none", "Pending", "Building"} => export.pc = "none"
    /\ ~Started => /\ export.next = 1
                   /\ \A h \in Handler : up[h].pc \in {"idle", "error"}
    /\ \A h \in Handler :
          /\ export.pc = "wait" /\ export.with = h /\ up[h].pc \in {"dir", "copy", "list", "201"}
                => up[h].file = Files[export.next]
          /\ up[h].pc \in {"dir", "copy", "list"} => up[h].snap # NoRow /\ up[h].file \in Range(Files)
          /\ up[h].mine => there
DoneInv ==
    cr.spec.exporter =>
        /\ cr.phase = "Ready" => export.pc = "done"
        /\ watch.pc = "write" /\ watch.read = "Ready" => export.pc = "done"
        /\ row # NoRow /\ row.phase = "Ready" /\ "patch" \notin lost => export.pc = "done"

\* What was sent is on the disk, until a request that will delete the row removes it.
Intact ==
    /\ row # NoRow /\ lost \intersect {"patch", "row", "restart"} = {}
    /\ \A o \in Op : op[o].pc = "row" => op[o].kind = "sweep"
DiskInv ==
    Intact => /\ \A i \in 1 .. export.next - 1 : Files[i] \in onDisk
              /\ \A h \in Handler : up[h].pc \in {"list", "201"} => up[h].file \in onDisk

\* What was sent is listed, while there is one upload at a time.
Listing == lost \intersect {"patch", "restart", "list", "abandoned"} = {}
ListInv ==
    Listing =>
        /\ \A h \in Handler : up[h].pc # "idle" => export.pc = "wait" /\ export.with = h
        /\ row # NoRow =>
              /\ \A i \in 1 .. export.next - 1 : Files[i] \in row.files
              /\ \A h \in Handler :
                    /\ up[h].pc = "201" => up[h].file \in row.files
                    /\ up[h].pc \in {"dir", "copy", "list"} => row.files \subseteq up[h].snap.files

\* The watcher leaves a dead token, or could not write it.
TokenInv ==
    watch.last \in Terminal /\ watch.pc \in {"cancel", "off"} =>
        /\ create = "row" => "token" \in lost
        /\ row # NoRow /\ lost \intersect {"token", "patch"} = {} => ~row.token

\* Whoever stops the watcher has seen to the row: it shows an end, or the CR is gone.
RowSettled == row.phase \in Terminal \/ cr.phase \notin InCluster
SettleInv ==
    /\ create = "row" /\ (~live \/ watch.pc \in {"clear", "cancel"})
          => "phase" \in lost \/ cr.phase \notin InCluster
    /\ watch.pc \in {"clear", "cancel"} /\ row # NoRow /\ lost \intersect {"phase", "patch"} = {}
          => RowSettled
    /\ ~live /\ row # NoRow /\ lost \intersect {"phase", "delete", "patch"} = {}
          => RowSettled \/ \E o \in Op : op[o].pc = "delete"

OperatorInv ==
    /\ TypeOK /\ OrderInv /\ RequestInv /\ CancelInv /\ SecretInv /\ StrayInv /\ WatchInv
    /\ ClearInv /\ ExportInv /\ DoneInv /\ DiskInv /\ ListInv /\ TokenInv /\ SettleInv
=============================================================================
