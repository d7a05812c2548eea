--------------------------- MODULE ImagePipeline ---------------------------
(***************************************************************************)
(* The deployer: the graph of build steps that turns a container image, or *)
(* a released ISO, into the ISO, raw disk, cloud disk and netboot files a  *)
(* configuration asks for (deployer/, the step callbacks of pkg/ops).      *)
(*                                                                         *)
(* The steps of one layer of the graph run as concurrent goroutines and    *)
(* meet in the destination directory.  A step that shares no file with its *)
(* layer is one action; the raw disk builds and the disk conversions,      *)
(* which do, are split at the file operations another step can see.        *)
(***************************************************************************)
EXTENDS FiniteSets, FiniteSetsExt

CONSTANT
    Configs     \* the configurations explored

ISONames == {"kairos.iso", "named.iso"}
RawNames == {"this", "other"}   \* this rootfs's kairos-<name>.raw, another's

\* The build-iso command fills in a container image and a state_dir, and no disk.
Config ==
    {c \in [caller : {"cli", "web", "build-iso"}, image : BOOLEAN, state : {"set", "later"},
            disks : SUBSET {"efi", "bios", "partitions", "gce", "vhd", "maas"},
            off : SUBSET {"iso", "netboot", "http"}, cloud : {"empty", "new"},
            oldCC : {"none", "old"}, oldISO : SUBSET ISONames, oldRaw : SUBSET RawNames,
            prefix : {"unset", "kairos", "named"}] :
       c.caller = "build-iso" => c.image /\ c.disks = {} /\ c.state = "set"}

ASSUME PipeAssumption == Configs \subseteq Config

VARIABLES
    cfg,        \* the configuration and who runs it
    dag,        \* the registered graph: steps, dependencies, layers
    status,     \* what became of each step
    fs,         \* the destination, the unpack directories and the outputs
    held,       \* the raw disk each conversion found
    result      \* the caller's view of the build

pipeVars == <<cfg, dag, status, fs, held, result>>

Steps == {"prep", "cc", "dump", "genISO", "download", "extract", "efi",
          "bios", "gce", "vhd", "maas", "inject", "http", "pixie"}

Background == {"http", "pixie"}
Conversions == {"gce", "vhd", "maas"}

(***************************************************************************)
(* Predicates on a configuration.                                          *)
(***************************************************************************)
fromImage(c) == c.image

isoOption(c) == ~fromImage(c)

rawDiskIsSet(c) == c.disks # {}

\* Config.Validate: the combinations refused before a build starts.
Validate(c) == ~ /\ "partitions" \in c.disks
                 /\ c.disks \intersect {"gce", "vhd"} # {}

\* tmpRootFs is keyed by state_dir: a caller that fills in state_dir after
\* registration has one directory for the values read while registering and
\* another for the ones read by the callbacks.
tmpRootFs(c, when) == IF c.state = "set" THEN "set" ELSE when

(***************************************************************************)
(* The steps: which ones a configuration enables and what they depend on.  *)
(* A caller registers all of them, or (build-iso) the first four.          *)
(***************************************************************************)
Registered(c) == IF c.caller = "build-iso" THEN {"prep", "cc", "dump", "genISO"}
                                           ELSE Steps

Enabled(c) == {s \in Registered(c) :
    CASE s \in {"prep", "cc"}          -> TRUE
      [] s = "dump"                    -> fromImage(c)
      [] s = "genISO"                  -> /\ fromImage(c)
                                          /\ ~rawDiskIsSet(c)
                                          /\ ~({"iso", "netboot"} \subseteq c.off)
      [] s \in {"download", "inject"}  -> ~rawDiskIsSet(c) /\ isoOption(c)
      [] s = "extract"                 -> "netboot" \notin c.off /\ ~rawDiskIsSet(c)
      [] s = "efi"                     -> c.disks \ {"bios"} # {}
      [] s = "bios"                    -> "bios" \in c.disks
      [] s \in Conversions             -> s \in c.disks
      [] s = "http"                    -> c.off \intersect {"iso", "http"} = {}
      [] s = "pixie"                   -> "netboot" \notin c.off}

StepGenISODeps == {"dump", "cc", "prep"}

StepGenRawDiskDeps == {"dump"}

StepExtractNetbootDeps(c) == {"genISO"} \union (IF isoOption(c) THEN {"download"} ELSE {})

StepInjectCCDeps(c) == {"cc"} \union (IF fromImage(c) THEN {"genISO"} ELSE {"download"})

StepStartHTTPServerDeps(c) ==
    {"cc", "inject"} \union (IF fromImage(c) THEN {"genISO"} ELSE {"download"})

Deps(c) == [s \in Registered(c) |->
    CASE s = "prep"                         -> {}
      [] s \in {"cc", "dump", "download"}   -> {"prep"}
      [] s = "genISO"                       -> StepGenISODeps
      [] s = "extract"                      -> StepExtractNetbootDeps(c)
      [] s \in {"efi", "bios"}              -> StepGenRawDiskDeps
      [] s \in Conversions                  -> {"efi"}
      [] s = "inject"                       -> StepInjectCCDeps(c)
      [] s = "http"                         -> StepStartHTTPServerDeps(c)
      [] s = "pixie"                        -> {"extract", "cc"}]

\* The graph library runs the graph layer by layer; a step's layer is the
\* length of the longest chain of dependencies below it, disabled steps
\* included.
Layers(deps) ==
    LET depth[s \in DOMAIN deps] ==
          IF deps[s] = {} THEN 0 ELSE 1 + Max({depth[d] : d \in deps[s]})
    IN  depth

(***************************************************************************)
(* State.                                                                  *)
(***************************************************************************)
NoDisk == [boot |-> "none", cc |-> "none", whole |-> FALSE]
BlankDisk == [boot |-> "blank", cc |-> "none", whole |-> FALSE]
NoISO == [src |-> "none", cc |-> "none"]

DiskContents == [boot : {"none", "blank", "efi", "bios", "old"},
                 cc : {"none", "old", "empty", "new"}, whole : BOOLEAN]
ISOContents == [src : {"none", "old", "partial", "new"},
                cc : {"none", "old", "empty", "new"}]
PipeTypeOK ==
    /\ cfg \in Config
    /\ status \in [Steps -> {"unregistered", "off", "wait", "glob", "run",
                             "ok", "err", "serving"}]
    /\ fs.root \in [{"set", "early", "late"} -> {"absent", "empty", "partial", "full"}]
    /\ fs.cc \in {"none", "old", "empty", "new"}
    /\ fs.iso \in [ISONames -> ISOContents]
    /\ fs.raw \in [RawNames -> DiskContents]
    /\ fs.out \in [Conversions \union {"parts"} -> DiskContents]
    /\ fs.net \in [src : {"none", "old", "partial", "new"}, prefix : {"kairos", "named"}]
    /\ held \in [Conversions -> RawNames \union {"none"}]
    /\ result \in {"new", "running", "rejected", "crashed", "failed", "ok",
                   "cleaned_failed", "cleaned_ok"}

\* The caller's view of a pipeline that is not used is "rejected" from the start.
PipeInit(configs, view) ==
    /\ cfg \in configs
    /\ dag = [deps |-> <<>>, layer |-> <<>>]
    /\ status = [s \in Steps |-> "unregistered"]
    /\ fs = [root |-> [d \in {"set", "early", "late"} |-> "absent"],
             cc |-> cfg.oldCC,
             iso |-> [n \in ISONames |-> IF n \in cfg.oldISO
                                         THEN [src |-> "old", cc |-> "old"] ELSE NoISO],
             raw |-> [n \in RawNames |-> IF n \in cfg.oldRaw
                                         THEN [boot |-> "old", cc |-> "old", whole |-> TRUE]
                                         ELSE NoDisk],
             out |-> [k \in Conversions \union {"parts"} |-> NoDisk],
             net |-> [src |-> "none", prefix |-> "kairos"]]
    /\ held = [k \in Conversions |-> "none"]
    /\ result = view

(***************************************************************************)
(* Registration.                                                           *)
(***************************************************************************)
RegisterAll ==
    /\ result = "new"
    /\ IF cfg.caller # "build-iso" /\ ~Validate(cfg)
       THEN /\ result' = "rejected"
            /\ UNCHANGED <<dag, status>>
       ELSE /\ result' = "running"
            /\ dag' = [deps |-> Deps(cfg), layer |-> Layers(Deps(cfg))]
            /\ status' = [s \in Steps |->
                 IF s \notin Registered(cfg) THEN "unregistered"
                 ELSE IF s \in Enabled(cfg) THEN "wait" ELSE "off"]
    /\ UNCHANGED <<cfg, fs, held>>

Pending == {"wait", "glob", "run"}

\* A step's goroutine starts once every earlier layer has ended.
Ready(s) == /\ result = "running"
            /\ status[s] = "wait"
            /\ \A p \in DOMAIN dag.layer :
                 dag.layer[p] < dag.layer[s] => status[p] \notin Pending

DepFailed(s) == \E d \in dag.deps[s] : status[d] = "err"

Starts(s) == Ready(s) /\ ~DepFailed(s)

Ends(s, how) == /\ status' = [status EXCEPT ![s] = how]
                /\ UNCHANGED <<cfg, dag, result>>

\* A step one of whose dependencies failed is not run and counts as failed.
Skipped(s) == /\ Ready(s) /\ DepFailed(s)
              /\ Ends(s, "err")
              /\ UNCHANGED <<fs, held>>

(***************************************************************************)
(* The steps of the first layers.                                          *)
(***************************************************************************)
PrepDirs ==
    LET dir == tmpRootFs(cfg, "late")
        Cleared(to) == [fs EXCEPT !.root[dir] = to]
    IN  /\ Starts("prep")
        /\ \/ /\ fs' = [Cleared("empty") EXCEPT !.net.src = "none"]
              /\ Ends("prep", "ok")
           \/ /\ fs' \in {fs, Cleared("absent"), Cleared("empty")}
              /\ Ends("prep", "err")
        /\ UNCHANGED held

\* Slip: a config.yaml that is already there is kept.
KeepConfigThatIsThere ==
    /\ Starts("cc")
    /\ fs' = IF fs.cc = "none" THEN [fs EXCEPT !.cc = cfg.cloud] ELSE fs
    /\ Ends("cc", "ok")
    /\ UNCHANGED held

StepCopyCloudConfig ==
    /\ Starts("cc")
    /\ \/ /\ fs' = [fs EXCEPT !.cc = cfg.cloud]
          /\ Ends("cc", "ok")
       \/ /\ fs' \in {fs, [fs EXCEPT !.cc = "empty"]}
          /\ Ends("cc", "err")
    /\ UNCHANGED held

StepDumpSource ==
    LET dir == tmpRootFs(cfg, "late")
    IN  /\ \/ /\ Starts("dump")
              /\ fs' = [fs EXCEPT !.root[dir] = "partial"]
              /\ Ends("dump", "run")
           \/ /\ status["dump"] = "run"
              /\ fs' = [fs EXCEPT !.root[dir] = "full"]
              /\ Ends("dump", "ok")
           \/ /\ status["dump"] = "run"
              /\ fs' = fs
              /\ Ends("dump", "err")
        /\ UNCHANGED held

\* getIsoFile: kairos.iso if it is there, else any ISO, else kairos.iso.
getIsoFile ==
    LET there == {n \in ISONames : fs.iso[n] # NoISO}
    IN  IF "kairos.iso" \in there \/ there = {} THEN "kairos.iso" ELSE "named.iso"

\* A failed download is not removed: the path it removes is not the file's.
StepDownloadISO ==
    /\ Starts("download")
    /\ \E got \in {"new", "partial", "none"} :
         /\ fs' = IF got = "none" THEN fs
                  ELSE [fs EXCEPT !.iso[getIsoFile] = [src |-> got, cc |-> "none"]]
         /\ Ends("download", IF got = "new" THEN "ok" ELSE "err")
    /\ UNCHANGED held

\* The generated ISO is named after the rootfs, never kairos.iso.  A rootfs
\* still being unpacked makes an ISO all the same.  An older one is removed
\* before the new one is written.
StepGenISO ==
    LET root == fs.root[tmpRootFs(cfg, "late")]
    IN  /\ Starts("genISO")
        /\ \/ /\ root \in {"partial", "full"}
              /\ fs' = [fs EXCEPT !.iso["named.iso"] =
                          [src |-> IF root = "full" THEN "new" ELSE "partial",
                           cc |-> fs.cc]]
              /\ Ends("genISO", "ok")
           \/ /\ \E left \in {fs.iso["named.iso"], NoISO, [src |-> "partial", cc |-> "none"]} :
                   fs' = [fs EXCEPT !.iso["named.iso"] = left]
              /\ Ends("genISO", "err")
        /\ UNCHANGED held

StepInjectCC ==
    LET iso == getIsoFile
    IN  /\ Starts("inject")
        /\ IF fs.cc \in {"none", "empty"}
           THEN Ends("inject", "ok") /\ fs' = fs
           ELSE \/ /\ fs.iso[iso] # NoISO
                   /\ fs' = [fs EXCEPT !.iso[iso].cc = fs.cc]
                   /\ Ends("inject", "ok")
                \/ fs' = fs /\ Ends("inject", "err")
        /\ UNCHANGED held

\* The extracted files are named after iso.name, which defaults to kairos;
\* pixiecore is always given the kairos names.
NetbootPrefix == IF cfg.prefix = "unset" THEN "kairos" ELSE cfg.prefix

StepExtractNetboot ==
    LET iso == fs.iso[getIsoFile]
    IN  /\ Starts("extract")
        /\ \/ /\ iso # NoISO
              /\ fs' = [fs EXCEPT !.net = [src |-> iso.src, prefix |-> NetbootPrefix]]
              /\ Ends("extract", "ok")
           \/ /\ fs' \in {fs, [fs EXCEPT !.net.src = "partial"]}
              /\ Ends("extract", "err")
        /\ UNCHANGED held

(***************************************************************************)
(* Raw disks: the partitions are built in a private directory, then joined *)
(* into kairos-<name>.raw, the same name for EFI and BIOS.                 *)
(***************************************************************************)
RawDiskStart(s) ==
    LET root == fs.root[tmpRootFs(cfg, "early")]
        made == [boot |-> s, cc |-> fs.cc, whole |-> root = "full"]
    IN  /\ Starts(s)
        /\ \/ /\ root \in {"partial", "full"}
              /\ fs.cc # "none"
              /\ IF s = "efi" /\ "partitions" \in cfg.disks
                 THEN /\ fs' = [fs EXCEPT !.out["parts"] = made]
                      /\ Ends(s, "ok")
                 ELSE /\ fs' = [fs EXCEPT !.raw["this"] = made]
                      /\ Ends(s, "run")
           \/ /\ fs' = fs
              /\ Ends(s, "err")
        /\ UNCHANGED held

\* A disk the other build has meanwhile recreated is neither's.
RawDiskFinish(s) ==
    LET raw == fs.raw["this"]
    IN  /\ status[s] = "run"
        /\ \/ /\ fs' = [fs EXCEPT !.raw["this"].whole = raw.whole /\ raw.boot = s]
              /\ Ends(s, "ok")
           \/ /\ fs' \in {fs, [fs EXCEPT !.raw["this"] = NoDisk]}
              /\ Ends(s, "err")
        /\ UNCHANGED held

StepGenRawDisk == RawDiskStart("efi") \/ RawDiskFinish("efi")

StepGenMBRRawDisk == RawDiskStart("bios") \/ RawDiskFinish("bios")

(***************************************************************************)
(* Conversions: glob for exactly one kairos-*.raw, then work on its name.  *)
(***************************************************************************)
Glob(k) ==
    LET there == {n \in RawNames : fs.raw[n] # NoDisk}
    IN  /\ Starts(k)
        /\ \/ /\ Cardinality(there) = 1
              /\ held' = [held EXCEPT ![k] = CHOOSE n \in there : TRUE]
              /\ Ends(k, "glob")
           \/ /\ Cardinality(there) # 1
              /\ held' = held
              /\ Ends(k, "err")
        /\ UNCHANGED fs

Found(k) == fs.raw[held[k]]

ConversionFails(k) == /\ status[k] \in {"glob", "run"}
                      /\ Ends(k, "err")
                      /\ UNCHANGED <<fs, held>>

\* Raw2Azure renames the raw disk away and appends to what it renamed.
Raw2Azure ==
    /\ status["vhd"] = "glob"
    /\ Found("vhd") # NoDisk
    /\ fs' = [fs EXCEPT !.raw[held["vhd"]] = NoDisk, !.out["vhd"] = Found("vhd")]
    /\ Ends("vhd", "ok")
    /\ UNCHANGED held

\* Raw2Gce opens the raw disk, creating it when it is not there, and grows it;
GceResize ==
    /\ status["gce"] = "glob"
    /\ fs' = IF Found("gce") = NoDisk
             THEN [fs EXCEPT !.raw[held["gce"]] = BlankDisk] ELSE fs
    /\ Ends("gce", "run")
    /\ UNCHANGED held

\* then packs it and removes it.  A raw disk gone in between is a nil
\* dereference in the goroutine, which takes the process down.
GcePack ==
    /\ status["gce"] = "run"
    /\ IF Found("gce") = NoDisk
       THEN /\ result' = "crashed"
            /\ UNCHANGED <<cfg, dag, status, fs>>
       ELSE /\ fs' = [fs EXCEPT !.raw[held["gce"]] = NoDisk, !.out["gce"] = Found("gce")]
            /\ Ends("gce", "ok")
    /\ UNCHANGED held

Raw2Gce == GceResize \/ GcePack

\* Raw2MAAS opens the raw disk and leaves it in place;
MaasOpen ==
    /\ status["maas"] = "glob"
    /\ Found("maas") # NoDisk
    /\ fs' = [fs EXCEPT !.out["maas"] = Found("maas")]
    /\ Ends("maas", "run")
    /\ UNCHANGED held

\* it compresses what it opened, with the footer Raw2Azure may have appended
\* to it in the meantime.
MaasCompress ==
    LET disk == fs.out["maas"]
    IN  /\ status["maas"] = "run"
        /\ \E whole \in {disk.whole} \union (IF status["vhd"] \in {"ok", "err"} THEN {FALSE} ELSE {}) :
             fs' = [fs EXCEPT !.out["maas"].whole = whole]
        /\ Ends("maas", "ok")
        /\ UNCHANGED held

Raw2MAAS == MaasOpen \/ MaasCompress

StepConvertVHD == Glob("vhd") \/ Raw2Azure \/ ConversionFails("vhd")
StepConvertGCE == Glob("gce") \/ Raw2Gce \/ ConversionFails("gce")
StepConvertMAAS == Glob("maas") \/ Raw2MAAS \/ ConversionFails("maas")

(***************************************************************************)
(* The servers, and the end of the build.                                  *)
(***************************************************************************)
StartServer(s) ==
    /\ Starts(s)
    /\ \/ Ends(s, "serving")
       \/ Ends(s, "err")
    /\ UNCHANGED <<fs, held>>

StepStartHTTPServer == StartServer("http")
StepStartNetboot == StartServer("pixie")

ServerDies(s) == /\ result = "running"
                 /\ status[s] = "serving"
                 /\ Ends(s, "err")
                 /\ UNCHANGED <<fs, held>>

Settled == \A s \in Steps : status[s] \notin Pending

\* Slip: errors are waited out.
CollectOnlySuccess ==
    /\ result = "running"
    /\ Settled
    /\ \A s \in Steps : status[s] \notin {"err", "serving"}
    /\ result' = "ok"
    /\ UNCHANGED <<cfg, dag, status, fs, held>>

\* The top-level command also waits for its background steps; the others
\* collect the errors while they are still serving.
CollectErrors ==
    /\ result = "running"
    /\ Settled
    /\ cfg.caller = "cli" => \A s \in Steps : status[s] # "serving"
    /\ result' = IF \E s \in Steps : status[s] = "err" THEN "failed" ELSE "ok"
    /\ UNCHANGED <<cfg, dag, status, fs, held>>

\* The commands clean up behind themselves; the fleet server's builder calls
\* the deployer and does not.
CleanTmpDirs ==
    /\ result \in {"failed", "ok"}
    /\ cfg.caller # "web"
    /\ fs' = [fs EXCEPT !.root[tmpRootFs(cfg, "late")] = "absent",
                        !.net.src = "none", !.cc = "none"]
    /\ result' = IF result = "ok" THEN "cleaned_ok" ELSE "cleaned_failed"
    /\ UNCHANGED <<cfg, dag, status, held>>

Run == \/ PrepDirs \/ StepCopyCloudConfig \/ StepDumpSource
       \/ StepGenISO \/ StepDownloadISO \/ StepExtractNetboot
       \/ StepGenRawDisk \/ StepGenMBRRawDisk
       \/ StepConvertGCE \/ StepConvertVHD \/ StepConvertMAAS
       \/ StepInjectCC \/ StepStartHTTPServer \/ StepStartNetboot
       \/ \E s \in Steps : Skipped(s)
       \/ CollectErrors \/ CleanTmpDirs

PipeNext == RegisterAll \/ Run \/ \E s \in Background : ServerDies(s)

\* The callers start the graph and herd runs what it can.
PipeFairness == WF_pipeVars(RegisterAll \/ Run)

(***************************************************************************)
(* Properties.                                                             *)
(***************************************************************************)

\* What the code accepts and cannot deliver: several builds and conversions work on one
\* kairos-<name>.raw, and separate partitions leave MAAS nothing to convert.
MakesRaw(c) == c.disks \ {"bios"} # {} /\ "partitions" \notin c.disks
OneUseOfRaw(c) ==
    /\ ~("bios" \in c.disks /\ MakesRaw(c))
    /\ ~({"gce", "vhd"} \subseteq c.disks) /\ ~({"vhd", "maas"} \subseteq c.disks)
    /\ ~({"partitions", "maas"} \subseteq c.disks)

\* And what it does not find or name as pixiecore was told: the ISO next to an older
\* kairos.iso, and the files of an ISO with a name of its own.
NamedKairos(c) ==
    /\ c.prefix \in {"unset", "kairos"}
    /\ fromImage(c) => "kairos.iso" \notin c.oldISO

\* A build that reports success has made every output its configuration asks
\* for, each whole and none of them left over from an earlier build: errors of
\* concurrent steps are collected, and nothing a step needs is missing without
\* an error.
DeliversWhatWasAsked ==
    LET Whole(d, boot) == d.whole /\ d.boot = boot
    IN  result \in {"ok", "cleaned_ok"} =>
          /\ "genISO" \in Enabled(cfg) => fs.iso["named.iso"].src = "new"
          /\ "download" \in Enabled(cfg) => fs.iso[getIsoFile].src = "new"
          /\ OneUseOfRaw(cfg) =>
               /\ \A k \in Conversions \intersect cfg.disks : Whole(fs.out[k], "efi")
               /\ "partitions" \in cfg.disks => Whole(fs.out["parts"], "efi")
               /\ "bios" \in cfg.disks => Whole(fs.raw["this"], "bios")
               /\ cfg.disks = {"efi"} => Whole(fs.raw["this"], "efi")

\* Every image of a build that reports success carries the configuration of
\* that build, not an empty one or one an interrupted build left in the
\* destination: the raw disk steps read config.yaml without declaring that
\* they depend on the step that writes it.
ConfigIsThisBuilds ==
    result \in {"ok", "cleaned_ok"} =>
      /\ \A n \in ISONames : fs.iso[n].src = "new" =>
           fs.iso[n].cc \in {cfg.cloud} \union (IF cfg.cloud = "empty" THEN {"none"} ELSE {})
      /\ \A d \in {fs.raw[n] : n \in RawNames} \union {fs.out[k] : k \in Conversions \union {"parts"}} :
           d.boot \in {"efi", "bios"} => d.cc = cfg.cloud

\* A server that is up serves this build: the HTTP server an ISO with the
\* configuration in it, pixiecore the kernel, initrd and squashfs of that ISO
\* under the names it was given, and neither has its files cleaned away.
ServersServeThisBuild ==
    /\ status["http"] = "serving" /\ ~rawDiskIsSet(cfg) =>
         LET iso == IF fromImage(cfg) THEN fs.iso["named.iso"] ELSE fs.iso[getIsoFile]
         IN  iso.src = "new" /\ (cfg.cloud = "new" => iso.cc = "new")
    /\ status["pixie"] = "serving" /\ ~rawDiskIsSet(cfg) =>
         /\ fs.cc = cfg.cloud
         /\ NamedKairos(cfg) => fs.net = [src |-> "new", prefix |-> "kairos"]

\* What the graph of steps makes, configures and serves is of this build, whole, and
\* what was asked for.
OutputsAreThisBuilds == DeliversWhatWasAsked /\ ConfigIsThisBuilds /\ ServersServeThisBuild

\* Once a command has cleaned up, whatever failed before, no unpacked rootfs,
\* netboot file or cloud config is left on the machine.
NothingLeftBehind ==
    result \in {"cleaned_ok", "cleaned_failed"} =>
      /\ \A d \in DOMAIN fs.root : fs.root[d] = "absent"
      /\ fs.net.src = "none"
      /\ fs.cc = "none"

\* Why that holds, as an inductive invariant: the rootfs is only ever unpacked where
\* the clean-up removes it, and no step is under way once the errors have been collected.
CleanInv ==
    /\ \A d \in {"set", "early", "late"} :
         d # tmpRootFs(cfg, "late") => fs.root[d] = "absent"
    /\ result \in {"failed", "ok", "cleaned_ok", "cleaned_failed"} => Settled
    /\ NothingLeftBehind

\* Why the outputs are this build's, as an inductive invariant.  A step that has begun
\* was registered and enabled, what it depends on has succeeded or is off, and the cloud
\* config was dealt with before the raw disk steps, which only their layer ensures.
Begun == {"glob", "run", "ok", "serving"}
Outcomes(s) == CASE s \in Background              -> {"serving", "err"}
                 [] s \in Conversions             -> {"glob", "run", "ok", "err"}
                 [] s \in {"dump", "efi", "bios"} -> {"run", "ok", "err"}
                 [] OTHER                         -> {"ok", "err"}
GraphInv ==
    /\ \A s \in Steps :
         status[s] \in IF result \in {"new", "rejected"} \/ s \notin Registered(cfg) THEN {"unregistered"}
                       ELSE IF s \notin Enabled(cfg) THEN {"off"} ELSE {"wait"} \union Outcomes(s)
    /\ result \notin {"new", "rejected"} =>
         /\ dag = [deps |-> Deps(cfg), layer |-> Layers(Deps(cfg))]
         /\ cfg.caller = "build-iso" \/ Validate(cfg)
    /\ \A s \in Registered(cfg) : status[s] \in Begun =>
         \A d \in Deps(cfg)[s] : status[d] \in {"ok", "off"}
    /\ {status["efi"], status["bios"]} \intersect Begun # {} => status["cc"] \in {"ok", "err"}
    /\ result \in {"failed", "ok", "cleaned_failed", "cleaned_ok"} =>
         /\ Settled
         /\ cfg.caller # "web" => \A s \in Steps : status[s] # "serving"
    /\ result \in {"ok", "cleaned_ok"} => \A s \in Steps : status[s] # "err"

\* The unpacked rootfs and the config of this build, until a command cleans them away.
Cleaned == result \in {"cleaned_ok", "cleaned_failed"}
SourcesInv ==
    /\ Cleaned => cfg.caller # "web"
    /\ ~Cleaned =>
         /\ fs.root[tmpRootFs(cfg, "late")] \in {"partial", "full"} => status["dump"] \in {"run", "ok", "err"}
         /\ status["dump"] = "ok" => fs.root[tmpRootFs(cfg, "late")] = "full"
         /\ status["cc"] = "ok" => fs.cc = cfg.cloud

\* The ISOs: which is new, and what configuration each step has put into it.
ImageInv ==
    /\ status["genISO"] = "ok" => fs.iso["named.iso"] = [src |-> "new", cc |-> cfg.cloud]
    /\ status["download"] = "ok" =>
         LET iso == fs.iso[getIsoFile]
         IN  /\ iso.src = "new" /\ iso.cc \in {"none", cfg.cloud}
             /\ cfg.cloud = "empty" => iso.cc = "none"
             /\ cfg.cloud = "new" /\ status["inject"] = "ok" => iso.cc = "new"
    /\ \A n \in ISONames : fs.iso[n].src = "new" =>
         \/ status["genISO"] = "ok" /\ n = "named.iso"
         \/ status["download"] = "ok" /\ n = getIsoFile
    /\ fromImage(cfg) /\ "kairos.iso" \notin cfg.oldISO => fs.iso["kairos.iso"] = NoISO
    /\ status["extract"] = "ok" /\ NamedKairos(cfg) /\ ~Cleaned => fs.net = [src |-> "new", prefix |-> "kairos"]

\* Every disk made so far has this build's config in it, and where one step at a time
\* uses kairos-<name>.raw, it is the disk of the step that made it, or converted.
Made(d) == d.boot \in {"efi", "bios"} => /\ status["cc"] \in {"ok", "err"}
                                         /\ status["cc"] = "ok" => d.cc = cfg.cloud
IsWhole(d, boot) == d.whole /\ d.boot = boot
DisksInv ==
    /\ \A n \in RawNames : Made(fs.raw[n])
    /\ \A k \in Conversions \union {"parts"} : Made(fs.out[k])
    /\ \A k \in Conversions : status[k] \in {"glob", "run"} => held[k] \in RawNames
    /\ status["efi"] = "run" => "partitions" \notin cfg.disks
    /\ OneUseOfRaw(cfg) =>
         /\ status["efi"] = "ok" /\ "partitions" \in cfg.disks => IsWhole(fs.out["parts"], "efi")
         /\ status["bios"] \in {"run", "ok"} => IsWhole(fs.raw["this"], "bios")
         /\ status["efi"] \in {"run", "ok"} /\ MakesRaw(cfg) =>
              \/ IsWhole(fs.raw["this"], "efi")
              \/ fs.raw["this"] = NoDisk /\ "ok" \in {status["gce"], status["vhd"]}
         /\ \A k \in {"gce", "vhd"} : status[k] \in {"glob", "run", "ok"} => fs.raw["other"] = NoDisk
         /\ \A k \in Conversions : /\ status[k] \in {"glob", "run"} => held[k] = "this"
                                   /\ status[k] = "ok" => IsWhole(fs.out[k], "efi")
         /\ status["maas"] = "run" => IsWhole(fs.out["maas"], "efi")

PipeInv == PipeTypeOK /\ GraphInv /\ SourcesInv /\ ImageInv /\ DisksInv

\* A build without servers ends, whichever steps fail: no step waits for one
\* that is skipped.
BuildEnds == Enabled(cfg) \intersect Background = {} =>
               <>(result \notin {"new", "running"})
=============================================================================
