------------------------------ MODULE RawDisk ------------------------------
(***************************************************************************)
(* RawImage.Build: the recovery, boot and OEM partitions of a raw disk are *)
(* made one after the other in a temporary directory, then joined under a  *)
(* partition table; a BIOS disk is attached to a loop device for           *)
(* grub-install, and the finished disk may be converted to a cloud format  *)
(* (pkg/ops/rawDiskGeneration.go, rawDiskOutput.go).                       *)
(*                                                                         *)
(* Several builds run on one host and share its loop devices.  Every call  *)
(* that can fail may fail.                                                 *)
(***************************************************************************)
EXTENDS DiskFormats, FiniteSets

CONSTANTS
    Builds,     \* the builds that run on the host
    RawJobs,    \* what the builds are asked for, together: functions from
                \* Builds to records, or to NoJob for a build that is not there
    Loops,      \* the host's loop devices
    NoLoop,
    NoJob

\* What a build can be asked for.  Only NewEFIRawImage's caller sets partitions or maas,
\* and Validate refuses the conversion of separate partitions.
RawImage ==
    {job \in [efi : BOOLEAN, partitions : BOOLEAN, maas : BOOLEAN, to : {"raw", "vhd", "gce"},
              arch : STRING, flavor : STRING, model : STRING, rootfs : SUBSET {"shim", "grub"},
              cc : {"text", "empty", "missing"}, noDefault : BOOLEAN,
              source : Nat, recovery : Int, state : Int, final : Nat] :
       /\ job.partitions \/ job.maas => job.efi
       /\ job.partitions => job.to = "raw"}

\* A build is not mistaken for the host or for nobody.
ASSUME RawAssumption ==
    /\ "host" \notin Builds /\ "free" \notin Builds
    /\ \A jobs \in RawJobs, b \in Builds : jobs[b] \in RawImage \union {NoJob}

VARIABLES
    raw,        \* the state of each build
    loop        \* who has a loop device attached: a build, "host" or nobody

\* Sizes of kairos-sdk, in MB.
EfiSize == 64
OEMSize == 64
BiosSize == 1

NoFile == [size |-> 0, content |-> <<>>, table |-> <<>>, wiped |-> FALSE, grub |-> FALSE]

Results == {"none", "ok", "failed"}
Pcs == {"idle", "recovery", "boot", "oem", "choose", "landing", "join", "table",
        "losetup", "kpartx", "mount", "grub", "unmount", "unmap", "size",
        "finalize", "convert", "end"}

RawTypeOK ==
    /\ DOMAIN raw = Builds
    /\ loop \in [Loops -> Builds \union {"host", "free"}]
    /\ \A b \in Builds :
         /\ raw[b].pc \in Pcs
         /\ raw[b].job \in {j[b] : j \in RawJobs} \union {NoJob}
         /\ raw[b].loop \in Loops \union {NoLoop}
         /\ raw[b].res \in Results
         /\ raw[b].image \in Nat /\ raw[b].state \in Nat
         /\ raw[b].disk.size % Sector = 0

RawInit(jobs) ==
    /\ \E job \in jobs :
         raw = [b \in Builds |->
                 [job |-> job[b], pc |-> IF job[b] = NoJob THEN "end" ELSE "recovery",
                  image |-> 0, parts |-> <<>>, esp |-> {}, oem |-> {}, state |-> 0,
                  disk |-> NoFile, emitted |-> {}, loop |-> NoLoop, mounted |-> FALSE,
                  failing |-> FALSE, lost |-> {}, vhd |-> <<>>, res |-> "none"]]
    /\ loop \in {[l \in Loops |-> IF l \in s THEN "host" ELSE "free"] :
                   s \in {t \in SUBSET Loops : Cardinality(t) <= 1}}

(***************************************************************************)
(* How a step goes on.  Build's deferred calls remove its temporary files  *)
(* whichever way it returns; they are private to it and left out.          *)
(***************************************************************************)
Becomes(b, r) == raw' = [raw EXCEPT ![b] = r]

Return(b, r, how) ==
    Becomes(b, [r EXCEPT !.pc = "end", !.res = how])

At(b, pc) == raw[b].pc = pc

Fails(b, pc) == At(b, pc) /\ Return(b, raw[b], "failed") /\ UNCHANGED loop

Part(name, mb) == [name |-> name, size |-> mb * MB]

\* elemental: an image of so many MB with the source copied into it.
DeployImage(mb, source) == mb >= source

(***************************************************************************)
(* The partitions.                                                         *)
(***************************************************************************)
\* The size of the source is 0 when it cannot be determined; its error is
\* dropped.
createRecoveryPartitionImage(b) ==
    LET job == raw[b].job
    IN  /\ At(b, "recovery")
        /\ \E known \in {job.source, 0} :
             LET image == recoveryImageSize(known, job.recovery)
                 mb == recoveryPartitionSize(image)
             IN  /\ image > 0
                 /\ DeployImage(image, job.source)
                 /\ DeployImage(mb, image)
                 /\ Becomes(b, [raw[b] EXCEPT !.pc = "boot", !.image = image,
                                !.parts = <<Part("recovery", mb)>>])
        /\ UNCHANGED loop

GetModelAndFlavor(job) == job.flavor # "unknown" /\ job.model # "unknown"

\* The architecture whose firmware looks for the name a loader is given.
GetFallBackEfi(arch) == IF arch = "arm64" THEN "arm64" ELSE "amd64"

\* The packaged grub of arm64, or of amd64 for every other rootfs.  The same
\* name is written twice: the grub name stays empty.
CopyAlpineShimAndGrub(job) ==
    {<<"loader", IF job.arch = "arm64" THEN "arm64" ELSE "amd64">>}

copyShimOrGrub(job, which) ==
    IF job.flavor = "alpine" THEN CopyAlpineShimAndGrub(job)
    ELSE IF which \notin job.rootfs THEN {}
    ELSE {<<which, job.arch>>} \union
         (IF which = "shim" THEN {<<"loader", GetFallBackEfi(job.arch)>>} ELSE {})

\* The files of the EFI partition.
EfiFiles(job) ==
    {<<"grub.cfg", IF job.flavor = "ubuntu" THEN "EFI/ubuntu" ELSE "EFI/BOOT">>}
    \union copyShimOrGrub(job, "shim") \union copyShimOrGrub(job, "grub")
    \union (IF job.model \in {"rpi3", "rpi4", "rpi5"} THEN {<<"firmware", "rpi">>} ELSE {})

createEFIPartitionImage(b) ==
    LET job == raw[b].job
    IN  /\ At(b, "boot") /\ job.efi
        /\ GetModelAndFlavor(job)
        /\ job.arch # "unknown"
        /\ copyShimOrGrub(job, "shim") # {}
        /\ copyShimOrGrub(job, "grub") # {}
        /\ Becomes(b, [raw[b] EXCEPT !.pc = "oem", !.esp = EfiFiles(job),
                       !.parts = <<Part("efi", EfiSize)>> \o @])
        /\ UNCHANGED loop

createBiosPartitionImage(b) ==
    /\ At(b, "boot") /\ ~raw[b].job.efi
    /\ Becomes(b, [raw[b] EXCEPT !.pc = "oem",
                   !.parts = <<Part("bios", BiosSize)>> \o @])
    /\ UNCHANGED loop

\* The OEM partition: the cloud config or a default one, the order to boot
\* into recovery, and the reset that makes the state partition, three times
\* the recovery partition and 100 MB unless a size is configured.
createOemPartitionImage(b) ==
    LET job == raw[b].job
        recovery == raw[b].parts[2].size \div MB
    IN  /\ At(b, "oem")
        /\ job.cc # "missing"
        /\ Becomes(b, [raw[b] EXCEPT !.pc = "choose",
                       !.oem = {"grubenv", "01_reset.yaml"} \union
                               (IF job.cc = "text" THEN {"user config"}
                                ELSE IF job.noDefault THEN {} ELSE {"default config"}),
                       !.state = IF job.state > 0 THEN job.state ELSE 3 * recovery + 100,
                       !.parts = <<@[1], Part("oem", OEMSize), @[2]>>])
        /\ UNCHANGED loop

\* Partitions mode hands the images out one by one and joins nothing.
emitPartitionImages(b) ==
    /\ At(b, "choose") /\ raw[b].job.partitions
    /\ \/ Return(b, [raw[b] EXCEPT !.emitted = {p.name : p \in {raw[b].parts[i] : i \in 1 .. 3}}],
                 "ok")
       \/ \E n \in 0 .. 2 :
            Return(b, [raw[b] EXCEPT !.emitted = {raw[b].parts[i].name : i \in 1 .. n}],
                   "failed")
    /\ UNCHANGED loop

\* A MAAS disk has the partition curtin lands on behind the boot partition.
createCurtinLandingPartitionImage(b) ==
    /\ At(b, "choose") /\ ~raw[b].job.partitions /\ raw[b].job.maas
    /\ \/ Becomes(b, [raw[b] EXCEPT !.pc = "join",
                      !.parts = <<@[1], Part("curtin", 64), @[2], @[3]>>])
       \/ Return(b, raw[b], "failed")
    /\ UNCHANGED loop

NoLanding(b) ==
    /\ At(b, "choose") /\ ~raw[b].job.partitions /\ ~raw[b].job.maas
    /\ Becomes(b, [raw[b] EXCEPT !.pc = "join"])
    /\ UNCHANGED loop

(***************************************************************************)
(* createDiskImage.                                                        *)
(***************************************************************************)
\* One MB, the partitions and one MB, rounded up to a sector.  The partial
\* file of a concatenation that fails is removed.
ConcatFiles(b) ==
    LET files == <<[name |-> "init", size |-> MB]>> \o raw[b].parts
                 \o <<[name |-> "end", size |-> MB]>>
    IN  /\ At(b, "join")
        /\ Becomes(b, [raw[b] EXCEPT !.pc = "table",
                       !.disk = [NoFile EXCEPT !.content = files,
                                 !.size = roundToNearestSector(Concatenated(files).size)]])
        /\ UNCHANGED loop

createDiskImage(b) ==
    /\ At(b, "table")
    /\ Becomes(b, [raw[b] EXCEPT !.disk.table = partitionTable(raw[b].parts),
                   !.pc = IF raw[b].job.efi THEN "size" ELSE "losetup"])
    /\ UNCHANGED loop

(***************************************************************************)
(* installGrubToDisk, for a BIOS disk.                                     *)
(***************************************************************************)
\* Slip: losetup -D before the device is taken.
losetupAfterDetachingAll(b) ==
    /\ At(b, "losetup")
    /\ \E l \in Loops :
         /\ loop' = [m \in Loops |-> IF m = l THEN b ELSE "free"]
         /\ Becomes(b, [raw[b] EXCEPT !.pc = "kpartx", !.loop = l])

losetup(b) ==
    /\ At(b, "losetup")
    /\ \E l \in Loops :
         /\ loop[l] = "free"
         /\ loop' = [loop EXCEPT ![l] = b]
         /\ Becomes(b, [raw[b] EXCEPT !.pc = "kpartx", !.loop = l])

\* The device is released by a deferred call that is registered only once
\* kpartx has succeeded.
kpartx(b) ==
    /\ At(b, "kpartx")
    /\ \/ Becomes(b, [raw[b] EXCEPT !.pc = "mount"])
       \/ Return(b, [raw[b] EXCEPT !.lost = @ \union {"kpartx"}], "failed")
    /\ UNCHANGED loop

\* The third partition of the mapped device.
mountRecovery(b) ==
    /\ At(b, "mount")
    /\ \/ Becomes(b, [raw[b] EXCEPT !.pc = "grub", !.mounted = TRUE])
       \/ Becomes(b, [raw[b] EXCEPT !.pc = "unmap", !.failing = TRUE])
    /\ UNCHANGED loop

Mounted(b) == raw[b].disk.table[3].name

\* grub-install writes the boot sector and the boot partition, its modules
\* and configuration go to what is mounted.
grubInstall(b) ==
    /\ At(b, "grub")
    /\ \/ Becomes(b, [raw[b] EXCEPT !.pc = "unmount",
                      !.disk.grub = (loop[raw[b].loop] = b /\ Mounted(b) = "recovery")])
       \/ Becomes(b, [raw[b] EXCEPT !.pc = "unmount", !.failing = TRUE])
    /\ UNCHANGED loop

\* An unmount that is refused is not noticed: the files below the mount
\* point are removed with the temporary directory.
unmount(b) ==
    /\ At(b, "unmount")
    /\ \/ Becomes(b, [raw[b] EXCEPT !.pc = "unmap", !.mounted = FALSE])
       \/ Becomes(b, [raw[b] EXCEPT !.pc = "unmap", !.lost = @ \union {"unmount"},
                      !.disk.wiped = TRUE])
    /\ UNCHANGED loop

\* Slip: the mapping is removed, the device stays attached.
unmapOnly(b) ==
    LET r == raw[b]
    IN  /\ At(b, "unmap")
        /\ IF r.failing THEN Return(b, r, "failed")
                        ELSE Becomes(b, [r EXCEPT !.pc = "size"])
        /\ UNCHANGED loop

\* kpartx -d, then losetup -d; a failure of either leaves the device attached
\* and fails nothing.
detach(b) ==
    LET r == raw[b]
        On(s) == IF r.failing THEN Return(b, s, "failed")
                              ELSE Becomes(b, [s EXCEPT !.pc = "size"])
    IN  /\ At(b, "unmap")
        /\ \/ /\ ~r.mounted
              /\ loop' = [loop EXCEPT ![r.loop] = "free"]
              /\ On([r EXCEPT !.loop = NoLoop])
           \/ /\ loop' = loop
              /\ On([r EXCEPT !.lost = @ \union {"detach"}])

installGrubToDisk(b) == \/ losetup(b) \/ kpartx(b) \/ mountRecovery(b)
                        \/ grubInstall(b) \/ unmount(b) \/ detach(b)

(***************************************************************************)
(* The finished disk.                                                      *)
(***************************************************************************)
\* Slip: the size in MB is taken for bytes.
truncateInBytes(b) ==
    LET final == raw[b].job.final
    IN  /\ At(b, "size")
        /\ Becomes(b, [raw[b] EXCEPT !.pc = "finalize",
                       !.disk.size = IF final > 0 THEN final ELSE @])
        /\ UNCHANGED loop

truncateToFinalSize(b) ==
    LET final == raw[b].job.final * MB
    IN  /\ At(b, "size")
        /\ Becomes(b, [raw[b] EXCEPT !.pc = "finalize",
                       !.disk.size = IF final > 0 /\ @ < final THEN final ELSE @])
        /\ UNCHANGED loop

\* The files of a board's firmware in the order they are written: the sector
\* each starts at, and whether the whole file is written or only the 442 bytes
\* of boot code in front of the first sector's own table.
Firmware(model) ==
    CASE model = "odroid-c2"   -> <<[at |-> 0, whole |-> FALSE], [at |-> 1, whole |-> TRUE],
                                    [at |-> 97, whole |-> TRUE]>>
      [] model = "pinebookpro" -> <<[at |-> 0, whole |-> TRUE], [at |-> 0, whole |-> TRUE]>>
      [] OTHER                 -> <<>>

\* The partition table starts in sector 1: a write that reaches it destroys it.
DD(disk, writes) ==
    LET hit == \E w \in writes : w.whole /\ w.at <= 1
    IN  [disk EXCEPT !.table = IF hit THEN <<>> ELSE @]

\* Any of the writes may be the last one that is begun, or none; the error is
\* assigned and dropped, and the build goes on to its conversion or succeeds.
FinalizeImage(b) ==
    LET r == raw[b]
        writes == Firmware(r.job.model)
    IN  /\ At(b, "finalize")
        /\ \E n \in 0 .. Len(writes) :
             LET made == [r EXCEPT !.disk = DD(@, {writes[i] : i \in 1 .. n})]
             IN  IF r.job.to = "raw" THEN Return(b, made, "ok")
                                     ELSE Becomes(b, [made EXCEPT !.pc = "convert"])
        /\ UNCHANGED loop

\* Raw2Azure appends a footer, Raw2Gce grows the disk.
Raw2(b) ==
    LET r == raw[b]
        size == IF r.job.to = "vhd" THEN azureSize(r.disk.size) ELSE gceSize(r.disk.size)
    IN  /\ At(b, "convert")
        /\ Return(b, [r EXCEPT !.disk.size = size,
                      !.vhd = IF r.job.to = "vhd" THEN <<newVHDFixed(size)>> ELSE <<>>], "ok")
        /\ UNCHANGED loop

\* The host takes and releases loop devices of its own.
HostLoop ==
    /\ \E l \in Loops : \/ loop[l] = "free" /\ loop' = [loop EXCEPT ![l] = "host"]
                        \/ loop[l] = "host" /\ loop' = [loop EXCEPT ![l] = "free"]
    /\ UNCHANGED raw

Build(b) ==
    \/ createRecoveryPartitionImage(b)
    \/ createEFIPartitionImage(b) \/ createBiosPartitionImage(b)
    \/ createOemPartitionImage(b)
    \/ emitPartitionImages(b)
    \/ createCurtinLandingPartitionImage(b) \/ NoLanding(b)
    \/ ConcatFiles(b) \/ createDiskImage(b) \/ installGrubToDisk(b)
    \/ truncateToFinalSize(b) \/ FinalizeImage(b) \/ Raw2(b)
    \/ \E pc \in {"recovery", "boot", "oem", "join", "table", "losetup",
                  "size", "convert"} : Fails(b, pc)

RawNext == HostLoop \/ \E b \in Builds : Build(b)

(***************************************************************************)
(* Properties.                                                             *)
(***************************************************************************)

\* The boards whose firmware is written over the partition table, which
\* leaves them without one: what is said of tables leaves them out.
BoardsWithoutTable == {"odroid-c2", "pinebookpro"}

\* A disk that is reported as made has a table with an entry for each of its
\* partitions, unless it is for one of BoardsWithoutTable.  Where there is a
\* table, the range it gives a partition is the range its image was copied to,
\* and the disk, whatever size it was asked to have and whatever it was
\* converted to, holds all of them and the backup table behind them.
TableMatches(r) ==
    LET disk == r.disk
        at == Concatenated(disk.content).at
    IN  /\ r.res = "ok" /\ ~r.job.partitions /\ r.job.model \notin BoardsWithoutTable =>
             DOMAIN disk.table = DOMAIN r.parts
        /\ \A i \in DOMAIN disk.table :
             /\ disk.table[i].name = disk.content[i + 1].name
             /\ disk.table[i].start * Sector = at[i + 1]
             /\ (disk.table[i].end + 1) * Sector = at[i + 1] + disk.content[i + 1].size
        /\ disk.size >= Concatenated(disk.content).size

\* A build that is attached to a loop device finds its own disk behind it,
\* whatever the other builds and the host do with theirs.
Attached == {"kpartx", "mount", "grub", "unmount", "unmap"}
LoopDeviceIsMine == \A b \in Builds : raw[b].pc \in Attached => loop[raw[b].loop] = b

\* A device a build has attached is released when the build ends, unless
\* kpartx or losetup refused: devices do not run out by building.
LoopDeviceReturned ==
    \A l \in Loops, b \in Builds :
      loop[l] = b /\ raw[b].pc \notin Attached => raw[b].lost \intersect {"kpartx", "detach"} # {}

\* Why both hold, as an inductive invariant: a build knows which device it is attached to,
\* and has no other unless it gave one up.
LoopInv ==
    /\ DOMAIN raw = Builds /\ loop \in [Loops -> Builds \union {"host", "free"}]
    /\ \A b \in Builds : raw[b].pc \in Attached => raw[b].loop \in Loops /\ loop[raw[b].loop] = b
    /\ \A l \in Loops, b \in Builds :
         loop[l] = b => \/ raw[b].pc \in Attached /\ raw[b].loop = l
                       \/ raw[b].lost \intersect {"kpartx", "detach"} # {}

\* A disk that is reported as made boots and resets: its firmware finds a
\* loader of its architecture and the configuration that loader reads, or
\* grub in the boot sector; the recovery image holds the rootfs, its partition
\* a second image beside it for an upgrade, and the state partition three;
\* and the cloud config handed in is the one on it.  Left out by name: an
\* architecture other than the two there are loaders for (a riscv64 disk gets
\* the loader of amd64), and a disk whose recovery partition was not unmounted.
BootsAndResets(r) ==
    LET Recovery == CHOOSE p \in {r.parts[i] : i \in DOMAIN r.parts} : p.name = "recovery"
    IN  r.res = "ok" /\ "unmount" \notin r.lost =>
          /\ IF r.job.efi
             THEN /\ r.job.arch \in {"amd64", "arm64"} => <<"loader", r.job.arch>> \in r.esp
                  /\ r.job.flavor # "alpine" => <<"grub", r.job.arch>> \in r.esp
                  /\ <<"grub.cfg", IF r.job.flavor = "ubuntu" THEN "EFI/ubuntu"
                                                            ELSE "EFI/BOOT">> \in r.esp
             ELSE r.disk.grub
          /\ r.image >= r.job.source
          /\ Recovery.size >= 2 * r.image * MB
          /\ r.job.state = 0 => r.state >= 3 * r.image
          /\ r.job.cc = "text" <=> "user config" \in r.oem
          /\ ~r.disk.wiped
          /\ r.job.partitions => r.emitted = {"efi", "oem", "recovery"}
          /\ r.job.maas /\ ~r.job.partitions =>
               \E i \in DOMAIN r.disk.content : r.disk.content[i].name = "curtin"

\* A disk converted for Azure is a whole number of MB with a geometry its
\* footer can express, which reaches no further than the disk and falls short
\* of it by less than a cylinder, up to the largest one there is; a GCE disk
\* is a whole number of GB.
CloudDiskIsValid(r) ==
    LET sectors == r.disk.size \div Sector
    IN  r.res = "ok" =>
          /\ r.job.to = "vhd" =>
               LET g == r.vhd[1].geometry
                   cylinder == g.heads * g.track
               IN  /\ r.vhd[1].size = r.disk.size /\ r.disk.size % MB = 0
                   /\ g.cylinders \in Nat /\ g.cylinders <= 65535 /\ g.heads \in 1 .. 16
                   /\ g.track \in {17, 31, 63, 255}
                   /\ g.cylinders * cylinder <= sectors
                   /\ g.cylinders = 65535 \/ (g.cylinders + 1) * cylinder > sectors
          /\ r.job.to = "gce" => r.disk.size % GB = 0

\* A raw disk that Build reports as made is what it should be: its table describes
\* its bytes, it boots and can reset itself, and its cloud formats are valid, each with
\* the exceptions named above.
RawDiskIsRight ==
    \A b \in Builds : TableMatches(raw[b]) /\ BootsAndResets(raw[b]) /\ CloudDiskIsValid(raw[b])

\* Why it holds, as an inductive invariant of each build.  The partitions are those of the
\* job up to the step at hand; the disk, once joined, is made of all of them, and its table
\* is theirs until the firmware of a board is written over it; grub was installed unless
\* the build is about to fail.
Past(r, pcs) == r.res = "ok" \/ r.pc \notin pcs \union {"end"}
Mapped == {"losetup"} \union Attached
Unjoined == {"recovery", "boot", "oem", "choose", "join"}
HasDisk == {"table", "size", "finalize", "convert"} \union Mapped

BootPart(job) == IF job.efi THEN Part("efi", EfiSize) ELSE Part("bios", BiosSize)
RecoveryPart(r) == Part("recovery", recoveryPartitionSize(r.image))
PartsOf(r) ==
    IF r.job.maas /\ ~r.job.partitions
    THEN <<BootPart(r.job), Part("curtin", 64), Part("oem", OEMSize), RecoveryPart(r)>>
    ELSE <<BootPart(r.job), Part("oem", OEMSize), RecoveryPart(r)>>
FilesOf(parts) ==
    <<[name |-> "init", size |-> MB]>> \o parts \o <<[name |-> "end", size |-> MB]>>

PartInv(r) ==
    /\ r.image \in Nat /\ r.state \in Nat
    /\ Past(r, {"recovery"}) => r.image >= r.job.source
    /\ r.pc = "boot" => r.parts = <<RecoveryPart(r)>>
    /\ r.pc = "oem" => r.parts = <<BootPart(r.job), RecoveryPart(r)>>
    /\ r.pc = "choose" => r.parts = <<BootPart(r.job), Part("oem", OEMSize), RecoveryPart(r)>>
    /\ Past(r, {"recovery", "boot", "oem", "choose"}) => r.parts = PartsOf(r)
    /\ r.pc \in HasDisk \union {"join"} => ~r.job.partitions
ContentInv(r) ==
    /\ Past(r, {"recovery", "boot"}) /\ r.job.efi =>
         /\ r.esp = EfiFiles(r.job)
         /\ copyShimOrGrub(r.job, "shim") # {} /\ copyShimOrGrub(r.job, "grub") # {}
    /\ Past(r, {"recovery", "boot", "oem"}) =>
         /\ r.job.cc = "text" <=> "user config" \in r.oem
         /\ r.job.state = 0 => r.state >= 3 * r.image
    /\ r.res = "ok" /\ r.job.partitions => r.emitted = {"efi", "oem", "recovery"}
TableInv(r) ==
    /\ r.disk.size \in Nat /\ r.disk.size % Sector = 0
    /\ r.pc \in Unjoined => r.disk.content = <<>>
    /\ r.pc \in HasDisk \/ (r.res = "ok" /\ ~r.job.partitions) => r.disk.content # <<>>
    /\ r.disk.content = <<>> \/ r.disk.content = FilesOf(PartsOf(r))
    /\ r.disk.table = <<>> \/ (r.disk.content # <<>> /\ r.disk.table = partitionTable(PartsOf(r)))
    /\ r.pc \in Mapped \union {"size", "finalize"} => r.disk.table # <<>>
    /\ r.pc = "convert" \/ (r.res = "ok" /\ ~r.job.partitions) =>
         r.disk.table # <<>> \/ r.job.model \in BoardsWithoutTable
    /\ r.disk.size >= Concatenated(r.disk.content).size
GrubInv(r) ==
    /\ r.pc \in Mapped => ~r.job.efi
    /\ r.failing => r.pc \in {"unmount", "unmap", "end"} /\ r.res # "ok"
    /\ r.disk.wiped => "unmount" \in r.lost
    /\ ~r.job.efi /\ ~r.failing /\ (r.pc \in {"unmount", "unmap", "size", "finalize", "convert"}
                                   \/ r.res = "ok") => r.disk.grub
CloudInv(r) ==
    r.res = "ok" =>
      /\ r.job.to = "vhd" => r.disk.size % MB = 0 /\ r.vhd = <<newVHDFixed(r.disk.size)>>
      /\ r.job.to = "gce" => r.disk.size % GB = 0

BuildInv(r) ==
    /\ r.pc \in Pcs /\ r.res \in Results /\ (r.res # "none" => r.pc = "end")
    /\ r.job \in RawImage
    /\ PartInv(r) /\ ContentInv(r) /\ TableInv(r) /\ GrubInv(r) /\ CloudInv(r)
NoBuild(r) == r.pc = "end" /\ r.res = "none" /\ r.disk = NoFile /\ r.image = 0 /\ r.state = 0
RawInv ==
    \A b \in Builds : IF raw[b].job = NoJob THEN NoBuild(raw[b]) ELSE BuildInv(raw[b])
=============================================================================
