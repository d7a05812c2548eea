--------------------------- MODULE MCImageBuilders --------------------------
(***************************************************************************)
(* Making images on one host: two raw disk builds that share its loop      *)
(* devices, or an ISO build, or a UKI build, or the graph of steps that    *)
(* calls such builders.  They share nothing with each other and each is    *)
(* explored on its own.                                                    *)
(***************************************************************************)
EXTENDS RawDisk, IsoBuild, UkiBuild, ImagePipeline, TLC

CONSTANTS b1, b2

builders == <<raw, loop, iso, uki>>
vars == <<builders, pipeVars>>

(***************************************************************************)
(* Raw disks.  One of the jobs is the plain one with a field changed.      *)
(***************************************************************************)
Plain == [efi |-> TRUE, partitions |-> FALSE, maas |-> FALSE, to |-> "raw",
          arch |-> "amd64", flavor |-> "ubuntu", model |-> "generic",
          rootfs |-> {"shim", "grub"}, cc |-> "text", noDefault |-> FALSE,
          source |-> 500, recovery |-> 0, state |-> 0, final |-> 0]

With(job, changes) == changes @@ job

Sized == {With(Plain, [to |-> to, recovery |-> recovery, final |-> final]) :
            to \in {"raw", "vhd", "gce"}, recovery \in {0, 400, 600},
            final \in {0, 501, 2051, 16001, 140001}}

Flavors == {With(Plain, [partitions |-> how = "partitions", maas |-> how = "maas",
                         arch |-> arch, flavor |-> flavor]) :
              how \in {"partitions", "maas", "disk"}, arch \in {"amd64", "arm64", "riscv64", "unknown"},
              flavor \in {"ubuntu", "alpine", "opensuse", "unknown"}}

Odd == {With(Plain, [rootfs |-> {"shim"}]), With(Plain, [rootfs |-> {"grub"}]),
        With(Plain, [model |-> "rpi4", arch |-> "arm64"]),
        With(Plain, [source |-> 150, state |-> 900]),
        With(Plain, [cc |-> "missing"]), With(Plain, [cc |-> "empty"]),
        With(Plain, [cc |-> "empty", noDefault |-> TRUE])}

\* Boards with firmware of their own in front of the first partition.
Boards == {With(Plain, [model |-> model, arch |-> "arm64", to |-> to]) :
             model \in {"odroid-c2", "pinebookpro"}, to \in {"raw", "vhd", "gce"}}

Bios == {With(Plain, [efi |-> FALSE, final |-> final]) : final \in {0, 2051}}

One(job) == [b \in Builds |-> IF b = b1 THEN job ELSE NoJob]
None == One(NoJob)

MCRawJobs == {One(job) : job \in Sized \union Flavors \union Odd \union Boards}
             \union [Builds -> Bios]

(***************************************************************************)
(* ISOs.                                                                   *)
(***************************************************************************)
Kernel == {"kernel", "initrd"}

MCIsoJobs ==
    {[arch |-> arch, flavor |-> flavor, rootfs |-> rootfs, overlay |-> overlay,
      cc |-> cc, old |-> old] :
        arch \in {"amd64", "arm64", "other"}, flavor \in {"ubuntu", "alpine"},
        rootfs \in {{}, Kernel, Kernel \union {"shim"}, Kernel \union {"shim", "grub"},
                    Kernel \union {"shim", "grub.signed"},
                    Kernel \union {"shim", "grub.signed", "gcd.signed"}},
        overlay \in {{}, {"menu of the overlay"}}, cc \in BOOLEAN, old \in {{}, {"disc", "sum"}, {"sum"}}}
    \union
    {[arch |-> "riscv64", flavor |-> "opensuse", rootfs |-> Kernel \union {"grub"},
      overlay |-> {}, cc |-> TRUE, old |-> {}]}

(***************************************************************************)
(* UKIs.  The names of the command lines of a job are distinct.            *)
(***************************************************************************)
Extra == {<<>>, <<[adds |-> "x", name |-> "x"]>>,
          <<[adds |-> "x", name |-> "x"], [adds |-> "y", name |-> "y"]>>}
Single == {<<>>, <<[adds |-> "s", name |-> "s", titled |-> TRUE],
                   [adds |-> "t", name |-> "t", titled |-> FALSE]>>}

UkiRootfs == {"release", "usr", "boot/vmlinuz", "boot/initrd", "sys", "tmp", "sdboot"}

PlainUki == [out |-> "iso", arch |-> "amd64", keys |-> "complete", extra |-> <<>>,
             extend |-> FALSE, single |-> <<>>, v2 |-> FALSE, rootfs |-> UkiRootfs,
             sdBootInSource |-> FALSE, overlayISO |-> FALSE, signing |-> TRUE]

MCUkiJobs ==
    {With(PlainUki, [out |-> out, extra |-> extra, extend |-> extend, single |-> single,
                     v2 |-> v2]) :
        out \in {"iso", "container", "uki"}, extra \in Extra, extend \in BOOLEAN,
        single \in Single, v2 \in BOOLEAN}
    \union {With(PlainUki, [arch |-> arch, keys |-> keys, overlayISO |-> TRUE, out |-> out]) :
              arch \in {"amd64", "arm64", "riscv64", "other"},
              keys \in {"complete", "none", "partial"}, out \in {"iso", "uki"}}
    \union {With(PlainUki, [sdBootInSource |-> TRUE, rootfs |-> UkiRootfs \ {gone}]) :
              gone \in {"nothing", "sdboot", "release", "boot/vmlinuz"}}
    \union {With(PlainUki, [rootfs |-> UkiRootfs \union {"init"}]),
            With(PlainUki, [signing |-> FALSE])}

(***************************************************************************)
(* Pipelines.                                                              *)
(***************************************************************************)
Configured(caller, image, state, disks, off, cloud, oldCC, oldISO, oldRaw, prefix) ==
    [caller |-> caller, image |-> image, state |-> state, disks |-> disks,
     off |-> off, cloud |-> cloud, oldCC |-> oldCC, oldISO |-> oldISO,
     oldRaw |-> oldRaw, prefix |-> prefix]

\* Raw disk builds of the commands and of the fleet server: one firmware and
\* at most one conversion, into a destination earlier builds have used.
DiskConfigs ==
    {Configured(caller, TRUE, "set", disks, off, cloud, oldCC, {}, oldRaw, "unset") :
        caller \in {"cli", "web"},
        disks \in {{"efi"}, {"bios"}, {"partitions"}, {"gce"}, {"efi", "vhd"}, {"maas"}},
        off \in {{"iso", "netboot", "http"}},
        cloud \in {"new", "empty"}, oldCC \in {"none", "old"},
        oldRaw \in {{}, {"this"}, {"other"}}}

\* ISO and netboot builds, into a destination without ISOs of other builds.
ISOConfigs ==
    {Configured(caller, image, "set", {}, off, cloud, oldCC, {}, {}, "unset") :
        caller \in {"cli", "web"}, image \in BOOLEAN,
        off \in SUBSET {"iso", "netboot", "http"},
        cloud \in {"new", "empty"}, oldCC \in {"none", "old"}}

BuildISOConfigs ==
    {Configured("build-iso", TRUE, "set", {}, {}, cloud, "old", oldISO, {}, "unset") :
        cloud \in {"new", "empty"}, oldISO \in SUBSET ISONames}

\* What the code accepts and cannot deliver, by itself or with a state_dir filled in late.
AllOff == {"iso", "netboot", "http"}
OddConfigs ==
    {Configured("web", image, "later", disks, AllOff, "new", "old", {}, oldRaw, "unset") :
        image \in BOOLEAN, disks \in {{"efi"}, {"bios"}, {"maas"}}, oldRaw \in {{}, {"other"}}}
    \union
    {Configured("web", TRUE, "set", disks, AllOff, "new", "old", {}, oldRaw, "unset") :
        disks \in {{"efi", "bios"}, {"gce", "vhd"}, {"gce", "maas"}, {"vhd", "maas"}, {"partitions", "maas"},
                   {"partitions", "bios"}}, oldRaw \in {{}, {"this"}, {"other"}}}
    \union
    {Configured("cli", image, state, {}, {"http"}, cloud, "old", oldISO, {}, prefix) :
        image \in BOOLEAN, state \in {"set", "later"}, cloud \in {"new", "empty"},
        oldISO \in SUBSET ISONames, prefix \in {"kairos", "named"}}

Refused == {Configured("cli", TRUE, "set", {"partitions", "vhd"}, {}, "new", "none",
                   {}, {}, "unset")}

MCConfigs == DiskConfigs \union ISOConfigs \union BuildISOConfigs \union OddConfigs \union Refused

NoPipeline == PipeInit(Refused, "rejected")

Init == \/ RawInit(RawJobs) /\ IsoInit({NoIsoJob}) /\ UkiInit({NoUkiJob}) /\ NoPipeline
        \/ RawInit({None}) /\ IsoInit(IsoJobs) /\ UkiInit({NoUkiJob}) /\ NoPipeline
        \/ RawInit({None}) /\ IsoInit({NoIsoJob}) /\ UkiInit(UkiJobs) /\ NoPipeline
        \/ RawInit({None}) /\ IsoInit({NoIsoJob}) /\ UkiInit({NoUkiJob})
           /\ PipeInit(Configs, "new")

Next == \/ raw[b1].job # NoJob /\ RawNext /\ UNCHANGED <<iso, uki, pipeVars>>
        \/ IsoNext /\ UNCHANGED <<raw, loop, uki, pipeVars>>
        \/ UkiNext /\ UNCHANGED <<raw, loop, iso, pipeVars>>
        \/ PipeNext /\ UNCHANGED builders

Spec == Init /\ [][Next]_vars /\ PipeFairness

\* A builder that has returned, whichever way, has removed its working
\* directories, each as large as a rootfs, from the machine; of the two it
\* misses, one is small and the other is left by a failed tar.
WorkingDirsRemoved ==
    /\ iso.res # "none" => iso.tmp \subseteq {"efi"}
    /\ uki.res # "none" => uki.tmp \subseteq {"image.tar"}

\* What a build borrows of its machine it gives back, on its error paths too: loop
\* devices, working directories, and the files of a command in its destination.
CleansUp == LoopDeviceReturned /\ WorkingDirsRemoved /\ NothingLeftBehind

\* The types of the builders' variables.
TypeOK == RawTypeOK /\ IsoTypeOK /\ UkiTypeOK /\ PipeTypeOK
=============================================================================
