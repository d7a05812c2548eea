------------------------------ MODULE UkiBuild ------------------------------
(***************************************************************************)
(* uki.Build: a rootfs becomes a unified kernel image per command line,    *)
(* with the boot entries, loader and keys around them, as a directory, an  *)
(* ISO or a container (pkg/uki/uki.go).                                    *)
(*                                                                         *)
(* Everything is made inside the unpacked rootfs: what is in it at which   *)
(* moment decides what ends up in the initramfs.  Every call that can fail *)
(* may fail.                                                               *)
(***************************************************************************)
EXTENDS Integers, Sequences, FiniteSets

CONSTANTS
    UkiJobs,    \* what is asked for: records, see UkiAssumption
    NoUkiJob

VARIABLE
    uki         \* the state of the build

UkiPcs == {"validate", "deps", "extract", "version", "setup", "kernel", "initramfs",
           "resolve", "ukify", "conf", "loader", "collect", "image", "burn", "tar",
           "end"}

UkiTypeOK ==
    /\ uki.job \in UkiJobs \union {NoUkiJob}
    /\ uki.pc \in UkiPcs
    /\ uki.res \in {"none", "ok", "failed"}
    /\ uki.next \in 1 .. Len(uki.entries) + 1
    /\ uki.tmp \subseteq {"artifacts", "source", "iso", "transient", "image.tar"}

NoFiles == [efis |-> {}, confs |-> {}, plain |-> {}]

UkiInit(jobs) ==
    \E job \in jobs :
      uki = [job |-> job, pc |-> IF job = NoUkiJob THEN "end" ELSE "validate",
             src |-> {}, initrd |-> {}, entries |-> <<>>, next |-> 1,
             efis |-> {}, confs |-> {}, files |-> NoFiles, out |-> NoFiles,
             tmp |-> {}, res |-> "none"]

(***************************************************************************)
(* How a step goes on.                                                     *)
(***************************************************************************)
\* Deferred removals; the tarball's is registered after it has been written.
UkiReturn(s, how) == uki' = [s EXCEPT !.pc = "end", !.res = how, !.tmp = @ \intersect {"image.tar"}]

UkiAt(pc) == uki.pc = pc

UkiGoes(from, s) == UkiAt(from) /\ (uki' = s \/ UkiReturn(uki, "failed"))

UkiRefused(from, because) == UkiAt(from) /\ because /\ UkiReturn(uki, "failed")

(***************************************************************************)
(* Options.                                                                *)
(***************************************************************************)
validate(job) ==
    /\ ~(job.extra # <<>> /\ job.extend)
    /\ job.overlayISO => job.out = "iso"
    /\ job.signing
    /\ job.keys \in {"none", "complete"}

Validated == \/ validate(uki.job) /\ UkiGoes("validate", [uki EXCEPT !.pc = "deps"])
             \/ UkiRefused("validate", ~validate(uki.job))

KnownArch(arch) == arch \in {"amd64", "arm64", "riscv64"}

\* The tools and the bundled systemd-boot of the architecture.
checkBuildUKIDeps ==
    \/ /\ KnownArch(uki.job.arch)
       /\ UkiGoes("deps", [uki EXCEPT !.pc = "extract", !.tmp = {"artifacts", "source"}])
    \/ UkiRefused("deps", ~KnownArch(uki.job.arch))

(***************************************************************************)
(* The rootfs and what is taken out of it.                                 *)
(***************************************************************************)
DumpSources == UkiGoes("extract", [uki EXCEPT !.pc = "version", !.src = uki.job.rootfs])

findKairosVersion ==
    \/ "release" \in uki.src /\ UkiGoes("version", [uki EXCEPT !.pc = "setup"])
    \/ UkiRefused("version", "release" \notin uki.src)

\* The link init is created, never replaced.
setupDirectoriesAndFiles ==
    \/ "init" \notin uki.src /\
       UkiGoes("setup", [uki EXCEPT !.pc = "kernel", !.src = @ \union {"init", "dirs"}])
    \/ UkiRefused("setup", "init" \in uki.src)

\* Slip: the boot directory stays.
copyKernelKeepingBoot ==
    \/ /\ "boot/vmlinuz" \in uki.src
       /\ UkiGoes("kernel", [uki EXCEPT !.pc = "initramfs"])
    \/ UkiRefused("kernel", "boot/vmlinuz" \notin uki.src)

\* The boot directory is removed once the kernel has been copied out of it.
copyKernel ==
    \/ /\ "boot/vmlinuz" \in uki.src
       /\ UkiGoes("kernel", [uki EXCEPT !.pc = "initramfs",
                             !.src = @ \ {"boot/vmlinuz", "boot/initrd"}])
    \/ UkiRefused("kernel", "boot/vmlinuz" \notin uki.src)

Virtual == {"sys", "run", "dev", "tmp", "proc"}

createInitramfs ==
    UkiGoes("initramfs", [uki EXCEPT !.pc = "resolve", !.initrd = uki.src \ Virtual])

(***************************************************************************)
(* The boot entries.  A command line is a record: what it adds to the      *)
(* default one, and the name its characters leave over.  A file name is a  *)
(* pair of the base it starts with and that name, Bare for a base alone.   *)
(***************************************************************************)
Bare == "bare"

NameFromCmdline(base, cmdline) == <<base, cmdline.name>>

GetUkiCmdline(job) ==
    IF job.extend THEN <<[adds |-> "extend", file |-> <<"norole", Bare>>]>>
    ELSE <<[adds |-> "nothing", file |-> <<"norole", Bare>>]>> \o
         (IF job.v2 THEN <<>>
          ELSE [i \in 1 .. Len(job.extra) |->
                  [adds |-> job.extra[i].adds,
                   file |-> NameFromCmdline("norole", job.extra[i])]])

\* A titled entry is named after its title, the others after their text.
GetUkiSingleCmdlines(job) ==
    [i \in 1 .. Len(job.single) |->
       [adds |-> job.single[i].adds,
        file |-> IF job.single[i].titled THEN <<job.single[i].name, Bare>>
                 ELSE NameFromCmdline("single_entry", job.single[i])]]

Entries(job) == GetUkiCmdline(job) \o GetUkiSingleCmdlines(job)

\* The files of a rootfs that are told apart.
SourceFiles == {"release", "usr", "boot/vmlinuz", "boot/initrd", "sys", "run", "dev", "tmp",
                "proc", "sdboot", "init"}

\* The command lines of a job have names of their own.
ASSUME UkiAssumption ==
    \A job \in UkiJobs :
      /\ job.rootfs \subseteq SourceFiles
      /\ job.extra \in Seq([adds : STRING, name : STRING])
      /\ job.single \in Seq([adds : STRING, name : STRING, titled : BOOLEAN])
      /\ \A i, j \in 1 .. Len(Entries(job)) :
           Entries(job)[i].file = Entries(job)[j].file => i = j

\* systemd-boot and its stub, bundled or from the rootfs.
resolveSdBootFiles ==
    \/ /\ ~uki.job.sdBootInSource \/ "sdboot" \in uki.src
       /\ UkiGoes("resolve", [uki EXCEPT !.pc = "ukify",
                              !.entries = Entries(uki.job)])
    \/ UkiRefused("resolve", uki.job.sdBootInSource /\ "sdboot" \notin uki.src)

\* In the multi-profile format the extra command lines are profiles of every
\* entry instead of entries.
Profiles(job) == IF job.v2 THEN 0 .. Len(job.extra) ELSE {0}

\* The .efi of an entry and its configurations, one per profile.
EfiOf(job, e) == [file |-> e.file, adds |-> e.adds, profiles |-> Profiles(job)]
ConfsOf(job, e) == {[efi |-> e.file, profile |-> p] : p \in Profiles(job)}

\* go-ukify: one .efi, replaced when there is one of that name, and the loader
\* under the name the firmware of the architecture runs.
ukify ==
    LET e == uki.entries[uki.next]
    IN  UkiGoes("ukify", [uki EXCEPT !.pc = "conf",
                          !.efis = {f \in @ : f.file # e.file} \union {EfiOf(uki.job, e)},
                          !.src = @ \union {uki.job.arch}])

\* A configuration is named after the .efi and the profile.
createConfFiles ==
    LET e == uki.entries[uki.next]
    IN  UkiGoes("conf", [uki EXCEPT !.next = @ + 1,
                         !.confs = @ \union ConfsOf(uki.job, e),
                         !.pc = IF uki.next = Len(uki.entries) THEN "loader" ELSE "ukify"])

createSystemdConf ==
    UkiGoes("loader", [uki EXCEPT !.pc = "collect", !.src = @ \union {"loader.conf"}])

(***************************************************************************)
(* The output.                                                             *)
(***************************************************************************)
\* The files that make up the output.  The keys are always listed; so is the
\* amd64 loader unless the architecture is arm64.
imageFiles ==
    [efis |-> {f \in uki.efis : \E i \in DOMAIN uki.entries : uki.entries[i].file = f.file},
     confs |-> uki.confs,
     plain |-> {"loader.conf", "keys", IF uki.job.arch = "arm64" THEN "arm64" ELSE "amd64"}]

\* A listed file that is not there is an error of whoever copies it.
AllThere == imageFiles.plain \subseteq
              uki.src \union (IF uki.job.keys = "complete" THEN {"keys"} ELSE {})

\* A directory is the output itself; a container's is packed afterwards.
createArtifact ==
    /\ UkiAt("collect") /\ uki.job.out # "iso"
    /\ \/ /\ AllThere /\ uki.job.out = "uki"
          /\ UkiReturn([uki EXCEPT !.out = imageFiles], "ok")
       \/ /\ AllThere /\ uki.job.out = "container"
          /\ uki' = [uki EXCEPT !.files = imageFiles, !.pc = "tar",
                                !.tmp = @ \union {"transient", "image.tar"}]
       \/ UkiReturn(uki, "failed")

createContainer ==
    /\ UkiAt("tar")
    /\ \/ UkiReturn([uki EXCEPT !.out = uki.files, !.tmp = @ \ {"image.tar"}], "ok")
       \/ UkiReturn([uki EXCEPT !.tmp = @ \ {"image.tar"}], "failed")
       \/ UkiReturn(uki, "failed")

\* An image sized for the files, its directories and the files in them.
createISO ==
    /\ UkiAt("collect") /\ uki.job.out = "iso"
    /\ \/ /\ AllThere
          /\ uki' = [uki EXCEPT !.pc = "image", !.tmp = @ \union {"iso"}]
       \/ UkiReturn(uki, "failed")

copyFilesToImg == UkiGoes("image", [uki EXCEPT !.pc = "burn", !.files = imageFiles])

burnUkiISO ==
    /\ UkiAt("burn")
    /\ \/ UkiReturn([uki EXCEPT !.out = uki.files], "ok")
       \/ UkiReturn(uki, "failed")

UkiNext ==
    /\ uki.job # NoUkiJob
    /\ \/ Validated \/ checkBuildUKIDeps \/ DumpSources \/ findKairosVersion
       \/ setupDirectoriesAndFiles \/ copyKernel \/ createInitramfs
       \/ resolveSdBootFiles \/ ukify \/ createConfFiles \/ createSystemdConf
       \/ createArtifact \/ createContainer \/ createISO \/ copyFilesToImg \/ burnUkiISO

(***************************************************************************)
(* Properties.                                                             *)
(***************************************************************************)

\* The initramfs is the rootfs with its init: nothing of the old boot
\* directory, of virtual file systems, or of the images built around it,
\* although all of them are in the same directory at some moment.
InitramfsIsTheRootfs ==
    uki.initrd # {} => uki.initrd = (uki.job.rootfs \ (Virtual \union {"boot/vmlinuz", "boot/initrd"}))
                                    \union {"init", "dirs"}

\* Every command line that was asked for can be chosen and boots: the output
\* has an .efi, or a profile of every .efi, made for it, each entry of the
\* menu names one that is there, each one that is there is named, and the
\* firmware finds its loader and the keys to enrol.
EveryCmdlineBoots ==
    LET job == uki.job
        out == uki.out
    IN  uki.res = "ok" =>
          /\ \A c \in out.confs : \E f \in out.efis : c.efi = f.file /\ c.profile \in f.profiles
          /\ \A f \in out.efis : \A p \in f.profiles : [efi |-> f.file, profile |-> p] \in out.confs
          /\ \A i \in 1 .. Len(job.single) : \E f \in out.efis : f.adds = job.single[i].adds
          /\ IF job.v2
             THEN \A f \in out.efis : Cardinality(f.profiles) = Len(job.extra) + 1
             ELSE \A i \in 1 .. Len(job.extra) : \E f \in out.efis : f.adds = job.extra[i].adds
          /\ \E f \in out.efis : f.adds = IF job.extend THEN "extend" ELSE "nothing"
          /\ {"loader.conf", "keys", job.arch} \subseteq out.plain

\* A UKI that Build reports as made carries the rootfs and nothing of its own making,
\* and has an entry that boots for every command line.
UkiIsRight == InitramfsIsTheRootfs /\ EveryCmdlineBoots

\* Why it holds, as an inductive invariant.  The rootfs is what the steps so far have made
\* of it; entry by entry the .efi files and configurations are those of the entries behind
\* uki.next, none of which replaced another; the output is all of them.
Later == {"loader", "collect", "image", "burn", "tar"}
Source(job) == job.rootfs \union {"init", "dirs"}
Behind == IF uki.pc = "conf" THEN uki.next ELSE uki.next - 1
EfisUpTo(job, n) == {EfiOf(job, Entries(job)[i]) : i \in 1 .. n}
ConfsUpTo(job, n) == UNION {ConfsOf(job, Entries(job)[i]) : i \in 1 .. n}
OutputOf(job) ==
    [efis |-> EfisUpTo(job, Len(Entries(job))), confs |-> ConfsUpTo(job, Len(Entries(job))),
     plain |-> {"loader.conf", "keys", IF job.arch = "arm64" THEN "arm64" ELSE "amd64"}]

UkiTidy ==
    /\ uki.res # "none" => uki.pc = "end" /\ uki.tmp \subseteq {"image.tar"}
    /\ uki.job = NoUkiJob => uki.pc = "end" /\ uki.res = "none" /\ uki.initrd = {}
SourceInv ==
    /\ uki.src \subseteq Source(uki.job) \union {"loader.conf", uki.job.arch}
    /\ uki.pc \in {"version", "setup"} => uki.src = uki.job.rootfs
    /\ uki.pc = "kernel" => uki.src = Source(uki.job)
    /\ uki.pc = "initramfs" => uki.src = Source(uki.job) \ {"boot/vmlinuz", "boot/initrd"}
    /\ InitramfsIsTheRootfs
EntryInv ==
    /\ uki.pc \in {"deps", "extract", "version", "setup", "kernel", "initramfs", "resolve",
                   "ukify", "conf"} \union Later => validate(uki.job)
    /\ uki.pc \notin {"ukify", "conf", "end"} \union Later =>
         uki.next = 1 /\ uki.efis = {} /\ uki.confs = {}
    /\ uki.pc \in {"ukify", "conf"} \union Later =>
         /\ uki.entries = Entries(uki.job)
         /\ uki.efis = EfisUpTo(uki.job, Behind)
         /\ uki.confs = ConfsUpTo(uki.job, uki.next - 1)
    /\ uki.pc \in {"ukify", "conf"} => uki.next \in 1 .. Len(uki.entries)
    /\ uki.pc \in Later => uki.next = Len(uki.entries) + 1
OutputInv ==
    /\ uki.pc \in {"image", "burn", "tar"} \/ uki.res = "ok" => uki.job.arch \in OutputOf(uki.job).plain
    /\ uki.pc \in {"burn", "tar"} => uki.files = OutputOf(uki.job)
    /\ uki.res = "ok" => validate(uki.job) /\ uki.out = OutputOf(uki.job)
UkiInv == UkiTidy /\ (uki.job # NoUkiJob => SourceInv /\ EntryInv /\ OutputInv)
=============================================================================
