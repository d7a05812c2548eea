------------------------------ MODULE IsoBuild ------------------------------
(***************************************************************************)
(* BuildISOAction.ISORun: a rootfs and its overlays become a live ISO that *)
(* boots from CD and USB, under BIOS and UEFI (pkg/ops/iso.go).            *)
(*                                                                         *)
(* A directory or image is the set of files in it; names of a loader or a  *)
(* grub leave out the architecture they end in.  Every call that can fail  *)
(* may fail.                                                               *)
(***************************************************************************)
EXTENDS Integers, FiniteSets

CONSTANTS
    IsoJobs,    \* what is asked for
    NoIsoJob

\* The files that are told apart; of an overlay only a boot menu matters.
Grubs == {"grub", "grub.signed", "gcd.signed"}
RootFiles == {"kernel", "initrd", "shim"} \union Grubs
IsoFiles == RootFiles \union
    {"dirs", "config.yaml", "menu", "menu of the overlay", "boot/kernel", "boot/initrd",
     "shim as loader", "grub as loader", "grub.efi", "an older disc", "part of a disc",
     "EFI/BOOT/grub.cfg", "boot/grub/grub.cfg", "startup.nsh", "EFI/ubuntu/grub.cfg",
     "boot/uefi.img", "rootfs.squashfs", "eltorito", "hybrid mbr"}

ASSUME IsoAssumption ==
    IsoJobs \subseteq [arch : STRING, flavor : STRING, rootfs : SUBSET RootFiles,
                       overlay : SUBSET {"menu of the overlay"}, cc : BOOLEAN,
                       old : SUBSET {"disc", "sum"}]

VARIABLE
    iso         \* the state of the build

IsoPcs == {"sources", "tree", "kernel", "shim", "grub", "efiCfg", "efiImage",
           "squash", "boot", "burn", "sum", "end"}

IsoStates ==
    [job : IsoJobs \union {NoIsoJob}, pc : IsoPcs, root : SUBSET IsoFiles,
     tree : SUBSET IsoFiles, esp : SUBSET IsoFiles, image : SUBSET IsoFiles,
     squash : SUBSET IsoFiles, disc : SUBSET IsoFiles, used : Grubs \union {"none", "packaged"},
     sum : {"none", "old", "new"}, tmp : SUBSET {"iso", "efi"}, res : {"none", "ok", "failed"}]

IsoTypeOK == iso \in IsoStates

IsoInit(jobs) ==
    \E job \in jobs :
      iso = [job |-> job, pc |-> IF job = NoIsoJob THEN "end" ELSE "sources",
             root |-> {}, tree |-> {}, esp |-> {}, image |-> {}, squash |-> {},
             disc |-> IF job # NoIsoJob /\ "disc" \in job.old THEN {"an older disc"} ELSE {},
             sum |-> IF job # NoIsoJob /\ "sum" \in job.old THEN "old" ELSE "none",
             used |-> "none", tmp |-> {}, res |-> "none"]

(***************************************************************************)
(* How a step goes on.                                                     *)
(***************************************************************************)
\* The clean-up stack of ISORun; createEFI's own directory is not on it.
IsoReturn(s, how) == iso' = [s EXCEPT !.pc = "end", !.res = how, !.tmp = @ \ {"iso"}]

IsoAt(pc) == iso.pc = pc

IsoGoes(from, s) == IsoAt(from) /\ (iso' = s \/ IsoReturn(iso, "failed"))

(***************************************************************************)
(* The trees of the rootfs and of the disc.                                *)
(***************************************************************************)
\* applySources: the rootfs, then the overlay over it.
PrepareRoot ==
    IsoGoes("sources", [iso EXCEPT !.pc = "tree", !.tmp = @ \union {"iso"},
                        !.root = iso.job.rootfs \union {"dirs"}])

\* The cloud config, then the overlay of the disc.
PrepareTree ==
    IsoGoes("tree", [iso EXCEPT !.pc = "kernel", !.tree =
                       (IF iso.job.cc THEN {"config.yaml"} ELSE {}) \union iso.job.overlay])

CopyKernel ==
    /\ {"kernel", "initrd"} \subseteq iso.root
    /\ IsoGoes("kernel", [iso EXCEPT !.pc = "shim",
                          !.tree = @ \union {"boot/kernel", "boot/initrd"}])

NoKernel ==
    /\ IsoAt("kernel") /\ ~({"kernel", "initrd"} \subseteq iso.root)
    /\ IsoReturn(iso, "failed")

(***************************************************************************)
(* createEFI.                                                              *)
(***************************************************************************)
Supported(arch) == arch \in {"amd64", "arm64", "riscv64"}

\* A rootfs without a shim that can be copied gets the packaged grub under the
\* loader's name instead, in the EFI image, and as its shim in the rootfs itself,
\* for the installer.
copyShim ==
    LET arch == iso.job.arch
        made == [iso EXCEPT !.pc = "grub", !.tmp = @ \union {"efi"}]
    IN  /\ IsoAt("shim")
        /\ \/ /\ arch = "riscv64"
              /\ iso' = made
           \/ /\ arch \in {"amd64", "arm64"} /\ "shim" \in iso.root
              /\ iso' = [made EXCEPT !.esp = @ \union {"shim as loader"}]
           \/ /\ arch \in {"amd64", "arm64"}
              /\ iso' = [made EXCEPT !.esp = @ \union {"grub as loader"}, !.root = @ \union {"shim"}]
           \/ IsoReturn([iso EXCEPT !.tmp = @ \union {"efi"}], "failed")

\* Slip: the name in the rootfs is kept.
grubNameAsFound(name) == name

\* Signature suffixes are stripped and the CD grub takes the name shim loads.
cleanupGrubName(name) ==
    CASE name \in {"grub.signed", "gcd.signed", "gcd"} -> "grub"
      [] OTHER                                         -> name

\* The first of the names a grub is searched under.
FirstGrubFile(arch) == IF arch = "riscv64" THEN "grub" ELSE "gcd.signed"

\* The grub files of the rootfs are tried in an order of preference until one
\* is copied.  When none is, the packaged grub goes into the EFI image as
\* grub.efi, whatever name a shim there asks for, and into the rootfs.
copyGrub ==
    LET arch == iso.job.arch
        Put(file, grub) == [iso EXCEPT !.pc = "efiCfg", !.esp = @ \union {file}, !.used = grub]
    IN  /\ IsoAt("grub")
        /\ \/ /\ Supported(arch)
              /\ \E grub \in Grubs \intersect iso.root :
                   iso' = Put(IF arch = "riscv64" THEN "grub as loader" ELSE cleanupGrubName(grub),
                              grub)
           \/ /\ Supported(arch)
              /\ iso' = [Put("grub.efi", "packaged") EXCEPT
                           !.root = @ \union {FirstGrubFile(arch)}]
           \/ IsoReturn(iso, "failed")

\* Every configuration goes into the EFI image, read from a USB stick, and
\* into the disc, read from a CD.
EfiCfgs(job) ==
    {"EFI/BOOT/grub.cfg", "boot/grub/grub.cfg"} \union
    (IF job.arch = "riscv64" THEN {"startup.nsh"} ELSE {}) \union
    (IF job.flavor = "ubuntu" THEN {"EFI/ubuntu/grub.cfg"} ELSE {})

writeGrubEfiCfgs ==
    IsoGoes("efiCfg", [iso EXCEPT !.pc = "efiImage", !.esp = @ \union EfiCfgs(iso.job),
                       !.tree = @ \union EfiCfgs(iso.job)])

\* The image is sized for the files and they are copied in one by one.
createEFI == IsoGoes("efiImage", [iso EXCEPT !.pc = "squash", !.image = iso.esp,
                                  !.tree = @ \union {"boot/uefi.img"}])

CreateSquashFS == IsoGoes("squash", [iso EXCEPT !.pc = "boot", !.squash = iso.root,
                                     !.tree = @ \union {"rootfs.squashfs"}])

\* The boot menu of an overlay is kept.
prepareBootArtifacts ==
    IsoGoes("boot", [iso EXCEPT !.pc = "burn", !.tree = @ \union {"eltorito", "hybrid mbr"}
                       \union (IF "menu of the overlay" \in @ THEN {} ELSE {"menu"})])

(***************************************************************************)
(* The disc.                                                               *)
(***************************************************************************)
\* An old disc is removed first, its checksum file is not; xorriso may fail
\* before it writes or while it does.
burnISO ==
    /\ IsoAt("burn")
    /\ \/ iso' = [iso EXCEPT !.pc = "sum", !.disc = iso.tree]
       \/ \E left \in {iso.disc, {}, {"part of a disc"}} :
            IsoReturn([iso EXCEPT !.disc = left], "failed")

WriteSum ==
    /\ IsoAt("sum")
    /\ \/ IsoReturn([iso EXCEPT !.sum = "new"], "ok")
       \/ IsoReturn(iso, "failed")

IsoNext == \/ PrepareRoot \/ PrepareTree \/ CopyKernel \/ NoKernel
           \/ copyShim \/ copyGrub \/ writeGrubEfiCfgs \/ createEFI
           \/ CreateSquashFS \/ prepareBootArtifacts \/ burnISO \/ WriteSum

(***************************************************************************)
(* Properties.                                                             *)
(***************************************************************************)

\* The packaged grub was used and is not the loader itself: grub.efi is not a
\* name that firmware looks for, nor the one a shim of the rootfs loads.
GrubNotFound == iso.used = "packaged" /\ "grub as loader" \notin iso.image

\* A disc that is reported as made boots: from CD and from USB the firmware
\* finds a loader of the architecture, which is a grub or a shim with a grub
\* beside it under the name it asks for, that grub finds a configuration under
\* the prefix built into it, and BIOS its boot sector; the menu of an overlay
\* is the one shown.  Left out by name: GrubNotFound.
DiscBootsEverywhere ==
    LET cfg == CASE "grub as loader" \in iso.image -> "EFI/BOOT/grub.cfg"
                 [] iso.used = "gcd.signed" -> "boot/grub/grub.cfg"
                 [] iso.used = "grub.signed" /\ iso.job.flavor = "ubuntu" -> "EFI/ubuntu/grub.cfg"
                 [] OTHER -> "EFI/BOOT/grub.cfg"
    IN  iso.res = "ok" =>
          /\ \/ "grub as loader" \in iso.image
             \/ {"shim as loader", "grub"} \subseteq iso.image
             \/ GrubNotFound
          /\ cfg \in iso.image \intersect iso.disc
          /\ {"eltorito", "hybrid mbr", "boot/uefi.img", "boot/kernel", "boot/initrd",
              "rootfs.squashfs"} \subseteq iso.disc
          /\ iso.disc \intersect {"menu", "menu of the overlay"} =
               IF "menu of the overlay" \in iso.job.overlay THEN {"menu of the overlay"}
                                                            ELSE {"menu"}

\* The live system can install itself: a loader the rootfs lacks and the
\* build adds has reached the squashfs the installer copies from, under a name
\* of the list the builder searches.  The installer, which is not part of this
\* repository, is taken to search the same list.
LiveSystemCanInstall ==
    iso.res = "ok" /\ iso.job.arch # "riscv64" =>
      /\ "shim" \in iso.squash
      /\ Grubs \intersect iso.squash # {}

\* A disc that is reported as made has its own checksum beside it, also when
\* an older one was there.  Left out is what a build that failed leaves behind: an
\* older checksum beside a new disc, or beside none.
ChecksumIsOfThisDisc == iso.res = "ok" => iso.sum = "new"

\* A disc that ISORun reports as made boots under every firmware, installs, and has
\* its own checksum beside it.
DiscIsRight == DiscBootsEverywhere /\ LiveSystemCanInstall /\ ChecksumIsOfThisDisc

\* Why it holds, as an inductive invariant: what each stage has put where the firmware,
\* the loader or the installer looks for it is there at every later stage.
Menus == {"menu", "menu of the overlay"}
Reached(pcs) == iso.pc \in pcs \/ iso.res = "ok"
IsoInv ==
    /\ iso.res = "ok" => iso.pc = "end" /\ iso.sum = "new"
    /\ iso.job = NoIsoJob => iso.pc = "end" /\ iso.res = "none"
    /\ Reached({"shim", "grub", "efiCfg", "efiImage", "squash", "boot", "burn", "sum"}) =>
         {"boot/kernel", "boot/initrd"} \subseteq iso.tree
    /\ Reached({"grub", "efiCfg", "efiImage", "squash", "boot", "burn", "sum"})
       /\ iso.job.arch # "riscv64" =>
         {"shim as loader", "grub as loader"} \intersect iso.esp # {} /\ "shim" \in iso.root
    /\ Reached({"efiCfg", "efiImage", "squash", "boot", "burn", "sum"}) =>
         /\ Grubs \intersect iso.root # {}
         /\ iso.used # "packaged" =>
              (IF iso.job.arch = "riscv64" THEN "grub as loader" ELSE "grub") \in iso.esp
    /\ Reached({"efiImage", "squash", "boot", "burn", "sum"}) =>
         EfiCfgs(iso.job) \subseteq iso.esp \intersect iso.tree
    /\ Reached({"squash", "boot", "burn", "sum"}) =>
         iso.image = iso.esp /\ "boot/uefi.img" \in iso.tree
    /\ Reached({"boot", "burn", "sum"}) =>
         iso.squash = iso.root /\ "rootfs.squashfs" \in iso.tree
    /\ iso.pc \in {"kernel", "shim", "grub", "efiCfg", "efiImage", "squash", "boot"} =>
         iso.tree \intersect Menus = iso.job.overlay
    /\ Reached({"burn", "sum"}) =>
         /\ {"eltorito", "hybrid mbr"} \subseteq iso.tree
         /\ iso.tree \intersect Menus =
              IF "menu of the overlay" \in iso.job.overlay THEN {"menu of the overlay"} ELSE {"menu"}
    /\ Reached({"sum"}) => iso.disc = iso.tree

\* Whichever way the build returned, its working directory is removed.
IsoTidy == iso.res # "none" => iso.pc = "end" /\ iso.tmp \subseteq {"efi"}
=============================================================================
