------------------------- MODULE ImageBuildersProofs ------------------------
(***************************************************************************)
(* Proofs about the image builders, for every set of jobs, builds, devices *)
(* and configurations: the ISO, the UKI, raw disks and their loop devices, *)
(* and the graph of steps that calls them.                                 *)
(***************************************************************************)
EXTENDS MCImageBuilders, FiniteSetTheorems, SequenceTheorems, TLAPS

(***************************************************************************)
(* The ISO builder.                                                        *)
(***************************************************************************)
IsoJobTypes ==
    [arch : STRING, flavor : STRING, rootfs : SUBSET RootFiles,
     overlay : SUBSET {"menu of the overlay"}, cc : BOOLEAN, old : SUBSET {"disc", "sum"}]

\* The names the steps put into a directory or image.
LEMMA FileNames ==
    /\ RootFiles \subseteq IsoFiles
    /\ "shim" \in IsoFiles /\ Grubs \subseteq IsoFiles /\ "shim as loader" \in IsoFiles
    /\ "grub as loader" \in IsoFiles /\ "grub.efi" \in IsoFiles
    /\ "an older disc" \in IsoFiles /\ "part of a disc" \in IsoFiles
    /\ "dirs" \in IsoFiles /\ "config.yaml" \in IsoFiles /\ "menu" \in IsoFiles
    /\ "menu of the overlay" \in IsoFiles /\ "boot/kernel" \in IsoFiles
    /\ "boot/initrd" \in IsoFiles /\ "boot/uefi.img" \in IsoFiles
    /\ "rootfs.squashfs" \in IsoFiles /\ "eltorito" \in IsoFiles /\ "hybrid mbr" \in IsoFiles
    /\ \A job : EfiCfgs(job) \subseteq IsoFiles
BY DEF IsoFiles, RootFiles, EfiCfgs, Grubs

LEMMA IsoStarts ==
    ASSUME NEW jobs, jobs \subseteq IsoJobs \union {NoIsoJob}, IsoInit(jobs)
    PROVE  IsoTypeOK /\ IsoInv /\ IsoTidy
<1>1. PICK job \in jobs :
        iso = [job |-> job, pc |-> IF job = NoIsoJob THEN "end" ELSE "sources",
               root |-> {}, tree |-> {}, esp |-> {}, image |-> {}, squash |-> {},
               disc |-> IF job # NoIsoJob /\ "disc" \in job.old THEN {"an older disc"} ELSE {},
               sum |-> IF job # NoIsoJob /\ "sum" \in job.old THEN "old" ELSE "none",
               used |-> "none", tmp |-> {}, res |-> "none"]
  BY DEF IsoInit
<1> DEFINE disc == IF job # NoIsoJob /\ "disc" \in job.old THEN {"an older disc"} ELSE {}
           sum == IF job # NoIsoJob /\ "sum" \in job.old THEN "old" ELSE "none"
<1>2. disc \in SUBSET IsoFiles /\ sum \in {"none", "old", "new"}
  BY FileNames
<1>3. IsoTypeOK
  <2>1. iso = [job |-> job, pc |-> IF job = NoIsoJob THEN "end" ELSE "sources",
               root |-> {}, tree |-> {}, esp |-> {}, image |-> {}, squash |-> {}, disc |-> disc,
               sum |-> sum, used |-> "none", tmp |-> {}, res |-> "none"]
    BY <1>1
  <2> HIDE DEF disc, sum
  <2> QED BY <1>2, <2>1 DEF IsoTypeOK, IsoStates, IsoPcs
<1>4. /\ iso.job = job /\ iso.res = "none" /\ iso.pc \in {"end", "sources"}
      /\ job = NoIsoJob => iso.pc = "end"
  BY <1>1
<1> QED BY <1>3, <1>4 DEF IsoInv, IsoTidy, Reached

LEMMA IsoFails ==
    ASSUME IsoTypeOK, IsoInv, iso.job # NoIsoJob, IsoReturn(iso, "failed")
    PROVE  IsoTypeOK' /\ IsoInv' /\ IsoTidy'
<1>1. /\ iso' \in IsoStates /\ iso'.pc = "end" /\ iso'.res = "failed" /\ iso'.tmp \subseteq {"efi"}
      /\ iso'.job = iso.job
  BY DEF IsoReturn, IsoTypeOK, IsoStates, IsoPcs
<1> QED BY <1>1 DEF IsoTypeOK, IsoInv, IsoTidy, Reached

LEMMA IsoTrees ==
    ASSUME IsoTypeOK, IsoInv, IsoTidy, PrepareRoot \/ PrepareTree \/ CopyKernel \/ NoKernel
    PROVE  IsoTypeOK' /\ IsoInv' /\ IsoTidy'
<1>0. iso \in IsoStates /\ iso.pc # "end" /\ iso.job # NoIsoJob /\ iso.job \in IsoJobTypes /\ iso.res = "none"
  BY IsoAssumption DEF IsoTypeOK, IsoStates, IsoInv, IsoTidy, PrepareRoot, PrepareTree, CopyKernel, NoKernel,
       IsoGoes, IsoAt, IsoJobTypes
<1>1. CASE IsoReturn(iso, "failed")
  BY <1>0, <1>1, IsoFails
<1>2. CASE PrepareRoot /\ ~IsoReturn(iso, "failed")
  <2> DEFINE root == iso.job.rootfs \union {"dirs"}
             tmp == iso.tmp \union {"iso"}
  <2>1. root \in SUBSET IsoFiles /\ tmp \in SUBSET {"iso", "efi"}
    BY <1>0, FileNames DEF IsoStates, IsoJobTypes
  <2>2. iso' = [iso EXCEPT !.pc = "tree", !.tmp = tmp, !.root = root]
    BY <1>2 DEF PrepareRoot, IsoGoes
  <2> HIDE DEF root, tmp
  <2>3. iso' \in IsoStates /\ iso'.pc = "tree" /\ iso'.job = iso.job /\ iso'.res = iso.res
    BY <1>0, <2>1, <2>2 DEF IsoStates, IsoPcs
  <2> QED BY <1>0, <2>3 DEF IsoTypeOK, IsoTidy, IsoInv, Reached
<1>3. CASE PrepareTree /\ ~IsoReturn(iso, "failed")
  <2> DEFINE tree == (IF iso.job.cc THEN {"config.yaml"} ELSE {}) \union iso.job.overlay
  <2>1. tree \in SUBSET IsoFiles /\ tree \intersect Menus = iso.job.overlay
    BY <1>0, FileNames DEF IsoJobTypes, Menus
  <2>2. iso' = [iso EXCEPT !.pc = "kernel", !.tree = tree]
    BY <1>3 DEF PrepareTree, IsoGoes
  <2> HIDE DEF tree
  <2>3. iso' \in IsoStates /\ iso'.pc = "kernel" /\ iso'.job = iso.job /\ iso'.res = iso.res /\ iso'.tree = tree
    BY <1>0, <2>1, <2>2 DEF IsoStates, IsoPcs
  <2> QED BY <1>0, <2>1, <2>3 DEF IsoTypeOK, IsoTidy, IsoInv, Reached
<1>4. CASE CopyKernel /\ ~IsoReturn(iso, "failed")
  <2> DEFINE tree == iso.tree \union {"boot/kernel", "boot/initrd"}
  <2>1. /\ tree \in SUBSET IsoFiles /\ tree \intersect Menus = iso.tree \intersect Menus
        /\ {"boot/kernel", "boot/initrd"} \subseteq tree
    BY <1>0, FileNames DEF IsoStates, Menus
  <2>2. iso.pc = "kernel" /\ iso' = [iso EXCEPT !.pc = "shim", !.tree = tree]
    BY <1>4 DEF CopyKernel, IsoGoes, IsoAt
  <2> HIDE DEF tree
  <2>3. iso' \in IsoStates /\ iso'.pc = "shim" /\ iso'.job = iso.job /\ iso'.res = iso.res /\ iso'.tree = tree
    BY <1>0, <2>1, <2>2 DEF IsoStates, IsoPcs
  <2> QED BY <1>0, <2>1, <2>2, <2>3 DEF IsoTypeOK, IsoTidy, IsoInv, Reached
<1> QED BY <1>1, <1>2, <1>3, <1>4 DEF NoKernel

\* createEFI: the loader and the grub it asks for reach the EFI image, and what the
\* rootfs lacked reaches the rootfs.
LEMMA IsoShim ==
    ASSUME IsoTypeOK, IsoInv, IsoTidy, copyShim
    PROVE  IsoTypeOK' /\ IsoInv' /\ IsoTidy'
<1>0. iso \in IsoStates /\ iso.pc = "shim" /\ iso.job # NoIsoJob /\ iso.res = "none"
  BY DEF IsoTypeOK, IsoStates, IsoInv, IsoTidy, copyShim, IsoAt
<1>1. CASE IsoReturn([iso EXCEPT !.tmp = @ \union {"efi"}], "failed")
  <2> DEFINE tmp == iso.tmp \union {"efi"}
             s == [iso EXCEPT !.tmp = tmp]
  <2>1. tmp \in SUBSET {"iso", "efi"}
    BY <1>0 DEF IsoStates
  <2>2. iso' = [s EXCEPT !.pc = "end", !.res = "failed", !.tmp = s.tmp \ {"iso"}]
    BY <1>1 DEF IsoReturn
  <2> HIDE DEF tmp
  <2>3. s \in IsoStates /\ s.job = iso.job
    BY <1>0, <2>1 DEF IsoStates
  <2> HIDE DEF s
  <2>4. /\ iso' \in IsoStates /\ iso'.pc = "end" /\ iso'.res = "failed" /\ iso'.tmp \subseteq {"efi"}
        /\ iso'.job = iso.job
    BY <2>2, <2>3 DEF IsoStates, IsoPcs
  <2> QED BY <1>0, <2>4 DEF IsoTypeOK, IsoInv, IsoTidy, Reached
<1>2. CASE ~IsoReturn([iso EXCEPT !.tmp = @ \union {"efi"}], "failed")
  <2> DEFINE tmp == iso.tmp \union {"efi"}
             made == [iso EXCEPT !.pc = "grub", !.tmp = tmp]
  <2>1. tmp \in SUBSET {"iso", "efi"}
    BY <1>0 DEF IsoStates
  <2>2. \/ iso.job.arch = "riscv64" /\ iso' = made
        \/ "shim" \in iso.root /\ iso' = [made EXCEPT !.esp = made.esp \union {"shim as loader"}]
        \/ iso' = [made EXCEPT !.esp = made.esp \union {"grub as loader"},
                               !.root = made.root \union {"shim"}]
    BY <1>2 DEF copyShim
  <2> HIDE DEF tmp
  <2>3. /\ made \in IsoStates /\ made.pc = "grub" /\ made.job = iso.job /\ made.res = "none"
        /\ made.esp = iso.esp /\ made.root = iso.root /\ made.tree = iso.tree
    BY <1>0, <2>1 DEF IsoStates, IsoPcs
  <2> HIDE DEF made
  <2>4. /\ made.esp \union {"shim as loader"} \in SUBSET IsoFiles
        /\ made.esp \union {"grub as loader"} \in SUBSET IsoFiles
        /\ made.root \union {"shim"} \in SUBSET IsoFiles
    BY <2>3, FileNames DEF IsoStates
  <2>5. /\ iso' \in IsoStates /\ iso'.pc = "grub" /\ iso'.job = iso.job /\ iso'.res = "none"
        /\ iso'.tree = iso.tree
        /\ iso.job.arch # "riscv64" =>
             ("shim as loader" \in iso'.esp \/ "grub as loader" \in iso'.esp) /\ "shim" \in iso'.root
    <3>1. CASE iso.job.arch = "riscv64" /\ iso' = made BY <2>3, <3>1
    <3>2. CASE "shim" \in iso.root /\ iso' = [made EXCEPT !.esp = made.esp \union {"shim as loader"}]
      BY <2>3, <2>4, <3>2 DEF IsoStates
    <3>3. CASE iso' = [made EXCEPT !.esp = made.esp \union {"grub as loader"},
                                   !.root = made.root \union {"shim"}]
      BY <2>3, <2>4, <3>3 DEF IsoStates
    <3> QED BY <2>2, <3>1, <3>2, <3>3
  <2> QED BY <1>0, <2>5 DEF IsoTypeOK, IsoTidy, IsoInv, Reached
<1> QED BY <1>1, <1>2

LEMMA IsoGrub ==
    ASSUME IsoTypeOK, IsoInv, IsoTidy, copyGrub
    PROVE  IsoTypeOK' /\ IsoInv' /\ IsoTidy'
<1>0. iso \in IsoStates /\ iso.pc = "grub" /\ iso.job # NoIsoJob /\ iso.res = "none"
  BY DEF IsoTypeOK, IsoStates, IsoInv, IsoTidy, copyGrub, IsoAt
<1>1. CASE IsoReturn(iso, "failed")
  BY <1>0, <1>1, IsoFails
<1>2. CASE ~IsoReturn(iso, "failed")
  <2> DEFINE named == IF iso.job.arch = "riscv64" THEN "grub as loader" ELSE "grub"
             own == FirstGrubFile(iso.job.arch)
             copied == [iso EXCEPT !.pc = "efiCfg", !.esp = iso.esp \union {named}]
             packaged == [iso EXCEPT !.pc = "efiCfg", !.esp = iso.esp \union {"grub.efi"}, !.used = "packaged"]
  <2>1. \/ \E grub \in Grubs \intersect iso.root :
             iso' = [iso EXCEPT !.pc = "efiCfg", !.esp = iso.esp \union {named}, !.used = grub]
        \/ iso' = [packaged EXCEPT !.root = packaged.root \union {own}]
    <3>1. \A grub \in Grubs : cleanupGrubName(grub) = "grub"
      BY DEF cleanupGrubName, Grubs
    <3>2. \A grub \in Grubs :
            (IF iso.job.arch = "riscv64" THEN "grub as loader" ELSE cleanupGrubName(grub)) = named
      BY <3>1
    <3> HIDE DEF named, own
    <3> QED BY <1>2, <3>2 DEF copyGrub, own
  <2>2. named \in IsoFiles /\ own \in IsoFiles /\ own \in Grubs
    BY FileNames DEF FirstGrubFile, Grubs
  <2>3. /\ iso' \in IsoStates /\ iso'.pc = "efiCfg" /\ iso'.job = iso.job /\ iso'.res = "none"
        /\ iso'.tree = iso.tree /\ iso.esp \subseteq iso'.esp /\ iso.root \subseteq iso'.root
        /\ \E grub \in Grubs : grub \in iso'.root
        /\ iso'.used # "packaged" => named \in iso'.esp
    <3> HIDE DEF named, own
    <3>1. CASE \E grub \in Grubs \intersect iso.root :
                 iso' = [iso EXCEPT !.pc = "efiCfg", !.esp = iso.esp \union {named}, !.used = grub]
      <4>1. PICK grub \in Grubs \intersect iso.root :
              iso' = [iso EXCEPT !.pc = "efiCfg", !.esp = iso.esp \union {named}, !.used = grub]
        BY <3>1
      <4> DEFINE esp == iso.esp \union {named}
      <4>2. esp \in SUBSET IsoFiles /\ iso.esp \subseteq esp /\ named \in esp
        BY <1>0, <2>2 DEF IsoStates
      <4>3. iso' = [iso EXCEPT !.pc = "efiCfg", !.esp = esp, !.used = grub]
        BY <4>1
      <4> HIDE DEF esp
      <4>4. /\ iso' \in IsoStates /\ iso'.pc = "efiCfg" /\ iso'.job = iso.job /\ iso'.res = "none"
            /\ iso'.tree = iso.tree /\ iso'.esp = esp /\ iso'.root = iso.root
        BY <1>0, <4>2, <4>3 DEF IsoStates, IsoPcs
      <4> QED BY <4>2, <4>4
    <3>2. CASE iso' = [packaged EXCEPT !.root = packaged.root \union {own}]
      <4> DEFINE esp == iso.esp \union {"grub.efi"}
                 root == iso.root \union {own}
      <4>1. /\ esp \in SUBSET IsoFiles /\ iso.esp \subseteq esp
            /\ root \in SUBSET IsoFiles /\ iso.root \subseteq root /\ own \in root
        BY <1>0, <2>2, FileNames DEF IsoStates
      <4>2. packaged = [iso EXCEPT !.pc = "efiCfg", !.esp = esp, !.used = "packaged"]
        OBVIOUS
      <4> HIDE DEF esp, packaged
      <4>3. /\ packaged \in IsoStates /\ packaged.pc = "efiCfg" /\ packaged.job = iso.job
            /\ packaged.res = "none" /\ packaged.used = "packaged"
            /\ packaged.tree = iso.tree /\ packaged.esp = esp /\ packaged.root = iso.root
        BY <1>0, <4>1, <4>2 DEF IsoStates, IsoPcs
      <4>4. iso' = [packaged EXCEPT !.root = root]
        BY <3>2, <4>3
      <4> HIDE DEF root
      <4>5. /\ iso' \in IsoStates /\ iso'.pc = "efiCfg" /\ iso'.job = iso.job /\ iso'.res = "none"
            /\ iso'.tree = iso.tree /\ iso'.esp = esp /\ iso'.root = root /\ iso'.used = "packaged"
        BY <4>1, <4>3, <4>4 DEF IsoStates
      <4> QED BY <2>2, <4>1, <4>5
    <3> QED BY <2>1, <3>1, <3>2
  <2>4. iso.job.arch # "riscv64" =>
          {"shim as loader", "grub as loader"} \intersect iso'.esp # {} /\ "shim" \in iso'.root
    BY <1>0, <2>3 DEF IsoInv, Reached
  <2>5. Grubs \intersect iso'.root # {}
    BY <2>3
  <2> QED BY <1>0, <2>3, <2>4, <2>5 DEF IsoTypeOK, IsoTidy, IsoInv, Reached
<1> QED BY <1>1, <1>2

LEMMA IsoCfgs ==
    ASSUME IsoTypeOK, IsoInv, IsoTidy, writeGrubEfiCfgs
    PROVE  IsoTypeOK' /\ IsoInv' /\ IsoTidy'
<1>0. iso \in IsoStates /\ iso.pc = "efiCfg" /\ iso.job # NoIsoJob /\ iso.res = "none"
  BY DEF IsoTypeOK, IsoStates, IsoInv, IsoTidy, writeGrubEfiCfgs, IsoGoes, IsoAt
<1>1. CASE IsoReturn(iso, "failed")
  BY <1>0, <1>1, IsoFails
<1>2. CASE ~IsoReturn(iso, "failed")
  <2> DEFINE esp == iso.esp \union EfiCfgs(iso.job)
             tree == iso.tree \union EfiCfgs(iso.job)
  <2>1. /\ esp \in SUBSET IsoFiles /\ tree \in SUBSET IsoFiles /\ iso.esp \subseteq esp /\ iso.tree \subseteq tree
        /\ EfiCfgs(iso.job) \subseteq esp \intersect tree
        /\ tree \intersect Menus = iso.tree \intersect Menus
    <3>1. EfiCfgs(iso.job) \subseteq IsoFiles /\ EfiCfgs(iso.job) \intersect Menus = {}
      BY FileNames DEF EfiCfgs, Menus
    <3> QED BY <1>0, <3>1 DEF IsoStates
  <2>2. iso' = [iso EXCEPT !.pc = "efiImage", !.esp = esp, !.tree = tree]
    BY <1>2 DEF writeGrubEfiCfgs, IsoGoes
  <2> HIDE DEF esp, tree
  <2>3. /\ iso' \in IsoStates /\ iso'.pc = "efiImage" /\ iso'.job = iso.job /\ iso'.res = "none"
        /\ iso'.esp = esp /\ iso'.tree = tree
        /\ iso'.root = iso.root /\ iso'.image = iso.image /\ iso'.squash = iso.squash /\ iso'.disc = iso.disc
        /\ iso'.used = iso.used
    BY <1>0, <2>1, <2>2 DEF IsoStates, IsoPcs
  <2> QED BY <1>0, <2>1, <2>3 DEF IsoTypeOK, IsoTidy, IsoInv, Reached
<1> QED BY <1>1, <1>2

LEMMA IsoEfi ==
    ASSUME IsoTypeOK, IsoInv, IsoTidy, createEFI
    PROVE  IsoTypeOK' /\ IsoInv' /\ IsoTidy'
<1>0. iso \in IsoStates /\ iso.pc = "efiImage" /\ iso.job # NoIsoJob /\ iso.res = "none"
  BY DEF IsoTypeOK, IsoStates, IsoInv, IsoTidy, createEFI, IsoGoes, IsoAt
<1>1. CASE IsoReturn(iso, "failed")
  BY <1>0, <1>1, IsoFails
<1>2. CASE ~IsoReturn(iso, "failed")
  <2> DEFINE image == iso.esp
             tree == iso.tree \union {"boot/uefi.img"}
  <2>1. /\ image \in SUBSET IsoFiles /\ tree \in SUBSET IsoFiles /\ iso.tree \subseteq tree
        /\ image = iso.esp /\ "boot/uefi.img" \in tree
        /\ tree \intersect Menus = iso.tree \intersect Menus
    BY <1>0, FileNames DEF IsoStates, Menus
  <2>2. iso' = [iso EXCEPT !.pc = "squash", !.image = image, !.tree = tree]
    BY <1>2 DEF createEFI, IsoGoes
  <2> HIDE DEF image, tree
  <2>3. /\ iso' \in IsoStates /\ iso'.pc = "squash" /\ iso'.job = iso.job /\ iso'.res = "none"
        /\ iso'.image = image /\ iso'.tree = tree
        /\ iso'.root = iso.root /\ iso'.esp = iso.esp /\ iso'.squash = iso.squash /\ iso'.disc = iso.disc
        /\ iso'.used = iso.used
    BY <1>0, <2>1, <2>2 DEF IsoStates, IsoPcs
  <2> QED BY <1>0, <2>1, <2>3 DEF IsoTypeOK, IsoTidy, IsoInv, Reached
<1> QED BY <1>1, <1>2

LEMMA IsoSquash ==
    ASSUME IsoTypeOK, IsoInv, IsoTidy, CreateSquashFS
    PROVE  IsoTypeOK' /\ IsoInv' /\ IsoTidy'
<1>0. iso \in IsoStates /\ iso.pc = "squash" /\ iso.job # NoIsoJob /\ iso.res = "none"
  BY DEF IsoTypeOK, IsoStates, IsoInv, IsoTidy, CreateSquashFS, IsoGoes, IsoAt
<1>1. CASE IsoReturn(iso, "failed")
  BY <1>0, <1>1, IsoFails
<1>2. CASE ~IsoReturn(iso, "failed")
  <2> DEFINE squash == iso.root
             tree == iso.tree \union {"rootfs.squashfs"}
  <2>1. /\ squash \in SUBSET IsoFiles /\ tree \in SUBSET IsoFiles /\ iso.tree \subseteq tree
        /\ squash = iso.root /\ "rootfs.squashfs" \in tree
        /\ tree \intersect Menus = iso.tree \intersect Menus
    BY <1>0, FileNames DEF IsoStates, Menus
  <2>2. iso' = [iso EXCEPT !.pc = "boot", !.squash = squash, !.tree = tree]
    BY <1>2 DEF CreateSquashFS, IsoGoes
  <2> HIDE DEF squash, tree
  <2>3. /\ iso' \in IsoStates /\ iso'.pc = "boot" /\ iso'.job = iso.job /\ iso'.res = "none"
        /\ iso'.squash = squash /\ iso'.tree = tree
        /\ iso'.root = iso.root /\ iso'.esp = iso.esp /\ iso'.image = iso.image /\ iso'.disc = iso.disc
        /\ iso'.used = iso.used
    BY <1>0, <2>1, <2>2 DEF IsoStates, IsoPcs
  <2> QED BY <1>0, <2>1, <2>3 DEF IsoTypeOK, IsoTidy, IsoInv, Reached
<1> QED BY <1>1, <1>2

LEMMA IsoBoot ==
    ASSUME IsoTypeOK, IsoInv, IsoTidy, prepareBootArtifacts
    PROVE  IsoTypeOK' /\ IsoInv' /\ IsoTidy'
<1>0. iso \in IsoStates /\ iso.pc = "boot" /\ iso.job # NoIsoJob /\ iso.res = "none"
  BY DEF IsoTypeOK, IsoStates, IsoInv, IsoTidy, prepareBootArtifacts, IsoGoes, IsoAt
<1>1. CASE IsoReturn(iso, "failed")
  BY <1>0, <1>1, IsoFails
<1>2. CASE ~IsoReturn(iso, "failed")
  <2> DEFINE tree == iso.tree \union {"eltorito", "hybrid mbr"}
                       \union (IF "menu of the overlay" \in iso.tree THEN {} ELSE {"menu"})
  <2>1. /\ tree \in SUBSET IsoFiles /\ iso.tree \subseteq tree
        /\ {"eltorito", "hybrid mbr"} \subseteq tree
        /\ tree \intersect Menus =
             IF "menu of the overlay" \in iso.job.overlay THEN {"menu of the overlay"} ELSE {"menu"}
    <3>1. iso.tree \intersect Menus = iso.job.overlay /\ iso.job.overlay \subseteq {"menu of the overlay"}
      BY <1>0, IsoAssumption DEF IsoInv, IsoStates
    <3>2. tree \in SUBSET IsoFiles /\ iso.tree \subseteq tree /\ {"eltorito", "hybrid mbr"} \subseteq tree
      BY <1>0, FileNames DEF IsoStates
    <3>3. "menu of the overlay" \in iso.tree <=> "menu of the overlay" \in iso.job.overlay
      BY <3>1 DEF Menus
    <3>4. CASE "menu of the overlay" \in iso.tree BY <3>1, <3>2, <3>3, <3>4 DEF Menus
    <3>5. CASE "menu of the overlay" \notin iso.tree BY <3>1, <3>2, <3>3, <3>5 DEF Menus
    <3> QED BY <3>2, <3>4, <3>5
  <2>2. iso' = [iso EXCEPT !.pc = "burn", !.tree = tree]
    BY <1>2 DEF prepareBootArtifacts, IsoGoes
  <2> HIDE DEF tree
  <2>3. /\ iso' \in IsoStates /\ iso'.pc = "burn" /\ iso'.job = iso.job /\ iso'.res = "none"
        /\ iso'.tree = tree
        /\ iso'.root = iso.root /\ iso'.esp = iso.esp /\ iso'.image = iso.image /\ iso'.squash = iso.squash /\ iso'.disc = iso.disc
        /\ iso'.used = iso.used
    BY <1>0, <2>1, <2>2 DEF IsoStates, IsoPcs
  <2> QED BY <1>0, <2>1, <2>3 DEF IsoTypeOK, IsoTidy, IsoInv, Reached
<1> QED BY <1>1, <1>2

LEMMA IsoBurn ==
    ASSUME IsoTypeOK, IsoInv, IsoTidy, burnISO
    PROVE  IsoTypeOK' /\ IsoInv' /\ IsoTidy'
<1>0. iso \in IsoStates /\ iso.pc = "burn" /\ iso.job # NoIsoJob /\ iso.res = "none"
  BY DEF IsoTypeOK, IsoStates, IsoInv, IsoTidy, burnISO, IsoAt
<1>1. CASE \E left \in {iso.disc, {}, {"part of a disc"}} : IsoReturn([iso EXCEPT !.disc = left], "failed")
  <2>1. PICK left \in {iso.disc, {}, {"part of a disc"}} : IsoReturn([iso EXCEPT !.disc = left], "failed")
    BY <1>1
  <2> DEFINE s == [iso EXCEPT !.disc = left]
  <2>2. left \in SUBSET IsoFiles
    BY <1>0, FileNames DEF IsoStates
  <2>3. iso' = [s EXCEPT !.pc = "end", !.res = "failed", !.tmp = s.tmp \ {"iso"}]
    BY <2>1 DEF IsoReturn
  <2>4. s \in IsoStates /\ s.job = iso.job
    BY <1>0, <2>2 DEF IsoStates
  <2> HIDE DEF s
  <2>5. /\ iso' \in IsoStates /\ iso'.pc = "end" /\ iso'.res = "failed" /\ iso'.tmp \subseteq {"efi"}
        /\ iso'.job = iso.job
    BY <2>3, <2>4 DEF IsoStates, IsoPcs
  <2> QED BY <1>0, <2>5 DEF IsoTypeOK, IsoInv, IsoTidy, Reached
<1>2. CASE iso' = [iso EXCEPT !.pc = "sum", !.disc = iso.tree]
  <2> DEFINE disc == iso.tree
  <2>1. disc \in SUBSET IsoFiles /\ disc = iso.tree
    BY <1>0 DEF IsoStates
  <2>2. iso' = [iso EXCEPT !.pc = "sum", !.disc = disc]
    BY <1>2
  <2> HIDE DEF disc
  <2>3. /\ iso' \in IsoStates /\ iso'.pc = "sum" /\ iso'.job = iso.job /\ iso'.res = "none"
        /\ iso'.disc = disc /\ iso'.used = iso.used
        /\ iso'.root = iso.root /\ iso'.tree = iso.tree /\ iso'.esp = iso.esp /\ iso'.image = iso.image /\ iso'.squash = iso.squash
    BY <1>0, <2>1, <2>2 DEF IsoStates, IsoPcs
  <2> QED BY <1>0, <2>1, <2>3 DEF IsoTypeOK, IsoTidy, IsoInv, Reached
<1> QED BY <1>1, <1>2 DEF burnISO

LEMMA IsoSum ==
    ASSUME IsoTypeOK, IsoInv, IsoTidy, WriteSum
    PROVE  IsoTypeOK' /\ IsoInv' /\ IsoTidy'
<1>0. iso \in IsoStates /\ iso.pc = "sum" /\ iso.job # NoIsoJob /\ iso.res = "none"
  BY DEF IsoTypeOK, IsoStates, IsoInv, IsoTidy, WriteSum, IsoAt
<1>1. CASE IsoReturn(iso, "failed")
  BY <1>0, <1>1, IsoFails
<1>2. CASE IsoReturn([iso EXCEPT !.sum = "new"], "ok")
  <2> DEFINE s == [iso EXCEPT !.sum = "new"]
  <2>1. /\ s \in IsoStates /\ s.job = iso.job /\ s.sum = "new" /\ s.root = iso.root /\ s.tree = iso.tree
        /\ s.esp = iso.esp /\ s.image = iso.image /\ s.squash = iso.squash /\ s.disc = iso.disc
        /\ s.used = iso.used
    BY <1>0 DEF IsoStates
  <2>2. iso' = [s EXCEPT !.pc = "end", !.res = "ok", !.tmp = s.tmp \ {"iso"}]
    BY <1>2 DEF IsoReturn
  <2> HIDE DEF s
  <2>3. /\ iso' \in IsoStates /\ iso'.pc = "end" /\ iso'.res = "ok" /\ iso'.tmp \subseteq {"efi"}
        /\ iso'.job = iso.job /\ iso'.sum = "new" /\ iso'.root = iso.root /\ iso'.tree = iso.tree
        /\ iso'.esp = iso.esp /\ iso'.image = iso.image /\ iso'.squash = iso.squash /\ iso'.disc = iso.disc
        /\ iso'.used = iso.used
    BY <2>1, <2>2 DEF IsoStates, IsoPcs
  <2> QED BY <1>0, <2>3 DEF IsoTypeOK, IsoTidy, IsoInv, Reached
<1> QED BY <1>1, <1>2 DEF WriteSum

LEMMA IsoStep ==
    IsoTypeOK /\ IsoInv /\ IsoTidy /\ [IsoNext]_iso => IsoTypeOK' /\ IsoInv' /\ IsoTidy'
<1> SUFFICES ASSUME IsoTypeOK, IsoInv, IsoTidy, [IsoNext]_iso PROVE IsoTypeOK' /\ IsoInv' /\ IsoTidy'
  OBVIOUS
<1>1. CASE UNCHANGED iso BY <1>1 DEF IsoTypeOK, IsoInv, IsoTidy, Reached
<1>2. CASE IsoNext
  BY <1>2, IsoTrees, IsoShim, IsoGrub, IsoCfgs, IsoEfi, IsoSquash, IsoBoot, IsoBurn, IsoSum DEF IsoNext
<1> QED BY <1>1, <1>2

LEMMA DiscFollows ==
    ASSUME IsoTypeOK, IsoInv PROVE DiscIsRight
<1> SUFFICES ASSUME iso.res = "ok" PROVE DiscIsRight
  BY DEF DiscIsRight, DiscBootsEverywhere, LiveSystemCanInstall, ChecksumIsOfThisDisc
<1>1. /\ iso.sum = "new" /\ iso.disc = iso.tree /\ iso.image = iso.esp /\ iso.squash = iso.root
      /\ {"boot/kernel", "boot/initrd", "boot/uefi.img", "rootfs.squashfs", "eltorito", "hybrid mbr"} \subseteq iso.tree
      /\ iso.job.arch # "riscv64" =>
           {"shim as loader", "grub as loader"} \intersect iso.esp # {} /\ "shim" \in iso.root
      /\ Grubs \intersect iso.root # {}
      /\ iso.used # "packaged" =>
           (IF iso.job.arch = "riscv64" THEN "grub as loader" ELSE "grub") \in iso.esp
      /\ EfiCfgs(iso.job) \subseteq iso.esp \intersect iso.tree
      /\ iso.tree \intersect Menus =
           IF "menu of the overlay" \in iso.job.overlay THEN {"menu of the overlay"} ELSE {"menu"}
  BY DEF IsoInv, Reached
<1>2. ChecksumIsOfThisDisc
  BY <1>1 DEF ChecksumIsOfThisDisc
<1>3. LiveSystemCanInstall
  BY <1>1 DEF LiveSystemCanInstall, Grubs
<1>4. DiscBootsEverywhere
  <2> DEFINE cfgName == CASE "grub as loader" \in iso.image -> "EFI/BOOT/grub.cfg"
                          [] iso.used = "gcd.signed" -> "boot/grub/grub.cfg"
                          [] iso.used = "grub.signed" /\ iso.job.flavor = "ubuntu" -> "EFI/ubuntu/grub.cfg"
                          [] OTHER -> "EFI/BOOT/grub.cfg"
  <2>1. cfgName \in EfiCfgs(iso.job)
    BY DEF EfiCfgs
  <2>2. \/ "grub as loader" \in iso.image
        \/ {"shim as loader", "grub"} \subseteq iso.image
        \/ GrubNotFound
    BY <1>1 DEF GrubNotFound
  <2>3. cfgName \in iso.image \intersect iso.disc
    BY <1>1, <2>1
  <2> HIDE DEF cfgName
  <2> QED BY <1>1, <2>2, <2>3 DEF DiscBootsEverywhere, Menus, cfgName
<1> QED BY <1>2, <1>3, <1>4 DEF DiscIsRight

(***************************************************************************)
(* The UKI builder.                                                        *)
(***************************************************************************)
UkiShape == uki = [job |-> uki.job, pc |-> uki.pc, src |-> uki.src, initrd |-> uki.initrd,
                   entries |-> uki.entries, next |-> uki.next, efis |-> uki.efis,
                   confs |-> uki.confs, files |-> uki.files, out |-> uki.out,
                   tmp |-> uki.tmp, res |-> uki.res]
UkiGood == UkiShape /\ UkiTypeOK /\ UkiInv
Runs(pc) == UkiGood /\ uki.job \in UkiJobs /\ uki.job # NoUkiJob /\ uki.pc = pc /\ uki.res = "none"

\* Sequences given as functions, and their concatenation.
IsSeq(s, n) == s = [i \in 1 .. n |-> s[i]]

LEMMA SeqOf ==
    ASSUME NEW n \in Nat, NEW s, IsSeq(s, n), NEW T, \A i \in 1 .. n : s[i] \in T
    PROVE  s \in Seq(T) /\ Len(s) = n
<1>1. s \in [1 .. n -> T]
  BY DEF IsSeq
<1> QED BY <1>1

Cat(s, t) == s \o t

LEMMA Joined ==
    ASSUME NEW m \in Nat, NEW n \in Nat, NEW s, NEW t, IsSeq(s, m), IsSeq(t, n)
    PROVE  /\ Len(Cat(s, t)) = m + n
           /\ \A i \in 1 .. m : Cat(s, t)[i] = s[i]
           /\ \A i \in 1 .. n : Cat(s, t)[m + i] = t[i]
           /\ IsSeq(Cat(s, t), m + n)
<1> DEFINE T == {s[i] : i \in 1 .. m} \union {t[i] : i \in 1 .. n}
<1>1. (\A i \in 1 .. m : s[i] \in T) /\ (\A i \in 1 .. n : t[i] \in T)
  OBVIOUS
<1> HIDE DEF T
<1>2. s \in Seq(T) /\ Len(s) = m /\ t \in Seq(T) /\ Len(t) = n
  BY <1>1, SeqOf
<1>3. s \o t \in Seq(T) /\ Len(s \o t) = m + n
  BY <1>2
<1>4. (\A i \in 1 .. m : (s \o t)[i] = s[i]) /\ (\A i \in 1 .. n : (s \o t)[m + i] = t[i])
  BY <1>2
<1>5. IsSeq(s \o t, m + n)
  BY <1>3 DEF IsSeq
<1> QED
  BY <1>3, <1>4, <1>5 DEF Cat

\* The entries of a job: the default one first, then the extra ones, then the single ones.
LEMMA EntriesOf ==
    ASSUME NEW job \in UkiJobs
    PROVE  /\ Len(Entries(job)) \in Nat \ {0}
           /\ DOMAIN Entries(job) = 1 .. Len(Entries(job))
           /\ Entries(job)[1].adds = IF job.extend THEN "extend" ELSE "nothing"
           /\ ~job.extend /\ ~job.v2 =>
                \A i \in 1 .. Len(job.extra) : \E k \in 1 .. Len(Entries(job)) : Entries(job)[k].adds = job.extra[i].adds
           /\ \A i \in 1 .. Len(job.single) : \E k \in 1 .. Len(Entries(job)) : Entries(job)[k].adds = job.single[i].adds
<1> DEFINE m == Len(job.extra)
           n == Len(job.single)
           C == GetUkiCmdline(job)
           S == GetUkiSingleCmdlines(job)
           X == [i \in 1 .. m |-> [adds |-> job.extra[i].adds, file |-> NameFromCmdline("norole", job.extra[i])]]
           D(a) == <<[adds |-> a, file |-> <<"norole", Bare>>]>>
<1>1. m \in Nat /\ n \in Nat
  BY UkiAssumption
<1>2. IsSeq(S, n) /\ \A i \in 1 .. n : S[i].adds = job.single[i].adds
  BY <1>1 DEF GetUkiSingleCmdlines, IsSeq
<1>3. IsSeq(X, m) /\ \A i \in 1 .. m : X[i].adds = job.extra[i].adds
  BY <1>1 DEF IsSeq
<1>4. \A a : IsSeq(D(a), 1) /\ Len(D(a)) = 1 /\ D(a)[1].adds = a
  BY DEF IsSeq
<1>5. PICK c \in Nat \ {0} :
      /\ IsSeq(C, c)
      /\ C[1].adds = IF job.extend THEN "extend" ELSE "nothing"
      /\ ~job.extend /\ ~job.v2 => c = 1 + m /\ \A i \in 1 .. m : C[1 + i].adds = job.extra[i].adds
  <2>1. CASE job.extend
    <3>1. C = D("extend")
      BY <2>1 DEF GetUkiCmdline
    <3> HIDE DEF C, D
    <3> QED BY <1>4, <2>1, <3>1
  <2>2. CASE ~job.extend /\ job.v2
    <3>1. C = D("nothing") \o <<>>
      BY <2>2 DEF GetUkiCmdline
    <3>2. C = D("nothing")
      BY <3>1
    <3> HIDE DEF C, D
    <3> QED BY <1>4, <2>2, <3>2
  <2>3. CASE ~job.extend /\ ~job.v2
    <3>1. C = D("nothing") \o X
      BY <2>3 DEF GetUkiCmdline
    <3> HIDE DEF X, D, C, m
    <3>2. IsSeq(C, 1 + m) /\ C[1] = D("nothing")[1] /\ \A i \in 1 .. m : C[1 + i] = X[i]
      <4> DEFINE d == D("nothing")
      <4>1. 1 \in Nat /\ m \in Nat /\ IsSeq(d, 1) /\ IsSeq(X, m) /\ 1 \in 1 .. 1
        BY <1>1, <1>3, <1>4
      <4> HIDE DEF d
      <4>2. C = Cat(d, X)
        BY <3>1 DEF d, Cat
      <4>3. (\A i \in 1 .. 1 : C[i] = d[i]) /\ (\A i \in 1 .. m : C[1 + i] = X[i]) /\ IsSeq(C, 1 + m)
        BY <4>1, <4>2, Joined
      <4> QED BY <4>1, <4>3 DEF d
    <3>3. 1 + m \in Nat \ {0}
      BY <1>1
    <3> QED BY <1>3, <1>4, <2>3, <3>2, <3>3
  <2> QED BY <2>1, <2>2, <2>3
<1>6. Entries(job) = Cat(C, S)
  BY DEF Entries, Cat
<1> HIDE DEF C, S, X, m, n
<1>7. /\ Len(Entries(job)) = c + n
      /\ IsSeq(Entries(job), c + n)
      /\ \A i \in 1 .. c : Entries(job)[i] = C[i]
      /\ \A i \in 1 .. n : Entries(job)[c + i] = S[i]
  <2>1. c \in Nat /\ n \in Nat /\ IsSeq(C, c) /\ IsSeq(S, n)
    BY <1>1, <1>2, <1>5
  <2> QED BY <1>6, <2>1, Joined
<1>8. Len(Entries(job)) \in Nat \ {0} /\ Entries(job)[1].adds = IF job.extend THEN "extend" ELSE "nothing"
  BY <1>1, <1>5, <1>7
<1>9. \A i \in 1 .. n : \E k \in 1 .. Len(Entries(job)) : Entries(job)[k].adds = job.single[i].adds
  <2> SUFFICES ASSUME NEW i \in 1 .. n PROVE \E k \in 1 .. Len(Entries(job)) : Entries(job)[k].adds = job.single[i].adds
    OBVIOUS
  <2>1. c + i \in 1 .. Len(Entries(job))
    BY <1>1, <1>7
  <2> QED BY <1>2, <1>7, <2>1
<1>10. ASSUME ~job.extend, ~job.v2, NEW i \in 1 .. m
       PROVE \E k \in 1 .. Len(Entries(job)) : Entries(job)[k].adds = job.extra[i].adds
  <2>1. 1 + i \in 1 .. c /\ 1 + i \in 1 .. Len(Entries(job))
    BY <1>1, <1>5, <1>7, <1>10
  <2> QED BY <1>5, <1>7, <1>10, <2>1
<1>11. DOMAIN Entries(job) = 1 .. Len(Entries(job))
  BY <1>7 DEF IsSeq
<1> QED BY <1>8, <1>9, <1>10, <1>11 DEF m, n

LEMMA UkiStarts ==
    ASSUME NEW jobs, jobs \subseteq UkiJobs \union {NoUkiJob}, UkiInit(jobs)
    PROVE  UkiGood
<1>1. PICK job \in jobs :
        uki = [job |-> job, pc |-> IF job = NoUkiJob THEN "end" ELSE "validate",
               src |-> {}, initrd |-> {}, entries |-> <<>>, next |-> 1,
               efis |-> {}, confs |-> {}, files |-> NoFiles, out |-> NoFiles,
               tmp |-> {}, res |-> "none"]
  BY DEF UkiInit
<1>2. /\ UkiShape /\ uki.job = job /\ uki.res = "none" /\ uki.tmp = {} /\ uki.src = {} /\ uki.initrd = {}
      /\ uki.next = 1 /\ uki.efis = {} /\ uki.confs = {} /\ uki.entries = <<>>
      /\ uki.pc = IF job = NoUkiJob THEN "end" ELSE "validate"
  BY <1>1 DEF UkiShape
<1>3. UkiTypeOK
  BY <1>2 DEF UkiTypeOK, UkiPcs
<1>4. UkiInv
  BY <1>2 DEF UkiInv, UkiTidy, SourceInv, EntryInv, OutputInv, InitramfsIsTheRootfs, Later
<1> QED BY <1>2, <1>3, <1>4 DEF UkiGood

LEMMA UkiFails ==
    ASSUME NEW pc, Runs(pc), NEW tmp, tmp \subseteq {"artifacts", "source", "iso", "transient", "image.tar"},
           UkiReturn([uki EXCEPT !.tmp = tmp], "failed")
    PROVE  UkiGood'
<1> DEFINE s == [uki EXCEPT !.tmp = tmp]
<1>1. /\ uki' = [s EXCEPT !.pc = "end", !.res = "failed", !.tmp = s.tmp \intersect {"image.tar"}]
      /\ s = [job |-> uki.job, pc |-> uki.pc, src |-> uki.src, initrd |-> uki.initrd,
              entries |-> uki.entries, next |-> uki.next, efis |-> uki.efis,
              confs |-> uki.confs, files |-> uki.files, out |-> uki.out,
              tmp |-> tmp, res |-> uki.res]
  BY DEF UkiReturn, Runs, UkiGood, UkiShape
<1> HIDE DEF s
<1>2. /\ UkiShape' /\ uki'.job = uki.job /\ uki'.pc = "end" /\ uki'.res = "failed" /\ uki'.src = uki.src
      /\ uki'.initrd = uki.initrd /\ uki'.tmp = tmp \intersect {"image.tar"} /\ uki'.next = uki.next
      /\ uki'.entries = uki.entries
  BY <1>1 DEF UkiShape
<1>3. UkiTypeOK'
  BY <1>2 DEF UkiTypeOK, UkiPcs, Runs, UkiGood
<1>4. UkiInv'
  BY <1>2 DEF Runs, UkiGood, UkiInv, UkiTidy, SourceInv, EntryInv, OutputInv, InitramfsIsTheRootfs, Later
<1> QED BY <1>2, <1>3, <1>4 DEF UkiGood

LEMMA UkiFailsAsIs ==
    ASSUME NEW pc, Runs(pc), UkiReturn(uki, "failed") PROVE UkiGood'
<1> DEFINE tmp == uki.tmp
<1>1. tmp \subseteq {"artifacts", "source", "iso", "transient", "image.tar"}
  BY DEF Runs, UkiGood, UkiTypeOK
<1>2. uki = [uki EXCEPT !.tmp = tmp]
  BY DEF Runs, UkiGood, UkiShape
<1>3. UkiReturn([uki EXCEPT !.tmp = tmp], "failed")
  BY <1>2
<1> QED BY <1>1, <1>3, UkiFails

\* A step of the build that leaves entries, images and output alone.
Moved(pc, src, initrd, tmp) ==
    uki' = [job |-> uki.job, pc |-> pc, src |-> src, initrd |-> initrd, entries |-> uki.entries,
            next |-> uki.next, efis |-> uki.efis, confs |-> uki.confs, files |-> uki.files,
            out |-> uki.out, tmp |-> tmp, res |-> uki.res]

SourceAt(pc, src, initrd) ==
    /\ src \subseteq Source(uki.job) \union {"loader.conf", uki.job.arch}
    /\ pc \in {"version", "setup"} => src = uki.job.rootfs
    /\ pc = "kernel" => src = Source(uki.job)
    /\ pc = "initramfs" => src = Source(uki.job) \ {"boot/vmlinuz", "boot/initrd"}
    /\ initrd # {} => initrd = (uki.job.rootfs \ (Virtual \union {"boot/vmlinuz", "boot/initrd"}))
                               \union {"init", "dirs"}

Dirs == {"artifacts", "source", "iso", "transient", "image.tar"}
Early == {"deps", "extract", "version", "setup", "kernel", "initramfs", "resolve"}

LEMMA MovedFields ==
    ASSUME NEW pc, NEW src, NEW initrd, NEW tmp, Moved(pc, src, initrd, tmp)
    PROVE  /\ UkiShape' /\ uki'.job = uki.job /\ uki'.pc = pc /\ uki'.src = src /\ uki'.initrd = initrd
           /\ uki'.entries = uki.entries /\ uki'.next = uki.next /\ uki'.efis = uki.efis
           /\ uki'.confs = uki.confs /\ uki'.files = uki.files /\ uki'.out = uki.out
           /\ uki'.tmp = tmp /\ uki'.res = uki.res
BY DEF Moved, UkiShape

LEMMA EarlyMove ==
    ASSUME NEW from \in {"validate"} \union (Early \ {"resolve"}), Runs(from), NEW pc \in Early, validate(uki.job),
           NEW src, NEW initrd, NEW tmp \in SUBSET Dirs, Moved(pc, src, initrd, tmp), SourceAt(pc, src, initrd)
    PROVE  UkiGood'
<1>1. /\ UkiShape' /\ uki'.job = uki.job /\ uki'.pc = pc /\ uki'.src = src /\ uki'.initrd = initrd
      /\ uki'.entries = uki.entries /\ uki'.next = uki.next /\ uki'.efis = uki.efis
      /\ uki'.confs = uki.confs /\ uki'.tmp = tmp /\ uki'.res = "none"
  BY MovedFields DEF Runs
<1>2. uki.next = 1 /\ uki.efis = {} /\ uki.confs = {}
  BY DEF Runs, UkiGood, UkiInv, EntryInv, Early, Later
<1>3. UkiTypeOK'
  BY <1>1 DEF UkiTypeOK, UkiPcs, Runs, UkiGood, Dirs, Early
<1>4. SourceInv'
  BY <1>1 DEF SourceInv, SourceAt, InitramfsIsTheRootfs
<1>5. EntryInv'
  BY <1>1, <1>2 DEF EntryInv, Early, Later
<1>6. OutputInv' /\ UkiTidy'
  BY <1>1 DEF OutputInv, UkiTidy, Early, Runs
<1> QED BY <1>1, <1>3, <1>4, <1>5, <1>6 DEF UkiGood, UkiInv

LEMMA LateMove ==
    ASSUME NEW from \in {"loader", "collect"}, Runs(from), NEW pc \in {"collect", "image"},
           NEW src, NEW tmp \in SUBSET Dirs, Moved(pc, src, uki.initrd, tmp),
           src \subseteq Source(uki.job) \union {"loader.conf", uki.job.arch},
           pc = "image" => uki.job.arch \in OutputOf(uki.job).plain
    PROVE  UkiGood'
<1>1. /\ UkiShape' /\ uki'.job = uki.job /\ uki'.pc = pc /\ uki'.src = src /\ uki'.initrd = uki.initrd
      /\ uki'.entries = uki.entries /\ uki'.next = uki.next /\ uki'.efis = uki.efis
      /\ uki'.confs = uki.confs /\ uki'.tmp = tmp /\ uki'.res = "none"
  BY MovedFields DEF Runs
<1>2. UkiTypeOK'
  BY <1>1 DEF UkiTypeOK, UkiPcs, Runs, UkiGood, Dirs
<1>3. SourceInv'
  BY <1>1 DEF SourceInv, Runs, UkiGood, UkiInv, InitramfsIsTheRootfs
<1>4. EntryInv'
  BY <1>1 DEF EntryInv, Runs, UkiGood, UkiInv, Later, Behind
<1>5. OutputInv' /\ UkiTidy'
  BY <1>1 DEF OutputInv, UkiTidy, Runs
<1> QED BY <1>1, <1>2, <1>3, <1>4, <1>5 DEF UkiGood, UkiInv

LEMMA UkiRuns ==
    ASSUME UkiGood, uki.job # NoUkiJob, NEW pc, UkiAt(pc), pc # "end" PROVE Runs(pc)
BY DEF UkiGood, UkiTypeOK, UkiInv, UkiTidy, UkiAt, Runs

LEMMA UkiPrepares ==
    ASSUME UkiGood, uki.job # NoUkiJob,
           \/ Validated \/ checkBuildUKIDeps \/ DumpSources \/ findKairosVersion
           \/ setupDirectoriesAndFiles \/ copyKernel \/ createInitramfs
    PROVE  UkiGood'
<1> DEFINE J == uki.job
<1>0. UkiShape /\ uki.tmp \in SUBSET Dirs
  BY DEF UkiGood, UkiTypeOK, Dirs
<1>f. ASSUME NEW pc, pc # "end", UkiAt(pc), UkiReturn(uki, "failed") PROVE UkiGood'
  BY <1>f, UkiRuns, UkiFailsAsIs
<1>v. ASSUME NEW pc \in Early, Runs(pc) PROVE validate(J) /\ SourceInv
  BY <1>v DEF Runs, UkiGood, UkiInv, EntryInv, Early
<1>1. CASE UkiAt("validate") /\ validate(J) /\ uki' = [uki EXCEPT !.pc = "deps"]
  <2>1. Runs("validate") /\ SourceInv
    BY <1>1, UkiRuns DEF Runs, UkiGood, UkiInv
  <2>2. Moved("deps", uki.src, uki.initrd, uki.tmp)
    BY <1>0, <1>1 DEF Moved, UkiShape
  <2>3. SourceAt("deps", uki.src, uki.initrd)
    BY <2>1 DEF SourceInv, SourceAt, InitramfsIsTheRootfs
  <2> QED BY <1>0, <1>1, <2>1, <2>2, <2>3, EarlyMove DEF Early
<1>2. CASE UkiAt("deps") /\ uki' = [uki EXCEPT !.pc = "extract", !.tmp = {"artifacts", "source"}]
  <2> DEFINE tmp == {"artifacts", "source"}
  <2>1. Runs("deps") /\ SourceInv /\ validate(J)
    BY <1>2, <1>v, UkiRuns DEF Early
  <2>2. Moved("extract", uki.src, uki.initrd, tmp) /\ tmp \in SUBSET Dirs
    BY <1>0, <1>2 DEF Moved, UkiShape, Dirs
  <2>3. SourceAt("extract", uki.src, uki.initrd)
    BY <2>1 DEF SourceInv, SourceAt, InitramfsIsTheRootfs
  <2> HIDE DEF tmp
  <2> QED BY <2>1, <2>2, <2>3, EarlyMove DEF Early
<1>3. CASE UkiAt("extract") /\ uki' = [uki EXCEPT !.pc = "version", !.src = J.rootfs]
  <2>1. Runs("extract") /\ SourceInv /\ validate(J)
    BY <1>3, <1>v, UkiRuns DEF Early
  <2>2. Moved("version", J.rootfs, uki.initrd, uki.tmp)
    BY <1>0, <1>3 DEF Moved, UkiShape
  <2>3. SourceAt("version", J.rootfs, uki.initrd)
    BY <2>1 DEF SourceInv, SourceAt, InitramfsIsTheRootfs, Source
  <2> QED BY <1>0, <2>1, <2>2, <2>3, EarlyMove DEF Early
<1>4. CASE UkiAt("version") /\ uki' = [uki EXCEPT !.pc = "setup"]
  <2>1. Runs("version") /\ SourceInv /\ validate(J)
    BY <1>4, <1>v, UkiRuns DEF Early
  <2>2. Moved("setup", uki.src, uki.initrd, uki.tmp)
    BY <1>0, <1>4 DEF Moved, UkiShape
  <2>3. SourceAt("setup", uki.src, uki.initrd)
    BY <2>1 DEF SourceInv, SourceAt, InitramfsIsTheRootfs, Runs
  <2> QED BY <1>0, <2>1, <2>2, <2>3, EarlyMove DEF Early
<1>5. CASE UkiAt("setup") /\ uki' = [uki EXCEPT !.pc = "kernel", !.src = uki.src \union {"init", "dirs"}]
  <2> DEFINE src == uki.src \union {"init", "dirs"}
  <2>1. Runs("setup") /\ SourceInv /\ validate(J)
    BY <1>5, <1>v, UkiRuns DEF Early
  <2>2. Moved("kernel", src, uki.initrd, uki.tmp)
    BY <1>0, <1>5 DEF Moved, UkiShape
  <2>3. SourceAt("kernel", src, uki.initrd)
    BY <2>1 DEF SourceInv, SourceAt, InitramfsIsTheRootfs, Runs, Source
  <2> HIDE DEF src
  <2> QED BY <1>0, <2>1, <2>2, <2>3, EarlyMove DEF Early
<1>6. CASE UkiAt("kernel") /\ uki' = [uki EXCEPT !.pc = "initramfs", !.src = uki.src \ {"boot/vmlinuz", "boot/initrd"}]
  <2> DEFINE src == uki.src \ {"boot/vmlinuz", "boot/initrd"}
  <2>1. Runs("kernel") /\ SourceInv /\ validate(J)
    BY <1>6, <1>v, UkiRuns DEF Early
  <2>2. Moved("initramfs", src, uki.initrd, uki.tmp)
    BY <1>0, <1>6 DEF Moved, UkiShape
  <2>3. SourceAt("initramfs", src, uki.initrd)
    BY <2>1 DEF SourceInv, SourceAt, InitramfsIsTheRootfs, Runs
  <2> HIDE DEF src
  <2> QED BY <1>0, <2>1, <2>2, <2>3, EarlyMove DEF Early
<1>7. CASE UkiAt("initramfs") /\ uki' = [uki EXCEPT !.pc = "resolve", !.initrd = uki.src \ Virtual]
  <2> DEFINE initrd == uki.src \ Virtual
  <2>1. Runs("initramfs") /\ SourceInv /\ validate(J)
    BY <1>7, <1>v, UkiRuns DEF Early
  <2>2. Moved("resolve", uki.src, initrd, uki.tmp)
    BY <1>0, <1>7 DEF Moved, UkiShape
  <2>3. initrd = (J.rootfs \ (Virtual \union {"boot/vmlinuz", "boot/initrd"})) \union {"init", "dirs"}
    <3>1. uki.src = (J.rootfs \union {"init", "dirs"}) \ {"boot/vmlinuz", "boot/initrd"}
      BY <2>1 DEF SourceInv, Runs, Source
    <3> QED BY <3>1 DEF Virtual
  <2>4. SourceAt("resolve", uki.src, initrd)
    BY <2>1, <2>3 DEF SourceInv, SourceAt
  <2> HIDE DEF initrd
  <2> QED BY <1>0, <2>1, <2>2, <2>4, EarlyMove DEF Early
<1> HIDE DEF J
<1> QED BY <1>f, <1>1, <1>2, <1>3, <1>4, <1>5, <1>6, <1>7
       DEF Validated, checkBuildUKIDeps, DumpSources, findKairosVersion, setupDirectoriesAndFiles, copyKernel,
           createInitramfs, UkiGoes, UkiRefused, J

LEMMA UkiResolves ==
    ASSUME UkiGood, uki.job # NoUkiJob, resolveSdBootFiles PROVE UkiGood'
<1>0. Runs("resolve") /\ UkiShape
  BY UkiRuns DEF resolveSdBootFiles, UkiGoes, UkiRefused, UkiAt, UkiGood
<1>1. CASE UkiReturn(uki, "failed")
  BY <1>0, <1>1, UkiFailsAsIs
<1>2. CASE ~UkiReturn(uki, "failed")
  <2> DEFINE E == Entries(uki.job)
  <2>1. uki' = [uki EXCEPT !.pc = "ukify", !.entries = E]
    BY <1>2 DEF resolveSdBootFiles, UkiGoes, UkiRefused
  <2>2. Len(E) \in Nat \ {0}
    BY <1>0, EntriesOf DEF Runs
  <2> HIDE DEF E
  <2>3. /\ UkiShape' /\ uki'.job = uki.job /\ uki'.pc = "ukify" /\ uki'.src = uki.src
        /\ uki'.initrd = uki.initrd /\ uki'.entries = E /\ uki'.next = uki.next /\ uki'.efis = uki.efis
        /\ uki'.confs = uki.confs /\ uki'.tmp = uki.tmp /\ uki'.res = uki.res
    BY <1>0, <2>1 DEF UkiShape
  <2>4. uki.next = 1 /\ uki.efis = {} /\ uki.confs = {} /\ validate(uki.job) /\ uki.res = "none"
    BY <1>0 DEF Runs, UkiGood, UkiInv, EntryInv, Later
  <2>5. UkiTypeOK'
    BY <1>0, <2>2, <2>3, <2>4 DEF UkiTypeOK, UkiPcs, Runs, UkiGood
  <2>6. SourceInv'
    BY <1>0, <2>3 DEF SourceInv, Runs, UkiGood, UkiInv, InitramfsIsTheRootfs
  <2>7. EntryInv'
    <3>1. EfisUpTo(uki.job, 0) = {} /\ ConfsUpTo(uki.job, 0) = {}
      BY DEF EfisUpTo, ConfsUpTo
    <3>2. Behind' = 0
      BY <2>3, <2>4 DEF Behind
    <3>3. uki'.next - 1 = 0 /\ uki'.next \in 1 .. Len(E)
      BY <2>2, <2>3, <2>4
    <3> QED BY <2>3, <2>4, <3>1, <3>2, <3>3 DEF EntryInv, Later, E
  <2>8. OutputInv' /\ UkiTidy'
    BY <1>0, <2>3, <2>4 DEF OutputInv, UkiTidy, Runs
  <2> QED BY <2>3, <2>5, <2>6, <2>7, <2>8 DEF UkiGood, UkiInv
<1> QED BY <1>1, <1>2

\* No .efi replaces another: the names of the entries are distinct.
LEMMA NextEfi ==
    ASSUME NEW job \in UkiJobs, NEW n \in 1 .. Len(Entries(job))
    PROVE  LET e == Entries(job)[n]
           IN  {f \in EfisUpTo(job, n - 1) : f.file # e.file} \union {EfiOf(job, e)} = EfisUpTo(job, n)
<1> DEFINE E == Entries(job)
           e == E[n]
           L == {f \in EfisUpTo(job, n - 1) : f.file # e.file} \union {EfiOf(job, e)}
<1>0. Len(E) \in Nat /\ n \in Nat
  BY EntriesOf
<1>1. \A x : EfiOf(job, x).file = x.file
  BY DEF EfiOf
<1>2. \A i \in 1 .. n - 1 : E[i].file # e.file
  BY <1>0, UkiAssumption
<1>3. ASSUME NEW f \in L PROVE f \in EfisUpTo(job, n)
  <2>1. \E i \in 1 .. n : f = EfiOf(job, E[i])
    BY <1>0, <1>3 DEF EfisUpTo
  <2> QED BY <2>1 DEF EfisUpTo
<1>4. ASSUME NEW f \in EfisUpTo(job, n) PROVE f \in L
  <2>1. PICK i \in 1 .. n : f = EfiOf(job, E[i])
    BY <1>4 DEF EfisUpTo
  <2>2. CASE i = n BY <2>1, <2>2
  <2>3. CASE i # n
    <3>1. i \in 1 .. n - 1
      BY <1>0, <2>3
    <3>2. f.file # e.file /\ f \in EfisUpTo(job, n - 1)
      BY <1>1, <1>2, <2>1, <3>1 DEF EfisUpTo
    <3> QED BY <3>2
  <2> QED BY <2>2, <2>3
<1> HIDE DEF L
<1>5. L = EfisUpTo(job, n)
  BY <1>3, <1>4
<1> QED BY <1>5 DEF L

LEMMA NextConfs ==
    ASSUME NEW job \in UkiJobs, NEW n \in 1 .. Len(Entries(job))
    PROVE  ConfsUpTo(job, n - 1) \union ConfsOf(job, Entries(job)[n]) = ConfsUpTo(job, n)
<1> DEFINE C(i) == ConfsOf(job, Entries(job)[i])
<1>0. Len(Entries(job)) \in Nat /\ n \in Nat
  BY EntriesOf
<1>1. \A m : \A c : c \in ConfsUpTo(job, m) <=> \E i \in 1 .. m : c \in C(i)
  BY DEF ConfsUpTo
<1> HIDE DEF C
<1>2. \A c : c \in ConfsUpTo(job, n) <=> c \in ConfsUpTo(job, n - 1) \/ c \in C(n)
  <2>1. \A i : i \in 1 .. n <=> i \in 1 .. n - 1 \/ i = n
    BY <1>0
  <2> QED BY <1>1, <2>1
<1>3. ConfsUpTo(job, n) = ConfsUpTo(job, n - 1) \union C(n)
  BY <1>2
<1> QED BY <1>3 DEF C

LEMMA UkiUkifies ==
    ASSUME UkiGood, uki.job # NoUkiJob, ukify PROVE UkiGood'
<1>0. Runs("ukify") /\ UkiShape
  BY UkiRuns DEF ukify, UkiGoes, UkiAt, UkiGood
<1>1. CASE UkiReturn(uki, "failed")
  BY <1>0, <1>1, UkiFailsAsIs
<1>2. CASE ~UkiReturn(uki, "failed")
  <2> DEFINE e == uki.entries[uki.next]
             efis == {f \in uki.efis : f.file # e.file} \union {EfiOf(uki.job, e)}
             src == uki.src \union {uki.job.arch}
  <2>1. uki' = [uki EXCEPT !.pc = "conf", !.efis = efis, !.src = src]
    BY <1>2 DEF ukify, UkiGoes
  <2>2. /\ uki.entries = Entries(uki.job) /\ uki.efis = EfisUpTo(uki.job, uki.next - 1)
        /\ uki.next \in 1 .. Len(uki.entries) /\ uki.confs = ConfsUpTo(uki.job, uki.next - 1)
        /\ validate(uki.job) /\ uki.res = "none"
    BY <1>0 DEF Runs, UkiGood, UkiInv, EntryInv, Later, Behind
  <2>3. efis = EfisUpTo(uki.job, uki.next)
    BY <1>0, <2>2, NextEfi DEF Runs
  <2>4. src \subseteq Source(uki.job) \union {"loader.conf", uki.job.arch}
    BY <1>0 DEF Runs, UkiGood, UkiInv, SourceInv
  <2> HIDE DEF efis, src
  <2>5. /\ UkiShape' /\ uki'.job = uki.job /\ uki'.pc = "conf" /\ uki'.src = src
        /\ uki'.initrd = uki.initrd /\ uki'.entries = uki.entries /\ uki'.next = uki.next /\ uki'.efis = efis
        /\ uki'.confs = uki.confs /\ uki'.tmp = uki.tmp /\ uki'.res = uki.res
    BY <1>0, <2>1 DEF UkiShape
  <2>6. UkiTypeOK'
    BY <1>0, <2>5 DEF UkiTypeOK, UkiPcs, Runs, UkiGood
  <2>7. SourceInv'
    BY <1>0, <2>4, <2>5 DEF SourceInv, Runs, UkiGood, UkiInv, InitramfsIsTheRootfs
  <2>8. EntryInv'
    <3>1. Behind' = uki.next
      BY <2>5 DEF Behind
    <3> QED BY <2>2, <2>3, <2>5, <3>1 DEF EntryInv, Later
  <2>9. OutputInv' /\ UkiTidy'
    BY <1>0, <2>2, <2>5 DEF OutputInv, UkiTidy, Runs
  <2> QED BY <2>5, <2>6, <2>7, <2>8, <2>9 DEF UkiGood, UkiInv
<1> QED BY <1>1, <1>2

LEMMA UkiConfs ==
    ASSUME UkiGood, uki.job # NoUkiJob, createConfFiles PROVE UkiGood'
<1>0. Runs("conf") /\ UkiShape
  BY UkiRuns DEF createConfFiles, UkiGoes, UkiAt, UkiGood
<1>1. CASE UkiReturn(uki, "failed")
  BY <1>0, <1>1, UkiFailsAsIs
<1>2. CASE ~UkiReturn(uki, "failed")
  <2> DEFINE e == uki.entries[uki.next]
             confs == uki.confs \union ConfsOf(uki.job, e)
             pc == IF uki.next = Len(uki.entries) THEN "loader" ELSE "ukify"
  <2>1. uki' = [uki EXCEPT !.next = uki.next + 1, !.confs = confs, !.pc = pc]
    BY <1>2 DEF createConfFiles, UkiGoes
  <2>2. /\ uki.entries = Entries(uki.job) /\ uki.efis = EfisUpTo(uki.job, uki.next)
        /\ uki.next \in 1 .. Len(uki.entries) /\ uki.confs = ConfsUpTo(uki.job, uki.next - 1)
        /\ validate(uki.job) /\ uki.res = "none"
    BY <1>0 DEF Runs, UkiGood, UkiInv, EntryInv, Later, Behind
  <2>3. confs = ConfsUpTo(uki.job, uki.next)
    BY <1>0, <2>2, NextConfs DEF Runs
  <2>4. /\ pc \in {"loader", "ukify"} /\ Len(uki.entries) \in Nat /\ uki.next \in Nat
        /\ pc = "loader" => uki.next = Len(uki.entries)
        /\ pc = "ukify" => uki.next + 1 \in 1 .. Len(uki.entries)
    <3>1. Len(uki.entries) \in Nat
      BY <1>0, <2>2, EntriesOf DEF Runs
    <3> QED BY <2>2, <3>1
  <2> HIDE DEF confs, pc
  <2>5. /\ UkiShape' /\ uki'.job = uki.job /\ uki'.pc = pc /\ uki'.src = uki.src
        /\ uki'.initrd = uki.initrd /\ uki'.entries = uki.entries /\ uki'.next = uki.next + 1
        /\ uki'.efis = uki.efis
        /\ uki'.confs = confs /\ uki'.tmp = uki.tmp /\ uki'.res = uki.res
    BY <1>0, <2>1 DEF UkiShape
  <2>6. UkiTypeOK'
    BY <1>0, <2>2, <2>4, <2>5 DEF UkiTypeOK, UkiPcs, Runs, UkiGood
  <2>7. SourceInv'
    BY <1>0, <2>4, <2>5 DEF SourceInv, Runs, UkiGood, UkiInv, InitramfsIsTheRootfs
  <2>8. EntryInv'
    <3>1. Behind' = uki.next /\ uki'.next - 1 = uki.next
      BY <2>4, <2>5 DEF Behind
    <3> QED BY <2>2, <2>3, <2>4, <2>5, <3>1 DEF EntryInv, Later
  <2>9. OutputInv' /\ UkiTidy'
    BY <1>0, <2>2, <2>4, <2>5 DEF OutputInv, UkiTidy, Runs
  <2> QED BY <2>5, <2>6, <2>7, <2>8, <2>9 DEF UkiGood, UkiInv
<1> QED BY <1>1, <1>2

\* Once every entry is done, the files listed for the output are those of all entries, and
\* they are all there only when the loader listed is the one of the job's architecture.
LEMMA Collected ==
    ASSUME NEW pc \in {"collect", "image"}, Runs(pc)
    PROVE  /\ imageFiles = OutputOf(uki.job)
           /\ AllThere => uki.job.arch \in OutputOf(uki.job).plain
<1> DEFINE J == uki.job
           n == Len(Entries(J))
           loader == IF J.arch = "arm64" THEN "arm64" ELSE "amd64"
           E == {f \in uki.efis : \E i \in DOMAIN uki.entries : uki.entries[i].file = f.file}
<1>1. /\ J \in UkiJobs /\ uki.entries = Entries(J) /\ uki.next = n + 1
      /\ uki.efis = EfisUpTo(J, uki.next - 1) /\ uki.confs = ConfsUpTo(J, uki.next - 1)
      /\ uki.src \subseteq Source(J) \union {"loader.conf", J.arch}
  BY DEF Runs, UkiGood, UkiInv, EntryInv, SourceInv, Later, Behind
<1>2. n \in Nat
  BY <1>1, EntriesOf
<1>3. uki.next - 1 = n
  BY <1>1, <1>2
<1>4. uki.efis = EfisUpTo(J, n) /\ uki.confs = ConfsUpTo(J, n)
  BY <1>1, <1>3
<1>5. E = EfisUpTo(J, n)
  <2>2. DOMAIN uki.entries = 1 .. n
    BY <1>1, EntriesOf
  <2>3. ASSUME NEW f \in EfisUpTo(J, n) PROVE \E i \in DOMAIN uki.entries : uki.entries[i].file = f.file
    <3>1. PICK i \in 1 .. n : f = EfiOf(J, Entries(J)[i])
      BY DEF EfisUpTo
    <3>2. f.file = Entries(J)[i].file
      BY <3>1 DEF EfiOf
    <3> QED BY <1>1, <2>2, <3>2
  <2> QED BY <1>4, <2>3
<1>6. imageFiles = [efis |-> E, confs |-> uki.confs, plain |-> {"loader.conf", "keys", loader}]
  BY DEF imageFiles
<1>7. OutputOf(J) = [efis |-> EfisUpTo(J, n), confs |-> ConfsUpTo(J, n), plain |-> {"loader.conf", "keys", loader}]
  BY DEF OutputOf
<1>8. J.rootfs \subseteq SourceFiles
  BY <1>1, UkiAssumption
<1> HIDE DEF E, n, J
<1>9. imageFiles = OutputOf(J)
  BY <1>4, <1>5, <1>6, <1>7
<1>10. ASSUME AllThere PROVE J.arch \in {"loader.conf", "keys", loader}
  <2>1. imageFiles.plain = {"loader.conf", "keys", loader}
    BY <1>6
  <2>2. loader \in uki.src \union {"keys"}
    BY <1>10, <2>1 DEF AllThere
  <2> QED BY <1>1, <1>8, <2>2 DEF Source, SourceFiles
<1>11. OutputOf(J).plain = {"loader.conf", "keys", loader}
  BY <1>7
<1> QED BY <1>9, <1>10, <1>11 DEF J

\* The output is handed on, and the build returns it.
Handed(pc, tmp) ==
    uki' = [job |-> uki.job, pc |-> pc, src |-> uki.src, initrd |-> uki.initrd, entries |-> uki.entries,
            next |-> uki.next, efis |-> uki.efis, confs |-> uki.confs, files |-> OutputOf(uki.job),
            out |-> uki.out, tmp |-> tmp, res |-> uki.res]

LEMMA UkiHands ==
    ASSUME NEW from \in {"collect", "image"}, Runs(from), NEW pc \in {"burn", "tar"},
           NEW tmp \in SUBSET Dirs, Handed(pc, tmp), uki.job.arch \in OutputOf(uki.job).plain
    PROVE  UkiGood'
<1> DEFINE files == OutputOf(uki.job)
<1>0. uki' = [job |-> uki.job, pc |-> pc, src |-> uki.src, initrd |-> uki.initrd, entries |-> uki.entries,
              next |-> uki.next, efis |-> uki.efis, confs |-> uki.confs, files |-> files,
              out |-> uki.out, tmp |-> tmp, res |-> uki.res]
  BY DEF Handed
<1> HIDE DEF files
<1>1. /\ UkiShape' /\ uki'.job = uki.job /\ uki'.pc = pc /\ uki'.src = uki.src /\ uki'.initrd = uki.initrd
      /\ uki'.entries = uki.entries /\ uki'.next = uki.next /\ uki'.efis = uki.efis
      /\ uki'.confs = uki.confs /\ uki'.files = files /\ uki'.tmp = tmp /\ uki'.res = "none"
  BY <1>0 DEF Runs, UkiShape
<1>2. UkiTypeOK'
  BY <1>1 DEF UkiTypeOK, UkiPcs, Runs, UkiGood, Dirs
<1>3. SourceInv'
  BY <1>1 DEF SourceInv, Runs, UkiGood, UkiInv, InitramfsIsTheRootfs
<1>4. EntryInv'
  BY <1>1 DEF EntryInv, Runs, UkiGood, UkiInv, Later, Behind
<1>5. OutputInv' /\ UkiTidy'
  BY <1>1 DEF OutputInv, UkiTidy, Runs, files
<1> QED BY <1>1, <1>2, <1>3, <1>4, <1>5 DEF UkiGood, UkiInv

LEMMA OutAndTmp ==
    ASSUME UkiShape, NEW out, NEW tmp
    PROVE  [uki EXCEPT !.out = out, !.tmp = tmp] =
             [job |-> uki.job, pc |-> uki.pc, src |-> uki.src, initrd |-> uki.initrd,
              entries |-> uki.entries, next |-> uki.next, efis |-> uki.efis,
              confs |-> uki.confs, files |-> uki.files, out |-> out,
              tmp |-> tmp, res |-> uki.res]
<1> DEFINE s == [uki EXCEPT !.out = out]
<1>1. s = [job |-> uki.job, pc |-> uki.pc, src |-> uki.src, initrd |-> uki.initrd,
           entries |-> uki.entries, next |-> uki.next, efis |-> uki.efis,
           confs |-> uki.confs, files |-> uki.files, out |-> out,
           tmp |-> uki.tmp, res |-> uki.res]
  BY DEF UkiShape
<1>2. [uki EXCEPT !.out = out, !.tmp = tmp] = [s EXCEPT !.tmp = tmp]
  OBVIOUS
<1> HIDE DEF s
<1>3. [s EXCEPT !.tmp = tmp] =
             [job |-> uki.job, pc |-> uki.pc, src |-> uki.src, initrd |-> uki.initrd,
              entries |-> uki.entries, next |-> uki.next, efis |-> uki.efis,
              confs |-> uki.confs, files |-> uki.files, out |-> out,
              tmp |-> tmp, res |-> uki.res]
  BY <1>1
<1> QED BY <1>2, <1>3

LEMMA UkiSucceeds ==
    ASSUME NEW from \in {"collect", "burn", "tar"}, Runs(from), uki.job.arch \in OutputOf(uki.job).plain,
           NEW tmp \in SUBSET Dirs,
           UkiReturn([uki EXCEPT !.out = OutputOf(uki.job), !.tmp = tmp], "ok")
    PROVE  UkiGood'
<1> DEFINE out == OutputOf(uki.job)
           s == [uki EXCEPT !.out = out, !.tmp = tmp]
<1>0. uki' = [s EXCEPT !.pc = "end", !.res = "ok", !.tmp = s.tmp \intersect {"image.tar"}]
  BY DEF UkiReturn
<1> HIDE DEF out
<1>1. s = [job |-> uki.job, pc |-> uki.pc, src |-> uki.src, initrd |-> uki.initrd,
           entries |-> uki.entries, next |-> uki.next, efis |-> uki.efis,
           confs |-> uki.confs, files |-> uki.files, out |-> out,
           tmp |-> tmp, res |-> uki.res]
  BY OutAndTmp DEF Runs, UkiGood
<1> HIDE DEF s
<1>2. /\ UkiShape' /\ uki'.job = uki.job /\ uki'.pc = "end" /\ uki'.res = "ok" /\ uki'.src = uki.src
      /\ uki'.initrd = uki.initrd /\ uki'.tmp = tmp \intersect {"image.tar"} /\ uki'.next = uki.next
      /\ uki'.entries = uki.entries /\ uki'.out = out
  BY <1>0, <1>1 DEF UkiShape
<1>3. UkiTypeOK'
  BY <1>2 DEF UkiTypeOK, UkiPcs, Runs, UkiGood
<1>4. SourceInv'
  BY <1>2 DEF SourceInv, Runs, UkiGood, UkiInv, InitramfsIsTheRootfs
<1>5. EntryInv'
  BY <1>2 DEF EntryInv, Later
<1>6. validate(uki.job)
  BY DEF EntryInv, Runs, UkiGood, UkiInv, Later
<1>7. OutputInv'
  BY <1>2, <1>6 DEF OutputInv, out
<1>8. UkiTidy'
  BY <1>2 DEF UkiTidy, Runs
<1> QED BY <1>2, <1>3, <1>4, <1>5, <1>7, <1>8 DEF UkiGood, UkiInv

LEMMA UkiPacks ==
    ASSUME UkiGood, uki.job # NoUkiJob,
           createSystemdConf \/ createArtifact \/ createContainer \/ createISO \/ copyFilesToImg \/ burnUkiISO
    PROVE  UkiGood'
<1> DEFINE O == OutputOf(uki.job)
<1>0. UkiShape /\ uki.tmp \in SUBSET Dirs
  BY DEF UkiGood, UkiTypeOK, Dirs
<1>f. ASSUME NEW pc, pc # "end", UkiAt(pc), UkiReturn(uki, "failed") PROVE UkiGood'
  BY <1>f, UkiRuns, UkiFailsAsIs
<1>o. ASSUME NEW pc \in {"burn", "tar"}, Runs(pc) PROVE uki.files = O /\ uki.job.arch \in O.plain
  BY <1>o DEF Runs, UkiGood, UkiInv, OutputInv
<1>1. CASE UkiAt("loader") /\ uki' = [uki EXCEPT !.pc = "collect", !.src = uki.src \union {"loader.conf"}]
  <2> DEFINE src == uki.src \union {"loader.conf"}
  <2>1. Runs("loader") /\ SourceInv
    BY <1>1, UkiRuns DEF Runs, UkiGood, UkiInv
  <2>2. Moved("collect", src, uki.initrd, uki.tmp)
    BY <1>0, <1>1 DEF Moved, UkiShape
  <2>3. src \subseteq Source(uki.job) \union {"loader.conf", uki.job.arch}
    BY <2>1 DEF SourceInv
  <2> HIDE DEF src
  <2> QED BY <1>0, <2>1, <2>2, <2>3, LateMove
<1>2. CASE UkiAt("collect") /\ AllThere /\ UkiReturn([uki EXCEPT !.out = imageFiles], "ok")
  <2> DEFINE tmp == uki.tmp
  <2>1. Runs("collect") /\ imageFiles = O /\ uki.job.arch \in O.plain
    BY <1>2, UkiRuns, Collected
  <2> HIDE DEF O
  <2>2. [uki EXCEPT !.out = imageFiles] = [uki EXCEPT !.out = O, !.tmp = tmp]
    BY <1>0, <2>1 DEF UkiShape
  <2>3. UkiReturn([uki EXCEPT !.out = O, !.tmp = tmp], "ok")
    BY <1>2, <2>2
  <2> HIDE DEF tmp
  <2>4. tmp \in SUBSET Dirs
    BY <1>0 DEF tmp
  <2> QED BY <2>1, <2>3, <2>4, UkiSucceeds DEF O
<1>3. CASE /\ UkiAt("collect") /\ AllThere
           /\ uki' = [uki EXCEPT !.files = imageFiles, !.pc = "tar", !.tmp = uki.tmp \union {"transient", "image.tar"}]
  <2> DEFINE tmp == uki.tmp \union {"transient", "image.tar"}
  <2>1. Runs("collect") /\ imageFiles = O /\ uki.job.arch \in O.plain
    BY <1>3, UkiRuns, Collected
  <2>2. tmp \in SUBSET Dirs
    BY <1>0 DEF Dirs
  <2> HIDE DEF O
  <2>3. Handed("tar", tmp)
    <3>1. uki' = [uki EXCEPT !.files = O, !.pc = "tar", !.tmp = tmp]
      BY <1>3, <2>1
    <3> HIDE DEF tmp
    <3> QED BY <1>0, <3>1 DEF UkiShape, Handed, O
  <2> HIDE DEF tmp
  <2> QED BY <2>1, <2>2, <2>3, UkiHands DEF O
<1>4. CASE UkiAt("tar") /\ UkiReturn([uki EXCEPT !.out = uki.files, !.tmp = uki.tmp \ {"image.tar"}], "ok")
  <2> DEFINE tmp == uki.tmp \ {"image.tar"}
  <2>1. Runs("tar") /\ uki.files = O /\ uki.job.arch \in O.plain
    BY <1>4, <1>o, UkiRuns
  <2>2. tmp \in SUBSET Dirs
    BY <1>0
  <2> HIDE DEF O
  <2>3. UkiReturn([uki EXCEPT !.out = O, !.tmp = tmp], "ok")
    BY <1>4, <2>1
  <2> HIDE DEF tmp
  <2> QED BY <2>1, <2>2, <2>3, UkiSucceeds DEF O
<1>5. CASE UkiAt("tar") /\ UkiReturn([uki EXCEPT !.tmp = uki.tmp \ {"image.tar"}], "failed")
  <2> DEFINE tmp == uki.tmp \ {"image.tar"}
  <2>1. Runs("tar")
    BY <1>5, UkiRuns
  <2>2. tmp \subseteq {"artifacts", "source", "iso", "transient", "image.tar"}
    BY <1>0 DEF Dirs
  <2>3. UkiReturn([uki EXCEPT !.tmp = tmp], "failed")
    BY <1>5
  <2> HIDE DEF tmp
  <2> QED BY <2>1, <2>2, <2>3, UkiFails
<1>6. CASE UkiAt("collect") /\ AllThere /\ uki' = [uki EXCEPT !.pc = "image", !.tmp = uki.tmp \union {"iso"}]
  <2> DEFINE tmp == uki.tmp \union {"iso"}
  <2>1. Runs("collect") /\ uki.job.arch \in O.plain /\ SourceInv
    BY <1>6, UkiRuns, Collected DEF Runs, UkiGood, UkiInv
  <2>2. Moved("image", uki.src, uki.initrd, tmp) /\ tmp \in SUBSET Dirs
    BY <1>0, <1>6 DEF Moved, UkiShape, Dirs
  <2>3. uki.src \subseteq Source(uki.job) \union {"loader.conf", uki.job.arch}
    BY <2>1 DEF SourceInv
  <2> HIDE DEF tmp
  <2> QED BY <2>1, <2>2, <2>3, LateMove
<1>7. CASE UkiAt("image") /\ uki' = [uki EXCEPT !.pc = "burn", !.files = imageFiles]
  <2>1. Runs("image") /\ imageFiles = O
    BY <1>7, UkiRuns, Collected
  <2>2. uki.job.arch \in O.plain
    BY <2>1 DEF Runs, UkiGood, UkiInv, OutputInv
  <2> HIDE DEF O
  <2>3. Handed("burn", uki.tmp)
    <3>1. uki' = [uki EXCEPT !.pc = "burn", !.files = O]
      BY <1>7, <2>1
    <3> QED BY <1>0, <3>1 DEF UkiShape, Handed, O
  <2> QED BY <1>0, <2>1, <2>2, <2>3, UkiHands DEF O
<1>8. CASE UkiAt("burn") /\ UkiReturn([uki EXCEPT !.out = uki.files], "ok")
  <2> DEFINE tmp == uki.tmp
  <2>1. Runs("burn") /\ uki.files = O /\ uki.job.arch \in O.plain
    BY <1>8, <1>o, UkiRuns
  <2> HIDE DEF O
  <2>2. [uki EXCEPT !.out = uki.files] = [uki EXCEPT !.out = O, !.tmp = tmp]
    BY <1>0, <2>1 DEF UkiShape
  <2>3. UkiReturn([uki EXCEPT !.out = O, !.tmp = tmp], "ok")
    BY <1>8, <2>2
  <2> HIDE DEF tmp
  <2>4. tmp \in SUBSET Dirs
    BY <1>0 DEF tmp
  <2> QED BY <2>1, <2>3, <2>4, UkiSucceeds DEF O
<1> HIDE DEF O
<1> QED BY <1>f, <1>1, <1>2, <1>3, <1>4, <1>5, <1>6, <1>7, <1>8
       DEF createSystemdConf, createArtifact, createContainer, createISO, copyFilesToImg, burnUkiISO, UkiGoes

LEMMA UkiStep ==
    ASSUME UkiGood, [UkiNext]_uki PROVE UkiGood'
<1>1. CASE uki' = uki
  BY <1>1 DEF UkiGood, UkiShape, UkiTypeOK, UkiInv, UkiTidy, SourceInv, EntryInv, OutputInv, Behind,
              InitramfsIsTheRootfs
<1>2. CASE UkiNext
  BY <1>2, UkiPrepares, UkiResolves, UkiUkifies, UkiConfs, UkiPacks DEF UkiNext
<1> QED BY <1>1, <1>2

\* The output of all entries has what EveryCmdlineBoots asks of it.
LEMMA OutputBoots ==
    ASSUME NEW job \in UkiJobs, validate(job)
    PROVE  LET out == OutputOf(job)
           IN  /\ \A c \in out.confs : \E f \in out.efis : c.efi = f.file /\ c.profile \in f.profiles
               /\ \A f \in out.efis : \A p \in f.profiles : [efi |-> f.file, profile |-> p] \in out.confs
               /\ \A i \in 1 .. Len(job.single) : \E f \in out.efis : f.adds = job.single[i].adds
               /\ job.v2 => \A f \in out.efis : Cardinality(f.profiles) = Len(job.extra) + 1
               /\ ~job.v2 => \A i \in 1 .. Len(job.extra) : \E f \in out.efis : f.adds = job.extra[i].adds
               /\ \E f \in out.efis : f.adds = IF job.extend THEN "extend" ELSE "nothing"
<1> DEFINE out == OutputOf(job)
           E == Entries(job)
           n == Len(E)
           P == Profiles(job)
<1>1. /\ n \in Nat \ {0}
      /\ E[1].adds = IF job.extend THEN "extend" ELSE "nothing"
      /\ ~job.extend /\ ~job.v2 => \A i \in 1 .. Len(job.extra) : \E k \in 1 .. n : E[k].adds = job.extra[i].adds
      /\ \A i \in 1 .. Len(job.single) : \E k \in 1 .. n : E[k].adds = job.single[i].adds
  BY EntriesOf
<1>2. out.efis = EfisUpTo(job, n) /\ out.confs = ConfsUpTo(job, n)
  BY DEF OutputOf
<1>3. \A e : EfiOf(job, e).file = e.file /\ EfiOf(job, e).adds = e.adds /\ EfiOf(job, e).profiles = P
  BY DEF EfiOf
<1>4. \A f : f \in out.efis <=> \E i \in 1 .. n : f = EfiOf(job, E[i])
  BY <1>2 DEF EfisUpTo
<1>5. \A c : c \in out.confs <=> \E i \in 1 .. n : \E p \in P : c = [efi |-> E[i].file, profile |-> p]
  BY <1>2 DEF ConfsUpTo, ConfsOf
<1>6. Len(job.extra) \in Nat
  BY UkiAssumption
<1> HIDE DEF out, E, n, P
<1>7. ASSUME NEW c \in out.confs PROVE \E f \in out.efis : c.efi = f.file /\ c.profile \in f.profiles
  <2>1. PICK i \in 1 .. n, p \in P : c = [efi |-> E[i].file, profile |-> p]
    BY <1>5
  <2>2. c.efi = E[i].file /\ c.profile = p
    BY <2>1
  <2>3. EfiOf(job, E[i]) \in out.efis
    BY <1>4
  <2> QED BY <1>3, <2>2, <2>3
<1>8. ASSUME NEW f \in out.efis, NEW p \in f.profiles PROVE [efi |-> f.file, profile |-> p] \in out.confs
  <2>1. PICK i \in 1 .. n : f = EfiOf(job, E[i])
    BY <1>4
  <2>2. f.file = E[i].file /\ p \in P
    BY <1>3, <2>1
  <2> QED BY <1>5, <2>2
<1>9. ASSUME NEW k \in 1 .. n, NEW a, E[k].adds = a PROVE \E f \in out.efis : f.adds = a
  BY <1>3, <1>4, <1>9
<1>10. \A i \in 1 .. Len(job.single) : \E f \in out.efis : f.adds = job.single[i].adds
  BY <1>1, <1>9
<1>11. \E f \in out.efis : f.adds = IF job.extend THEN "extend" ELSE "nothing"
  <2>1. 1 \in 1 .. n
    BY <1>1
  <2> QED BY <1>1, <1>9, <2>1
<1>12. ASSUME job.v2, NEW f \in out.efis PROVE Cardinality(f.profiles) = Len(job.extra) + 1
  <2> DEFINE x == Len(job.extra)
  <2>1. f.profiles = 0 .. x
    BY <1>3, <1>4, <1>12 DEF P, Profiles
  <2> HIDE DEF x
  <2>2. Cardinality(0 .. x) = x - 0 + 1
    BY <1>6, FS_Interval, 0 \in Int, x \in Int, ~(0 > x) DEF x
  <2> QED BY <1>6, <2>1, <2>2 DEF x
<1>13. ASSUME ~job.v2, NEW i \in 1 .. Len(job.extra) PROVE \E f \in out.efis : f.adds = job.extra[i].adds
  <2>1. ~job.extend
    <3>1. job.extra # <<>>
      BY <1>6, <1>13
    <3> QED BY <3>1 DEF validate
  <2> QED BY <1>1, <1>9, <1>13, <2>1
<1> QED BY <1>7, <1>8, <1>10, <1>11, <1>12, <1>13 DEF out

LEMMA UkiFollows ==
    ASSUME UkiGood PROVE UkiIsRight
<1>1. InitramfsIsTheRootfs
  BY DEF UkiGood, UkiInv, UkiTidy, SourceInv, InitramfsIsTheRootfs
<1>2. EveryCmdlineBoots
  <2>1. CASE uki.res # "ok"
    BY <2>1 DEF EveryCmdlineBoots
  <2>2. CASE uki.res = "ok"
    <3> DEFINE job == uki.job
               out == OutputOf(job)
    <3>1. job \in UkiJobs /\ validate(job) /\ uki.out = out /\ job.arch \in out.plain
      BY <2>2 DEF UkiGood, UkiTypeOK, UkiInv, UkiTidy, OutputInv
    <3>2. {"loader.conf", "keys"} \subseteq out.plain
      BY DEF OutputOf
    <3>3. /\ \A c \in out.confs : \E f \in out.efis : c.efi = f.file /\ c.profile \in f.profiles
          /\ \A f \in out.efis : \A p \in f.profiles : [efi |-> f.file, profile |-> p] \in out.confs
          /\ \A i \in 1 .. Len(job.single) : \E f \in out.efis : f.adds = job.single[i].adds
          /\ job.v2 => \A f \in out.efis : Cardinality(f.profiles) = Len(job.extra) + 1
          /\ ~job.v2 => \A i \in 1 .. Len(job.extra) : \E f \in out.efis : f.adds = job.extra[i].adds
          /\ \E f \in out.efis : f.adds = IF job.extend THEN "extend" ELSE "nothing"
      BY <3>1, OutputBoots
    <3> HIDE DEF out
    <3> QED BY <3>1, <3>2, <3>3 DEF EveryCmdlineBoots
  <2> QED BY <2>1, <2>2
<1> QED BY <1>1, <1>2 DEF UkiIsRight

(***************************************************************************)
(* The builders on one host.                                               *)
(***************************************************************************)
LEMMA BuildersTakeTurns ==
    ASSUME [Next]_vars PROVE [IsoNext]_iso /\ [UkiNext]_uki
BY DEF Next, vars, builders, pipeVars

\* A disc that ISORun reports as made boots, installs and has its own checksum (iso.go): the
\* loader is a grub, or a shim with a grub under the name it asks for, unless the packaged
\* grub.efi had to stand in (GrubNotFound).  For every set of jobs, not only those TLC tries.
THEOREM DiscsAreRight == Spec => []DiscIsRight
<1> DEFINE Good == IsoTypeOK /\ IsoInv /\ IsoTidy
<1>1. Init => Good
  <2> SUFFICES ASSUME Init PROVE Good
    OBVIOUS
  <2>1. PICK jobs \in {{NoIsoJob}, IsoJobs} : IsoInit(jobs)
    BY DEF Init
  <2> QED BY <2>1, IsoStarts
<1>2. Good /\ [Next]_vars => Good'
  BY BuildersTakeTurns, IsoStep
<1>3. Good => DiscIsRight
  BY DiscFollows
<1> QED BY <1>1, <1>2, <1>3, PTL DEF Spec

\* The initramfs of a UKI build is the rootfs with its init and nothing that the build put
\* around it, and a build reported as made has an entry that boots for every command line
\* asked for (uki.go), for every rootfs and list of command lines whose names differ.
THEOREM UkisAreRight == Spec => []UkiIsRight
<1>1. Init => UkiGood
  <2> SUFFICES ASSUME Init PROVE UkiGood
    OBVIOUS
  <2>1. PICK jobs \in {{NoUkiJob}, UkiJobs} : UkiInit(jobs)
    BY DEF Init
  <2> QED BY <2>1, UkiStarts
<1>2. UkiGood /\ [Next]_vars => UkiGood'
  BY BuildersTakeTurns, UkiStep
<1>3. UkiGood => UkiIsRight
  BY UkiFollows
<1> QED BY <1>1, <1>2, <1>3, PTL DEF Spec

(***************************************************************************)
(* The raw disk builds and the loop devices they share.                    *)
(***************************************************************************)
IsBuild(r) == {"job", "pc", "image", "parts", "esp", "oem", "state", "disk", "emitted", "loop",
               "mounted", "failing", "lost", "vhd", "res"} \subseteq DOMAIN r
LoopGood == LoopInv /\ \A b \in Builds : IsBuild(raw[b])
Leaks(r) == r.lost \intersect {"kpartx", "detach"} # {}

\* A step of one build that leaves the loop devices alone.
Quiet(b, r) ==
    /\ raw' = [raw EXCEPT ![b] = r] /\ loop' = loop
    /\ IsBuild(r) /\ r.loop = raw[b].loop /\ raw[b].lost \subseteq r.lost
    /\ r.pc \in Attached => raw[b].pc \in Attached
    /\ raw[b].pc \in Attached => r.pc \in Attached \/ Leaks(r)

LEMMA QuietKeeps ==
    ASSUME LoopGood, NEW b \in Builds, NEW r, Quiet(b, r) PROVE LoopGood'
<1>1. /\ DOMAIN raw' = Builds /\ raw'[b] = r /\ loop' = loop
      /\ \A c \in Builds : c # b => raw'[c] = raw[c]
  BY DEF LoopGood, LoopInv, Quiet
<1>2. \A c \in Builds : IsBuild(raw'[c])
  BY <1>1 DEF LoopGood, Quiet
<1>3. \A c \in Builds : raw'[c].pc \in Attached => raw'[c].loop \in Loops /\ loop'[raw'[c].loop] = c
  BY <1>1 DEF LoopGood, LoopInv, Quiet
<1>4. ASSUME NEW l \in Loops, NEW c \in Builds, loop'[l] = c
      PROVE  (raw'[c].pc \in Attached /\ raw'[c].loop = l) \/ Leaks(raw'[c])
  <2>1. (raw[c].pc \in Attached /\ raw[c].loop = l) \/ Leaks(raw[c])
    BY <1>1, <1>4 DEF LoopGood, LoopInv, Leaks
  <2>2. CASE c # b
    BY <1>1, <2>1, <2>2
  <2>3. CASE c = b
    <3>1. Leaks(raw[b]) => Leaks(r)
      BY DEF Quiet, Leaks
    <3> QED BY <1>1, <2>1, <2>3, <3>1 DEF Quiet
  <2> QED BY <2>2, <2>3
<1> QED BY <1>1, <1>2, <1>3, <1>4 DEF LoopGood, LoopInv, Leaks

LEMMA BuildReturns ==
    ASSUME LoopGood, NEW b \in Builds, NEW r, NEW how, Return(b, r, how), loop' = loop,
           IsBuild(r), r.loop = raw[b].loop, raw[b].lost \subseteq r.lost,
           raw[b].pc \in Attached => Leaks(r)
    PROVE  LoopGood'
<1> DEFINE s == [r EXCEPT !.pc = "end", !.res = how]
<1>1. IsBuild(s) /\ s.pc = "end" /\ s.loop = r.loop /\ s.lost = r.lost
  BY DEF IsBuild
<1>2. raw' = [raw EXCEPT ![b] = s]
  BY DEF Return, Becomes
<1> HIDE DEF s
<1>3. Quiet(b, s)
  BY <1>1, <1>2 DEF Quiet, Leaks, Attached
<1> QED BY <1>3, QuietKeeps

\* The partitions and the disk they are joined into.
LEMMA PartitionsKeepLoops ==
    ASSUME LoopGood, NEW b \in Builds,
           \/ createRecoveryPartitionImage(b) \/ createEFIPartitionImage(b) \/ createBiosPartitionImage(b)
           \/ createOemPartitionImage(b) \/ emitPartitionImages(b)
           \/ createCurtinLandingPartitionImage(b) \/ NoLanding(b) \/ ConcatFiles(b) \/ createDiskImage(b)
    PROVE  LoopGood'
<1> DEFINE r == raw[b]
<1>0. IsBuild(r)
  BY DEF LoopGood
<1>q. ASSUME NEW s, Becomes(b, s), loop' = loop, IsBuild(s), s.loop = r.loop, s.lost = r.lost,
             r.pc \notin Attached, s.pc \notin Attached
      PROVE  LoopGood'
  <2>1. Quiet(b, s)
    BY <1>q DEF Quiet, Becomes
  <2> QED BY <2>1, QuietKeeps
<1>r. ASSUME r.pc \notin Attached, loop' = loop, NEW x, NEW how, Return(b, [r EXCEPT !.emitted = x], how)
      PROVE  LoopGood'
  <2> DEFINE s == [r EXCEPT !.emitted = x]
  <2>1. IsBuild(s) /\ s.loop = r.loop /\ s.lost = r.lost
    BY <1>0 DEF IsBuild
  <2> HIDE DEF s
  <2> QED BY <1>r, <2>1, BuildReturns DEF s
<1>1. CASE createRecoveryPartitionImage(b)
  <2>1. PICK image, parts : Becomes(b, [r EXCEPT !.pc = "boot", !.image = image, !.parts = parts])
    BY <1>1 DEF createRecoveryPartitionImage
  <2> DEFINE s == [r EXCEPT !.pc = "boot", !.image = image, !.parts = parts]
  <2>2. IsBuild(s) /\ s.loop = r.loop /\ s.lost = r.lost /\ s.pc = "boot"
    BY <1>0 DEF IsBuild
  <2>3. Becomes(b, s) /\ loop' = loop /\ r.pc = "recovery"
    BY <1>1, <2>1 DEF createRecoveryPartitionImage, At
  <2> HIDE DEF s, r
  <2> QED BY <1>q, <2>2, <2>3 DEF Attached
<1>2. CASE createEFIPartitionImage(b)
  <2> DEFINE esp == EfiFiles(r.job)
             parts == <<Part("efi", EfiSize)>> \o r.parts
             s == [r EXCEPT !.pc = "oem", !.esp = esp, !.parts = parts]
  <2>1. Becomes(b, s) /\ loop' = loop /\ r.pc = "boot"
    BY <1>2 DEF createEFIPartitionImage, At
  <2> HIDE DEF esp, parts
  <2>2. IsBuild(s) /\ s.loop = r.loop /\ s.lost = r.lost /\ s.pc = "oem"
    BY <1>0 DEF IsBuild
  <2> HIDE DEF s, r
  <2> QED BY <1>q, <2>1, <2>2 DEF Attached
<1>3. CASE createBiosPartitionImage(b)
  <2> DEFINE parts == <<Part("bios", BiosSize)>> \o r.parts
             s == [r EXCEPT !.pc = "oem", !.parts = parts]
  <2>1. Becomes(b, s) /\ loop' = loop /\ r.pc = "boot"
    BY <1>3 DEF createBiosPartitionImage, At
  <2> HIDE DEF parts
  <2>2. IsBuild(s) /\ s.loop = r.loop /\ s.lost = r.lost /\ s.pc = "oem"
    BY <1>0 DEF IsBuild
  <2> HIDE DEF s, r
  <2> QED BY <1>q, <2>1, <2>2 DEF Attached
<1>4. CASE createOemPartitionImage(b)
  <2>1. PICK oem, state, parts : Becomes(b, [r EXCEPT !.pc = "choose", !.oem = oem, !.state = state, !.parts = parts])
    BY <1>4 DEF createOemPartitionImage
  <2> DEFINE s == [r EXCEPT !.pc = "choose", !.oem = oem, !.state = state, !.parts = parts]
  <2>2. IsBuild(s) /\ s.loop = r.loop /\ s.lost = r.lost /\ s.pc = "choose"
    BY <1>0 DEF IsBuild
  <2>3. Becomes(b, s) /\ loop' = loop /\ r.pc = "oem"
    BY <1>4, <2>1 DEF createOemPartitionImage, At
  <2> HIDE DEF s, r
  <2> QED BY <1>q, <2>2, <2>3 DEF Attached
<1>5. CASE emitPartitionImages(b)
  <2>1. r.pc \notin Attached /\ loop' = loop
    BY <1>5 DEF emitPartitionImages, At, Attached
  <2>2. \E x, how : Return(b, [r EXCEPT !.emitted = x], how)
    BY <1>5 DEF emitPartitionImages
  <2> HIDE DEF r
  <2> QED BY <1>r, <2>1, <2>2
<1>6. CASE createCurtinLandingPartitionImage(b)
  <2>0. r.pc \notin Attached /\ loop' = loop
    BY <1>6 DEF createCurtinLandingPartitionImage, At, Attached
  <2>1. CASE Return(b, r, "failed")
    BY <1>0, <2>0, <2>1, BuildReturns
  <2>2. CASE ~Return(b, r, "failed")
    <3> DEFINE parts == <<r.parts[1], Part("curtin", 64), r.parts[2], r.parts[3]>>
               s == [r EXCEPT !.pc = "join", !.parts = parts]
    <3>1. Becomes(b, s)
      BY <1>6, <2>2 DEF createCurtinLandingPartitionImage
    <3> HIDE DEF parts
    <3>2. IsBuild(s) /\ s.loop = r.loop /\ s.lost = r.lost /\ s.pc = "join"
      BY <1>0 DEF IsBuild
    <3> HIDE DEF s, r
    <3> QED BY <1>q, <2>0, <3>1, <3>2 DEF Attached
  <2> QED BY <2>1, <2>2
<1>7. CASE NoLanding(b)
  <2> DEFINE s == [r EXCEPT !.pc = "join"]
  <2>1. Becomes(b, s) /\ loop' = loop /\ r.pc = "choose"
    BY <1>7 DEF NoLanding, At
  <2>2. IsBuild(s) /\ s.loop = r.loop /\ s.lost = r.lost /\ s.pc = "join"
    BY <1>0 DEF IsBuild
  <2> HIDE DEF s, r
  <2> QED BY <1>q, <2>1, <2>2 DEF Attached
<1>8. CASE ConcatFiles(b)
  <2>1. PICK disk : Becomes(b, [r EXCEPT !.pc = "table", !.disk = disk])
    BY <1>8 DEF ConcatFiles
  <2> DEFINE s == [r EXCEPT !.pc = "table", !.disk = disk]
  <2>2. IsBuild(s) /\ s.loop = r.loop /\ s.lost = r.lost /\ s.pc = "table"
    BY <1>0 DEF IsBuild
  <2>3. Becomes(b, s) /\ loop' = loop /\ r.pc = "join"
    BY <1>8, <2>1 DEF ConcatFiles, At
  <2> HIDE DEF s, r
  <2> QED BY <1>q, <2>2, <2>3 DEF Attached
<1>9. CASE createDiskImage(b)
  <2> DEFINE table == partitionTable(r.parts)
             s == [r EXCEPT !.disk.table = table, !.pc = IF r.job.efi THEN "size" ELSE "losetup"]
  <2>1. Becomes(b, s) /\ loop' = loop /\ r.pc = "table"
    BY <1>9 DEF createDiskImage, At
  <2> HIDE DEF table
  <2>2. IsBuild(s) /\ s.loop = r.loop /\ s.lost = r.lost /\ s.pc \in {"size", "losetup"}
    BY <1>0 DEF IsBuild
  <2> HIDE DEF s, r
  <2> QED BY <1>q, <2>1, <2>2 DEF Attached
<1> QED BY <1>1, <1>2, <1>3, <1>4, <1>5, <1>6, <1>7, <1>8, <1>9

\* installGrubToDisk: between losetup and losetup -d.
LEMMA GrubKeepsLoops ==
    ASSUME LoopGood, NEW b \in Builds, installGrubToDisk(b) PROVE LoopGood'
<1> DEFINE r == raw[b]
<1>0. IsBuild(r) /\ DOMAIN raw = Builds
  BY DEF LoopGood, LoopInv
<1>q. ASSUME NEW s, Becomes(b, s), loop' = loop, IsBuild(s), s.loop = r.loop, r.lost \subseteq s.lost,
             r.pc \in Attached, s.pc \in Attached
      PROVE  LoopGood'
  <2>1. Quiet(b, s)
    BY <1>q DEF Quiet, Becomes
  <2> QED BY <2>1, QuietKeeps
<1>1. CASE losetup(b)
  <2>1. PICK l \in Loops : /\ loop[l] = "free" /\ loop' = [loop EXCEPT ![l] = b]
                           /\ raw' = [raw EXCEPT ![b] = [r EXCEPT !.pc = "kpartx", !.loop = l]]
    BY <1>1 DEF losetup, Becomes
  <2> DEFINE s == [r EXCEPT !.pc = "kpartx", !.loop = l]
  <2>2. IsBuild(s) /\ s.pc = "kpartx" /\ s.loop = l /\ s.lost = r.lost /\ r.pc \notin Attached
    BY <1>0, <1>1 DEF IsBuild, losetup, At, Attached
  <2> HIDE DEF s
  <2>3. DOMAIN raw' = Builds /\ raw'[b] = s /\ \A c \in Builds : c # b => raw'[c] = raw[c]
    BY <1>0, <2>1 DEF s
  <2>4. /\ loop' \in [Loops -> Builds \union {"host", "free"}] /\ loop'[l] = b
        /\ \A m \in Loops : m # l => loop'[m] = loop[m]
    BY <2>1 DEF LoopGood, LoopInv
  <2>5. \A c \in Builds : IsBuild(raw'[c])
    BY <2>2, <2>3 DEF LoopGood
  <2>6. ASSUME NEW c \in Builds, raw'[c].pc \in Attached PROVE raw'[c].loop \in Loops /\ loop'[raw'[c].loop] = c
    <3>1. CASE c = b
      BY <2>2, <2>3, <2>4, <3>1
    <3>2. CASE c # b
      <4>1. raw[c].loop \in Loops /\ loop[raw[c].loop] = c /\ raw'[c] = raw[c]
        BY <2>3, <2>6, <3>2 DEF LoopGood, LoopInv
      <4>2. c # "free"
        BY RawAssumption
      <4> QED BY <2>1, <2>4, <4>1, <4>2
    <3> QED BY <3>1, <3>2
  <2>7. ASSUME NEW m \in Loops, NEW c \in Builds, loop'[m] = c
        PROVE  (raw'[c].pc \in Attached /\ raw'[c].loop = m) \/ Leaks(raw'[c])
    <3>1. CASE m = l
      BY <2>2, <2>3, <2>4, <2>7, <3>1 DEF Attached
    <3>2. CASE m # l
      <4>1. (raw[c].pc \in Attached /\ raw[c].loop = m) \/ Leaks(raw[c])
        BY <2>4, <2>7, <3>2 DEF LoopGood, LoopInv, Leaks
      <4>2. c = b => Leaks(s)
        BY <2>2, <4>1 DEF Leaks
      <4> QED BY <2>3, <4>1, <4>2
    <3> QED BY <3>1, <3>2
  <2> QED BY <2>3, <2>4, <2>5, <2>6, <2>7 DEF LoopGood, LoopInv, Leaks
<1>2. CASE kpartx(b)
  <2>0. r.pc \in Attached /\ loop' = loop
    BY <1>2 DEF kpartx, At, Attached
  <2>1. CASE Becomes(b, [r EXCEPT !.pc = "mount"])
    <3> DEFINE s == [r EXCEPT !.pc = "mount"]
    <3>1. IsBuild(s) /\ s.loop = r.loop /\ s.lost = r.lost /\ s.pc = "mount"
      BY <1>0 DEF IsBuild
    <3> HIDE DEF s, r
    <3> QED BY <1>q, <2>0, <2>1, <3>1 DEF Attached, s
  <2>2. CASE Return(b, [r EXCEPT !.lost = r.lost \union {"kpartx"}], "failed")
    <3> DEFINE s == [r EXCEPT !.lost = r.lost \union {"kpartx"}]
    <3>1. IsBuild(s) /\ s.loop = r.loop /\ s.lost = r.lost \union {"kpartx"}
      BY <1>0 DEF IsBuild
    <3> HIDE DEF s
    <3> QED BY <2>0, <2>2, <3>1, BuildReturns DEF Leaks, s
  <2> QED BY <1>2, <2>1, <2>2 DEF kpartx
<1>3. CASE mountRecovery(b)
  <2>0. r.pc \in Attached /\ loop' = loop
    BY <1>3 DEF mountRecovery, At, Attached
  <2>1. PICK s \in {[r EXCEPT !.pc = "grub", !.mounted = TRUE], [r EXCEPT !.pc = "unmap", !.failing = TRUE]} : Becomes(b, s)
    BY <1>3 DEF mountRecovery
  <2>2. IsBuild(s) /\ s.loop = r.loop /\ s.lost = r.lost /\ s.pc \in Attached
    BY <1>0, <2>1 DEF IsBuild, Attached
  <2> HIDE DEF r
  <2> QED BY <1>q, <2>0, <2>1, <2>2
<1>4. CASE grubInstall(b)
  <2>0. r.pc \in Attached /\ loop' = loop
    BY <1>4 DEF grubInstall, At, Attached
  <2> DEFINE grub == loop[r.loop] = b /\ Mounted(b) = "recovery"
  <2>1. PICK s \in {[r EXCEPT !.pc = "unmount", !.disk.grub = grub], [r EXCEPT !.pc = "unmount", !.failing = TRUE]} : Becomes(b, s)
    BY <1>4 DEF grubInstall
  <2> HIDE DEF grub
  <2>2. IsBuild(s) /\ s.loop = r.loop /\ s.lost = r.lost /\ s.pc \in Attached
    BY <1>0, <2>1 DEF IsBuild, Attached
  <2> HIDE DEF r
  <2> QED BY <1>q, <2>0, <2>1, <2>2
<1>5. CASE unmount(b)
  <2>0. r.pc \in Attached /\ loop' = loop
    BY <1>5 DEF unmount, At, Attached
  <2>1. PICK s \in {[r EXCEPT !.pc = "unmap", !.mounted = FALSE],
                    [r EXCEPT !.pc = "unmap", !.lost = r.lost \union {"unmount"}, !.disk.wiped = TRUE]} : Becomes(b, s)
    BY <1>5 DEF unmount
  <2>2. IsBuild(s) /\ s.loop = r.loop /\ r.lost \subseteq s.lost /\ s.pc \in Attached
    BY <1>0, <2>1 DEF IsBuild, Attached
  <2> HIDE DEF r
  <2> QED BY <1>q, <2>0, <2>1, <2>2
<1>6. CASE detach(b)
  <2>0. r.pc \in Attached /\ r.loop \in Loops /\ loop[r.loop] = b
    BY <1>6 DEF detach, At, Attached, LoopGood, LoopInv
  <2>1. CASE /\ loop' = [loop EXCEPT ![r.loop] = "free"]
             /\ \/ Return(b, [r EXCEPT !.loop = NoLoop], "failed")
                \/ Becomes(b, [[r EXCEPT !.loop = NoLoop] EXCEPT !.pc = "size"])
    <3> DEFINE t == [r EXCEPT !.loop = NoLoop]
    <3>1. PICK s \in {[t EXCEPT !.pc = "end", !.res = "failed"], [t EXCEPT !.pc = "size"]} :
            raw' = [raw EXCEPT ![b] = s]
      BY <2>1 DEF Return, Becomes
    <3>2. IsBuild(t) /\ t.lost = r.lost
      BY <1>0 DEF IsBuild
    <3> HIDE DEF t
    <3>3. IsBuild(s) /\ s.lost = r.lost /\ s.pc \notin Attached
      BY <3>1, <3>2 DEF IsBuild, Attached
    <3>4. DOMAIN raw' = Builds /\ raw'[b] = s /\ \A c \in Builds : c # b => raw'[c] = raw[c]
      BY <1>0, <3>1
    <3>5. /\ loop' \in [Loops -> Builds \union {"host", "free"}] /\ loop'[r.loop] = "free"
          /\ \A m \in Loops : m # r.loop => loop'[m] = loop[m]
      BY <2>0, <2>1 DEF LoopGood, LoopInv
    <3>6. \A c \in Builds : IsBuild(raw'[c])
      BY <3>3, <3>4 DEF LoopGood
    <3>7. ASSUME NEW c \in Builds, raw'[c].pc \in Attached PROVE raw'[c].loop \in Loops /\ loop'[raw'[c].loop] = c
      <4>1. c # b
        BY <3>3, <3>4, <3>7
      <4>2. raw'[c] = raw[c] /\ raw[c].loop \in Loops /\ loop[raw[c].loop] = c
        BY <3>4, <3>7, <4>1 DEF LoopGood, LoopInv
      <4>3. raw[c].loop # r.loop
        BY <2>0, <4>1, <4>2
      <4> QED BY <3>5, <4>2, <4>3
    <3>8. ASSUME NEW m \in Loops, NEW c \in Builds, loop'[m] = c
          PROVE  (raw'[c].pc \in Attached /\ raw'[c].loop = m) \/ Leaks(raw'[c])
      <4>1. m # r.loop
        BY <3>5, <3>8, RawAssumption
      <4>2. (raw[c].pc \in Attached /\ raw[c].loop = m) \/ Leaks(raw[c])
        BY <3>5, <3>8, <4>1 DEF LoopGood, LoopInv, Leaks
      <4>3. c = b => Leaks(s)
        BY <3>3, <4>1, <4>2 DEF Leaks
      <4> QED BY <3>4, <4>2, <4>3
    <3> QED BY <3>4, <3>5, <3>6, <3>7, <3>8 DEF LoopGood, LoopInv, Leaks
  <2>2. CASE /\ loop' = loop
             /\ \/ Return(b, [r EXCEPT !.lost = r.lost \union {"detach"}], "failed")
                \/ Becomes(b, [[r EXCEPT !.lost = r.lost \union {"detach"}] EXCEPT !.pc = "size"])
    <3> DEFINE t == [r EXCEPT !.lost = r.lost \union {"detach"}]
               s == [t EXCEPT !.pc = "size"]
    <3>1. IsBuild(t) /\ t.loop = r.loop /\ r.lost \subseteq t.lost /\ Leaks(t)
      BY <1>0 DEF IsBuild, Leaks
    <3>2. CASE Return(b, t, "failed")
      <4> HIDE DEF t
      <4> QED BY <2>2, <3>1, <3>2, BuildReturns
    <3>3. CASE Becomes(b, s)
      <4> HIDE DEF t
      <4>1. IsBuild(s) /\ s.loop = t.loop /\ s.lost = t.lost /\ s.pc = "size"
        BY <3>1 DEF IsBuild
      <4> HIDE DEF s
      <4>2. Quiet(b, s)
        BY <2>2, <3>1, <3>3, <4>1 DEF Quiet, Becomes, Leaks, Attached
      <4> QED BY <4>2, QuietKeeps
    <3> QED BY <2>2, <3>2, <3>3
  <2> QED BY <1>6, <2>1, <2>2 DEF detach
<1> QED BY <1>1, <1>2, <1>3, <1>4, <1>5, <1>6 DEF installGrubToDisk

\* The finished disk, and the failures of a step that holds no device.
LEMMA FinishKeepsLoops ==
    ASSUME LoopGood, NEW b \in Builds,
           \/ truncateToFinalSize(b) \/ FinalizeImage(b) \/ Raw2(b)
           \/ \E pc \in {"recovery", "boot", "oem", "join", "table", "losetup", "size", "convert"} : Fails(b, pc)
    PROVE  LoopGood'
<1> DEFINE r == raw[b]
<1>0. IsBuild(r) /\ r.pc \notin Attached /\ loop' = loop
  BY DEF LoopGood, truncateToFinalSize, FinalizeImage, Raw2, Fails, At, Attached
<1>q. ASSUME NEW s, Becomes(b, s), IsBuild(s), s.loop = r.loop, s.lost = r.lost, s.pc \notin Attached
      PROVE  LoopGood'
  <2>1. Quiet(b, s)
    BY <1>0, <1>q DEF Quiet, Becomes
  <2> QED BY <2>1, QuietKeeps
<1>r. ASSUME NEW s, NEW how, Return(b, s, how), IsBuild(s), s.loop = r.loop, r.lost \subseteq s.lost PROVE LoopGood'
  BY <1>0, <1>r, BuildReturns
<1>1. CASE truncateToFinalSize(b)
  <2>1. PICK size : Becomes(b, [r EXCEPT !.pc = "finalize", !.disk.size = size])
    BY <1>1 DEF truncateToFinalSize
  <2> DEFINE s == [r EXCEPT !.pc = "finalize", !.disk.size = size]
  <2>2. IsBuild(s) /\ s.loop = r.loop /\ s.lost = r.lost /\ s.pc = "finalize"
    BY <1>0 DEF IsBuild
  <2> HIDE DEF s, r
  <2> QED BY <1>q, <2>1, <2>2 DEF Attached, s
<1>2. CASE FinalizeImage(b)
  <2>1. PICK disk : \/ Return(b, [r EXCEPT !.disk = disk], "ok")
                    \/ Becomes(b, [[r EXCEPT !.disk = disk] EXCEPT !.pc = "convert"])
    BY <1>2 DEF FinalizeImage
  <2> DEFINE s == [r EXCEPT !.disk = disk]
             t == [s EXCEPT !.pc = "convert"]
  <2>2. /\ IsBuild(s) /\ s.loop = r.loop /\ s.lost = r.lost
        /\ IsBuild(t) /\ t.loop = r.loop /\ t.lost = r.lost /\ t.pc = "convert"
    BY <1>0 DEF IsBuild
  <2>3. Return(b, s, "ok") \/ Becomes(b, t)
    BY <2>1
  <2> HIDE DEF s, t, r
  <2> QED BY <1>q, <1>r, <2>2, <2>3 DEF Attached
<1>3. CASE Raw2(b)
  <2>1. PICK size, vhd : Return(b, [r EXCEPT !.disk.size = size, !.vhd = vhd], "ok")
    BY <1>3 DEF Raw2
  <2> DEFINE s == [r EXCEPT !.disk.size = size, !.vhd = vhd]
  <2>2. IsBuild(s) /\ s.loop = r.loop /\ s.lost = r.lost
    BY <1>0 DEF IsBuild
  <2> HIDE DEF s, r
  <2> QED BY <1>r, <2>1, <2>2 DEF s
<1>4. CASE \E pc \in {"recovery", "boot", "oem", "join", "table", "losetup", "size", "convert"} : Fails(b, pc)
  BY <1>0, <1>4, BuildReturns DEF Fails
<1> QED BY <1>1, <1>2, <1>3, <1>4

LEMMA HostKeepsLoops ==
    ASSUME LoopGood, HostLoop PROVE LoopGood'
<1>1. PICK l \in Loops, who \in {"host", "free"} :
        raw' = raw /\ loop' = [loop EXCEPT ![l] = who] /\ loop[l] \in {"host", "free"}
  BY DEF HostLoop
<1>2. /\ loop' \in [Loops -> Builds \union {"host", "free"}] /\ loop'[l] \notin Builds /\ loop[l] \notin Builds
      /\ \A m \in Loops : m # l => loop'[m] = loop[m]
  BY <1>1, RawAssumption DEF LoopGood, LoopInv
<1>3. ASSUME NEW c \in Builds, raw[c].pc \in Attached PROVE raw[c].loop \in Loops /\ loop'[raw[c].loop] = c
  BY <1>2, <1>3 DEF LoopGood, LoopInv
<1> QED BY <1>1, <1>2, <1>3 DEF LoopGood, LoopInv

LEMMA RawStep ==
    ASSUME LoopGood, [RawNext]_<<raw, loop>> PROVE LoopGood'
<1>1. CASE UNCHANGED <<raw, loop>>
  BY <1>1 DEF LoopGood, LoopInv
<1>2. CASE HostLoop
  BY <1>2, HostKeepsLoops
<1>3. ASSUME NEW b \in Builds, Build(b) PROVE LoopGood'
  BY <1>3, PartitionsKeepLoops, GrubKeepsLoops, FinishKeepsLoops DEF Build
<1> QED BY <1>1, <1>2, <1>3 DEF RawNext

LEMMA RawStarts ==
    ASSUME NEW jobs, RawInit(jobs) PROVE LoopGood
<1>1. PICK job \in jobs :
         raw = [b \in Builds |->
                 [job |-> job[b], pc |-> IF job[b] = NoJob THEN "end" ELSE "recovery",
                  image |-> 0, parts |-> <<>>, esp |-> {}, oem |-> {}, state |-> 0,
                  disk |-> NoFile, emitted |-> {}, loop |-> NoLoop, mounted |-> FALSE,
                  failing |-> FALSE, lost |-> {}, vhd |-> <<>>, res |-> "none"]]
  BY DEF RawInit
<1>2. \A b \in Builds : IsBuild(raw[b]) /\ raw[b].pc \in {"end", "recovery"}
  BY <1>1 DEF IsBuild
<1>3. loop \in [Loops -> {"host", "free"}]
  BY DEF RawInit
<1> QED BY <1>1, <1>2, <1>3, RawAssumption DEF LoopGood, LoopInv, Attached

(***************************************************************************)
(* What the partitions of a raw disk add up to: the table and the joined   *)
(* files, unrolled from their recursive functions for the three and the    *)
(* four partitions a disk has, and the geometry of a VHD footer.           *)
(***************************************************************************)
LEMMA JoinOneOne ==
    ASSUME NEW a, NEW b PROVE <<a>> \o <<b>> = <<a, b>>
<1> DEFINE S == {a, b}
           v == <<a>> \o <<b>>
<1>1. /\ <<a>> \in Seq(S) /\ Len(<<a>>) = 1
      /\ <<b>> \in Seq(S) /\ Len(<<b>>) = 1
  OBVIOUS
<1>2. /\ v \in Seq(S) /\ Len(v) = 2
      /\ v[1] = a /\ v[2] = b
  BY <1>1, ConcatProperties
<1> HIDE DEF v
<1>3. v = <<a, b>>
  BY <1>2
<1> QED BY <1>3 DEF v

LEMMA JoinOneThree ==
    ASSUME NEW a, NEW b, NEW c, NEW d PROVE <<a>> \o <<b, c, d>> = <<a, b, c, d>>
<1> DEFINE S == {a, b, c, d}
           v == <<a>> \o <<b, c, d>>
<1>1. /\ <<a>> \in Seq(S) /\ Len(<<a>>) = 1
      /\ <<b, c, d>> \in Seq(S) /\ Len(<<b, c, d>>) = 3
  OBVIOUS
<1>2. /\ v \in Seq(S) /\ Len(v) = 4
      /\ v[1] = a /\ v[2] = b /\ v[3] = c /\ v[4] = d
  BY <1>1, ConcatProperties
<1> HIDE DEF v
<1>3. v = <<a, b, c, d>>
  BY <1>2
<1> QED BY <1>3 DEF v

LEMMA JoinFourOne ==
    ASSUME NEW a, NEW b, NEW c, NEW d, NEW e PROVE <<a, b, c, d>> \o <<e>> = <<a, b, c, d, e>>
<1> DEFINE S == {a, b, c, d, e}
           v == <<a, b, c, d>> \o <<e>>
<1>1. /\ <<a, b, c, d>> \in Seq(S) /\ Len(<<a, b, c, d>>) = 4
      /\ <<e>> \in Seq(S) /\ Len(<<e>>) = 1
  OBVIOUS
<1>2. /\ v \in Seq(S) /\ Len(v) = 5
      /\ v[1] = a /\ v[2] = b /\ v[3] = c /\ v[4] = d /\ v[5] = e
  BY <1>1, ConcatProperties
<1> HIDE DEF v
<1>3. v = <<a, b, c, d, e>>
  BY <1>2
<1> QED BY <1>3 DEF v

LEMMA JoinOneFour ==
    ASSUME NEW a, NEW b, NEW c, NEW d, NEW e PROVE <<a>> \o <<b, c, d, e>> = <<a, b, c, d, e>>
<1> DEFINE S == {a, b, c, d, e}
           v == <<a>> \o <<b, c, d, e>>
<1>1. /\ <<a>> \in Seq(S) /\ Len(<<a>>) = 1
      /\ <<b, c, d, e>> \in Seq(S) /\ Len(<<b, c, d, e>>) = 4
  OBVIOUS
<1>2. /\ v \in Seq(S) /\ Len(v) = 5
      /\ v[1] = a /\ v[2] = b /\ v[3] = c /\ v[4] = d /\ v[5] = e
  BY <1>1, ConcatProperties
<1> HIDE DEF v
<1>3. v = <<a, b, c, d, e>>
  BY <1>2
<1> QED BY <1>3 DEF v

LEMMA JoinFiveOne ==
    ASSUME NEW a, NEW b, NEW c, NEW d, NEW e, NEW f PROVE <<a, b, c, d, e>> \o <<f>> = <<a, b, c, d, e, f>>
<1> DEFINE S == {a, b, c, d, e, f}
           v == <<a, b, c, d, e>> \o <<f>>
<1>1. /\ <<a, b, c, d, e>> \in Seq(S) /\ Len(<<a, b, c, d, e>>) = 5
      /\ <<f>> \in Seq(S) /\ Len(<<f>>) = 1
  OBVIOUS
<1>2. /\ v \in Seq(S) /\ Len(v) = 6
      /\ v[1] = a /\ v[2] = b /\ v[3] = c /\ v[4] = d /\ v[5] = e /\ v[6] = f
  BY <1>1, ConcatProperties
<1> HIDE DEF v
<1>3. v = <<a, b, c, d, e, f>>
  BY <1>2
<1> QED BY <1>3 DEF v

LEMMA Multiple == ASSUME NEW k \in Nat PROVE (k * Sector) % Sector = 0 /\ (k * Sector) \div Sector = k
  BY UnitAssumption

LEMMA WholeSize ==
    ASSUME NEW mb \in Nat PROVE mb * MB \in Nat /\ mb * MB = (2048 * mb) * Sector
  BY UnitAssumption

LEMMA WholeMB ==
    ASSUME NEW mb \in Nat, NEW start \in Nat
    PROVE  /\ mb * MB \in Nat /\ mb * MB = (2048 * mb) * Sector
           /\ roundToNearestSector(mb * MB) = mb * MB
           /\ getSectorEndFromSize(start + 1, roundToNearestSector(mb * MB)) = start + 2048 * mb
<1>1. mb * MB = (2048 * mb) * Sector /\ 2048 * mb \in Nat /\ Sector \in Nat
  BY UnitAssumption
<1>2. mb * MB \in Nat
  BY <1>1
<1>3. (mb * MB) % Sector = 0 /\ (mb * MB) \div Sector = 2048 * mb
  BY <1>1, Multiple
<1>4. roundToNearestSector(mb * MB) = mb * MB
  BY <1>3 DEF roundToNearestSector
<1>5. getSectorEndFromSize(start + 1, mb * MB) = 2048 * mb + (start + 1) - 1
  BY <1>3 DEF getSectorEndFromSize
<1> QED BY <1>1, <1>2, <1>4, <1>5

\* The last sectors of the partitions of a table, as a fixed point.
TableEnds(parts) ==
    CHOOSE f : f = [i \in 0 .. Len(parts) |->
                      IF i = 0 THEN 2047
                      ELSE getSectorEndFromSize(f[i - 1] + 1, roundToNearestSector(parts[i].size))]

LEMMA TableOf ==
    ASSUME NEW parts
    PROVE  partitionTable(parts) =
             [i \in 1 .. Len(parts) |->
               [name |-> parts[i].name, start |-> TableEnds(parts)[i - 1] + 1, end |-> TableEnds(parts)[i]]]
BY DEF partitionTable, TableEnds

LEMMA EndsOf3 ==
    ASSUME NEW p, NEW q, NEW r, NEW k \in Nat, NEW l \in Nat, NEW m \in Nat,
           p.size = k * MB, q.size = l * MB, r.size = m * MB
    PROVE  LET E == TableEnds(<<p, q, r>>)
           IN  /\ E[0] = 2047
               /\ E[1] = 2047 + 2048 * k
               /\ E[2] = 2047 + 2048 * k + 2048 * l
               /\ E[3] = 2047 + 2048 * k + 2048 * l + 2048 * m
<1> DEFINE parts == <<p, q, r>>
           Body(f) == [i \in 0 .. Len(parts) |->
                      IF i = 0 THEN 2047
                      ELSE getSectorEndFromSize(f[i - 1] + 1, roundToNearestSector(parts[i].size))]
           e0 == 2047
           e1 == e0 + 2048 * k
           e2 == e1 + 2048 * l
           e3 == e2 + 2048 * m
           g == [i \in 0 .. 3 |-> IF i = 0 THEN e0 ELSE IF i = 1 THEN e1 ELSE IF i = 2 THEN e2 ELSE e3]
           E == TableEnds(parts)
<1>1. Len(parts) = 3 /\ parts[1] = p /\ parts[2] = q /\ parts[3] = r
  OBVIOUS
<1> HIDE DEF parts
<1>3. \A f : Body(f) = [i \in 0 .. 3 |->
          IF i = 0 THEN 2047
          ELSE IF i = 1 THEN getSectorEndFromSize(f[0] + 1, roundToNearestSector(k * MB))
          ELSE IF i = 2 THEN getSectorEndFromSize(f[1] + 1, roundToNearestSector(l * MB))
          ELSE getSectorEndFromSize(f[2] + 1, roundToNearestSector(m * MB))]
  BY <1>1
<1>v. e0 = 2047 /\ e1 = 2047 + 2048 * k /\ e2 = 2047 + 2048 * k + 2048 * l /\ e3 = 2047 + 2048 * k + 2048 * l + 2048 * m
  OBVIOUS
<1>w. e0 = 2047
  OBVIOUS
<1>n1. e0 \in Nat /\ e1 = e0 + 2048 * k
  OBVIOUS
<1>n2. e1 \in Nat /\ e2 = e1 + 2048 * l
  OBVIOUS
<1>n3. e2 \in Nat /\ e3 = e2 + 2048 * m
  OBVIOUS
<1> HIDE DEF e0, e1, e2, e3
<1>a1. getSectorEndFromSize(e0 + 1, roundToNearestSector(k * MB)) = e1
  BY <1>n1, WholeMB
<1>a2. getSectorEndFromSize(e1 + 1, roundToNearestSector(l * MB)) = e2
  BY <1>n2, WholeMB
<1>a3. getSectorEndFromSize(e2 + 1, roundToNearestSector(m * MB)) = e3
  BY <1>n3, WholeMB
<1>4. g[0] = e0 /\ g[1] = e1 /\ g[2] = e2 /\ g[3] = e3
  OBVIOUS
<1>5. g = Body(g)
  <2>1. Body(g) = [i \in 0 .. 3 |-> IF i = 0 THEN e0 ELSE IF i = 1 THEN e1 ELSE IF i = 2 THEN e2 ELSE e3]
    <3> HIDE DEF Body, g
    <3> QED BY <1>a1, <1>a2, <1>a3, <1>w, <1>3, <1>4
  <2> HIDE DEF Body
  <2> QED BY <2>1
<1>6. E = Body(E)
  <2>1. E = CHOOSE f : f = Body(f)
    BY DEF TableEnds
  <2> HIDE DEF Body, E, g
  <2> QED BY <1>5, <2>1
<1> HIDE DEF Body, E
<1>b0. E[0] = e0
  BY <1>3, <1>6, <1>w
<1>b1. E[1] = e1
  BY <1>a1, <1>b0, <1>3, <1>6
<1>b2. E[2] = e2
  BY <1>a2, <1>b1, <1>3, <1>6
<1>b3. E[3] = e3
  BY <1>a3, <1>b2, <1>3, <1>6
<1> QED BY <1>b0, <1>b1, <1>b2, <1>b3, <1>v DEF E, parts

LEMMA EndsOf4 ==
    ASSUME NEW p, NEW q, NEW r, NEW s, NEW k \in Nat, NEW l \in Nat, NEW m \in Nat, NEW n \in Nat,
           p.size = k * MB, q.size = l * MB, r.size = m * MB, s.size = n * MB
    PROVE  LET E == TableEnds(<<p, q, r, s>>)
           IN  /\ E[0] = 2047
               /\ E[1] = 2047 + 2048 * k
               /\ E[2] = 2047 + 2048 * k + 2048 * l
               /\ E[3] = 2047 + 2048 * k + 2048 * l + 2048 * m
               /\ E[4] = 2047 + 2048 * k + 2048 * l + 2048 * m + 2048 * n
<1> DEFINE parts == <<p, q, r, s>>
           Body(f) == [i \in 0 .. Len(parts) |->
                      IF i = 0 THEN 2047
                      ELSE getSectorEndFromSize(f[i - 1] + 1, roundToNearestSector(parts[i].size))]
           e0 == 2047
           e1 == e0 + 2048 * k
           e2 == e1 + 2048 * l
           e3 == e2 + 2048 * m
           e4 == e3 + 2048 * n
           g == [i \in 0 .. 4 |-> IF i = 0 THEN e0 ELSE IF i = 1 THEN e1 ELSE IF i = 2 THEN e2 ELSE IF i = 3 THEN e3 ELSE e4]
           E == TableEnds(parts)
<1>1. Len(parts) = 4 /\ parts[1] = p /\ parts[2] = q /\ parts[3] = r /\ parts[4] = s
  OBVIOUS
<1> HIDE DEF parts
<1>3. \A f : Body(f) = [i \in 0 .. 4 |->
          IF i = 0 THEN 2047
          ELSE IF i = 1 THEN getSectorEndFromSize(f[0] + 1, roundToNearestSector(k * MB))
          ELSE IF i = 2 THEN getSectorEndFromSize(f[1] + 1, roundToNearestSector(l * MB))
          ELSE IF i = 3 THEN getSectorEndFromSize(f[2] + 1, roundToNearestSector(m * MB))
          ELSE getSectorEndFromSize(f[3] + 1, roundToNearestSector(n * MB))]
  BY <1>1
<1>v. e0 = 2047 /\ e1 = 2047 + 2048 * k /\ e2 = 2047 + 2048 * k + 2048 * l /\ e3 = 2047 + 2048 * k + 2048 * l + 2048 * m /\ e4 = 2047 + 2048 * k + 2048 * l + 2048 * m + 2048 * n
  OBVIOUS
<1>w. e0 = 2047
  OBVIOUS
<1>n1. e0 \in Nat /\ e1 = e0 + 2048 * k
  OBVIOUS
<1>n2. e1 \in Nat /\ e2 = e1 + 2048 * l
  OBVIOUS
<1>n3. e2 \in Nat /\ e3 = e2 + 2048 * m
  OBVIOUS
<1>n4. e3 \in Nat /\ e4 = e3 + 2048 * n
  OBVIOUS
<1> HIDE DEF e0, e1, e2, e3, e4
<1>a1. getSectorEndFromSize(e0 + 1, roundToNearestSector(k * MB)) = e1
  BY <1>n1, WholeMB
<1>a2. getSectorEndFromSize(e1 + 1, roundToNearestSector(l * MB)) = e2
  BY <1>n2, WholeMB
<1>a3. getSectorEndFromSize(e2 + 1, roundToNearestSector(m * MB)) = e3
  BY <1>n3, WholeMB
<1>a4. getSectorEndFromSize(e3 + 1, roundToNearestSector(n * MB)) = e4
  BY <1>n4, WholeMB
<1>4. g[0] = e0 /\ g[1] = e1 /\ g[2] = e2 /\ g[3] = e3 /\ g[4] = e4
  OBVIOUS
<1>5. g = Body(g)
  <2>1. Body(g) = [i \in 0 .. 4 |-> IF i = 0 THEN e0 ELSE IF i = 1 THEN e1 ELSE IF i = 2 THEN e2 ELSE IF i = 3 THEN e3 ELSE e4]
    <3> HIDE DEF Body, g
    <3> QED BY <1>a1, <1>a2, <1>a3, <1>a4, <1>w, <1>3, <1>4
  <2> HIDE DEF Body
  <2> QED BY <2>1
<1>6. E = Body(E)
  <2>1. E = CHOOSE f : f = Body(f)
    BY DEF TableEnds
  <2> HIDE DEF Body, E, g
  <2> QED BY <1>5, <2>1
<1> HIDE DEF Body, E
<1>b0. E[0] = e0
  BY <1>3, <1>6, <1>w
<1>b1. E[1] = e1
  BY <1>a1, <1>b0, <1>3, <1>6
<1>b2. E[2] = e2
  BY <1>a2, <1>b1, <1>3, <1>6
<1>b3. E[3] = e3
  BY <1>a3, <1>b2, <1>3, <1>6
<1>b4. E[4] = e4
  BY <1>a4, <1>b3, <1>3, <1>6
<1> QED BY <1>b0, <1>b1, <1>b2, <1>b3, <1>b4, <1>v DEF E, parts

\* Where the files of a concatenation begin, as a fixed point.
Offsets(files) ==
    CHOOSE f : f = [i \in 0 .. Len(files) |-> IF i = 0 THEN 0 ELSE f[i - 1] + files[i].size]

LEMMA ConcatenatedIs ==
    ASSUME NEW files
    PROVE  /\ Concatenated(files).at = [i \in 1 .. Len(files) |-> Offsets(files)[i - 1]]
           /\ Concatenated(files).size = Offsets(files)[Len(files)]
BY DEF Concatenated, Offsets

LEMMA OffsetsOf0 ==
    LET O == Offsets(<<>>)
    IN  /\ O[0] = 0
<1> DEFINE files == <<>>
           Body(f) == [i \in 0 .. Len(files) |-> IF i = 0 THEN 0 ELSE f[i - 1] + files[i].size]
           e0 == 0
           g == [i \in 0 .. 0 |-> e0]
           O == Offsets(files)
<1>1. Len(files) = 0
  OBVIOUS
<1> HIDE DEF files
<1>3. \A f : Body(f) = [i \in 0 .. 0 |->
          IF i = 0 THEN 0
          ELSE 0          ]
  BY <1>1
<1>n. e0 = 0 /\ e0 \in Nat
  OBVIOUS
<1> HIDE DEF e0
<1>4. g[0] = e0
  OBVIOUS
<1>5. g = Body(g)
  <2>1. Body(g) = [i \in 0 .. 0 |-> e0]
    <3> HIDE DEF Body, g
    <3> QED BY <1>n, <1>3, <1>4
  <2> HIDE DEF Body
  <2> QED BY <2>1
<1>6. O = Body(O)
  <2>1. O = CHOOSE f : f = Body(f)
    BY DEF Offsets
  <2> HIDE DEF Body, O, g
  <2> QED BY <1>5, <2>1
<1> HIDE DEF Body, O
<1>b0. O[0] = e0
  BY <1>3, <1>6, <1>n
<1> QED BY <1>b0, <1>n DEF O, files

LEMMA OffsetsOf5 ==
    ASSUME NEW f1, NEW f2, NEW f3, NEW f4, NEW f5,
           f1.size \in Nat,
           f2.size \in Nat,
           f3.size \in Nat,
           f4.size \in Nat,
           f5.size \in Nat
    PROVE  LET O == Offsets(<<f1, f2, f3, f4, f5>>)
    IN  /\ O[0] = 0
        /\ O[1] = O[0] + f1.size
        /\ O[2] = O[1] + f2.size
        /\ O[3] = O[2] + f3.size
        /\ O[4] = O[3] + f4.size
        /\ O[5] = O[4] + f5.size
        /\ O[5] \in Nat
<1> DEFINE files == <<f1, f2, f3, f4, f5>>
           Body(f) == [i \in 0 .. Len(files) |-> IF i = 0 THEN 0 ELSE f[i - 1] + files[i].size]
           e0 == 0
           e1 == e0 + f1.size
           e2 == e1 + f2.size
           e3 == e2 + f3.size
           e4 == e3 + f4.size
           e5 == e4 + f5.size
           g == [i \in 0 .. 5 |-> IF i = 0 THEN e0 ELSE IF i = 1 THEN e1 ELSE IF i = 2 THEN e2 ELSE IF i = 3 THEN e3 ELSE IF i = 4 THEN e4 ELSE e5]
           O == Offsets(files)
<1>1. Len(files) = 5 /\ files[1] = f1 /\ files[2] = f2 /\ files[3] = f3 /\ files[4] = f4 /\ files[5] = f5
  OBVIOUS
<1> HIDE DEF files
<1>3. \A f : Body(f) = [i \in 0 .. 5 |->
          IF i = 0 THEN 0
          ELSE IF i = 1 THEN f[0] + f1.size
          ELSE IF i = 2 THEN f[1] + f2.size
          ELSE IF i = 3 THEN f[2] + f3.size
          ELSE IF i = 4 THEN f[3] + f4.size
          ELSE f[4] + f5.size
          ]
  BY <1>1
<1>n. e0 = 0 /\ e0 \in Nat /\ e1 \in Nat /\ e1 = e0 + f1.size /\ e2 \in Nat /\ e2 = e1 + f2.size /\ e3 \in Nat /\ e3 = e2 + f3.size /\ e4 \in Nat /\ e4 = e3 + f4.size /\ e5 \in Nat /\ e5 = e4 + f5.size
  OBVIOUS
<1> HIDE DEF e0, e1, e2, e3, e4, e5
<1>4. g[0] = e0 /\ g[1] = e1 /\ g[2] = e2 /\ g[3] = e3 /\ g[4] = e4 /\ g[5] = e5
  OBVIOUS
<1>5. g = Body(g)
  <2>1. Body(g) = [i \in 0 .. 5 |-> IF i = 0 THEN e0 ELSE IF i = 1 THEN e1 ELSE IF i = 2 THEN e2 ELSE IF i = 3 THEN e3 ELSE IF i = 4 THEN e4 ELSE e5]
    <3> HIDE DEF Body, g
    <3> QED BY <1>n, <1>3, <1>4
  <2> HIDE DEF Body
  <2> QED BY <2>1
<1>6. O = Body(O)
  <2>1. O = CHOOSE f : f = Body(f)
    BY DEF Offsets
  <2> HIDE DEF Body, O, g
  <2> QED BY <1>5, <2>1
<1> HIDE DEF Body, O
<1>b0. O[0] = e0
  BY <1>3, <1>6, <1>n
<1>b1. O[1] = e1
  BY <1>n, <1>b0, <1>3, <1>6
<1>b2. O[2] = e2
  BY <1>n, <1>b1, <1>3, <1>6
<1>b3. O[3] = e3
  BY <1>n, <1>b2, <1>3, <1>6
<1>b4. O[4] = e4
  BY <1>n, <1>b3, <1>3, <1>6
<1>b5. O[5] = e5
  BY <1>n, <1>b4, <1>3, <1>6
<1> QED BY <1>b0, <1>b1, <1>b2, <1>b3, <1>b4, <1>b5, <1>n DEF O, files

LEMMA OffsetsOf6 ==
    ASSUME NEW f1, NEW f2, NEW f3, NEW f4, NEW f5, NEW f6,
           f1.size \in Nat,
           f2.size \in Nat,
           f3.size \in Nat,
           f4.size \in Nat,
           f5.size \in Nat,
           f6.size \in Nat
    PROVE  LET O == Offsets(<<f1, f2, f3, f4, f5, f6>>)
    IN  /\ O[0] = 0
        /\ O[1] = O[0] + f1.size
        /\ O[2] = O[1] + f2.size
        /\ O[3] = O[2] + f3.size
        /\ O[4] = O[3] + f4.size
        /\ O[5] = O[4] + f5.size
        /\ O[6] = O[5] + f6.size
        /\ O[6] \in Nat
<1> DEFINE files == <<f1, f2, f3, f4, f5, f6>>
           Body(f) == [i \in 0 .. Len(files) |-> IF i = 0 THEN 0 ELSE f[i - 1] + files[i].size]
           e0 == 0
           e1 == e0 + f1.size
           e2 == e1 + f2.size
           e3 == e2 + f3.size
           e4 == e3 + f4.size
           e5 == e4 + f5.size
           e6 == e5 + f6.size
           g == [i \in 0 .. 6 |-> IF i = 0 THEN e0 ELSE IF i = 1 THEN e1 ELSE IF i = 2 THEN e2 ELSE IF i = 3 THEN e3 ELSE IF i = 4 THEN e4 ELSE IF i = 5 THEN e5 ELSE e6]
           O == Offsets(files)
<1>1. Len(files) = 6 /\ files[1] = f1 /\ files[2] = f2 /\ files[3] = f3 /\ files[4] = f4 /\ files[5] = f5 /\ files[6] = f6
  OBVIOUS
<1> HIDE DEF files
<1>3. \A f : Body(f) = [i \in 0 .. 6 |->
          IF i = 0 THEN 0
          ELSE IF i = 1 THEN f[0] + f1.size
          ELSE IF i = 2 THEN f[1] + f2.size
          ELSE IF i = 3 THEN f[2] + f3.size
          ELSE IF i = 4 THEN f[3] + f4.size
          ELSE IF i = 5 THEN f[4] + f5.size
          ELSE f[5] + f6.size
          ]
  BY <1>1
<1>n. e0 = 0 /\ e0 \in Nat /\ e1 \in Nat /\ e1 = e0 + f1.size /\ e2 \in Nat /\ e2 = e1 + f2.size /\ e3 \in Nat /\ e3 = e2 + f3.size /\ e4 \in Nat /\ e4 = e3 + f4.size /\ e5 \in Nat /\ e5 = e4 + f5.size /\ e6 \in Nat /\ e6 = e5 + f6.size
  OBVIOUS
<1> HIDE DEF e0, e1, e2, e3, e4, e5, e6
<1>4. g[0] = e0 /\ g[1] = e1 /\ g[2] = e2 /\ g[3] = e3 /\ g[4] = e4 /\ g[5] = e5 /\ g[6] = e6
  OBVIOUS
<1>5. g = Body(g)
  <2>1. Body(g) = [i \in 0 .. 6 |-> IF i = 0 THEN e0 ELSE IF i = 1 THEN e1 ELSE IF i = 2 THEN e2 ELSE IF i = 3 THEN e3 ELSE IF i = 4 THEN e4 ELSE IF i = 5 THEN e5 ELSE e6]
    <3> HIDE DEF Body, g
    <3> QED BY <1>n, <1>3, <1>4
  <2> HIDE DEF Body
  <2> QED BY <2>1
<1>6. O = Body(O)
  <2>1. O = CHOOSE f : f = Body(f)
    BY DEF Offsets
  <2> HIDE DEF Body, O, g
  <2> QED BY <1>5, <2>1
<1> HIDE DEF Body, O
<1>b0. O[0] = e0
  BY <1>3, <1>6, <1>n
<1>b1. O[1] = e1
  BY <1>n, <1>b0, <1>3, <1>6
<1>b2. O[2] = e2
  BY <1>n, <1>b1, <1>3, <1>6
<1>b3. O[3] = e3
  BY <1>n, <1>b2, <1>3, <1>6
<1>b4. O[4] = e4
  BY <1>n, <1>b3, <1>3, <1>6
<1>b5. O[5] = e5
  BY <1>n, <1>b4, <1>3, <1>6
<1>b6. O[6] = e6
  BY <1>n, <1>b5, <1>3, <1>6
<1> QED BY <1>b0, <1>b1, <1>b2, <1>b3, <1>b4, <1>b5, <1>b6, <1>n DEF O, files

\* A table describes the disk made of its partitions.
Matches(parts) ==
    LET files == FilesOf(parts)
        table == partitionTable(parts)
        at == Concatenated(files).at
    IN  /\ \A i \in DOMAIN table :
             /\ table[i].name = files[i + 1].name /\ table[i].start * Sector = at[i + 1]
             /\ (table[i].end + 1) * Sector = at[i + 1] + files[i + 1].size
        /\ Concatenated(files).size \in Nat /\ Concatenated(files).size % Sector = 0
        /\ files # <<>>

LEMMA Matches3 ==
    ASSUME NEW p, NEW q, NEW r, NEW k \in Nat, NEW l \in Nat, NEW m \in Nat,
           p.size = k * MB, q.size = l * MB, r.size = m * MB
    PROVE  Matches(<<p, q, r>>)
<1> DEFINE i == [name |-> "init", size |-> MB]
           e == [name |-> "end", size |-> MB]
           parts == <<p, q, r>>
           files == <<i, p, q, r, e>>
           O == Offsets(files)
           E == TableEnds(parts)
           table == partitionTable(parts)
           at == Concatenated(files).at
<1>0. FilesOf(parts) = <<i>> \o parts \o <<e>>
  BY DEF FilesOf
<1>2. i.size = MB /\ e.size = MB /\ MB \in Nat /\ MB = 2048 * Sector /\ Sector \in Nat
  BY UnitAssumption
<1>z0. p.size = k * MB /\ p.size = (2048 * k) * Sector /\ p.size \in Nat
  BY WholeSize
<1>z1. q.size = l * MB /\ q.size = (2048 * l) * Sector /\ q.size \in Nat
  BY WholeSize
<1>z2. r.size = m * MB /\ r.size = (2048 * m) * Sector /\ r.size \in Nat
  BY WholeSize
<1>3. p.size = k * MB /\ p.size = (2048 * k) * Sector /\ p.size \in Nat /\ q.size = l * MB /\ q.size = (2048 * l) * Sector /\ q.size \in Nat /\ r.size = m * MB /\ r.size = (2048 * m) * Sector /\ r.size \in Nat
  BY <1>z0, <1>z1, <1>z2
<1> HIDE DEF i, e
<1>a. <<i>> \o parts = <<i, p, q, r>>
  BY JoinOneThree
<1>b. <<i, p, q, r>> \o <<e>> = files
  BY JoinFourOne
<1>1. FilesOf(parts) = files
  BY <1>0, <1>a, <1>b
<1>4. /\ O[0] = 0 /\ O[1] = O[0] + i.size
      /\ O[2] = O[1] + p.size
      /\ O[3] = O[2] + q.size
      /\ O[4] = O[3] + r.size
      /\ O[5] = O[4] + e.size
  BY <1>2, <1>3, OffsetsOf5
<1>5. /\ E[0] = 2047
      /\ E[1] = 2047 + 2048 * k
      /\ E[2] = 2047 + 2048 * k + 2048 * l
      /\ E[3] = 2047 + 2048 * k + 2048 * l + 2048 * m
  BY EndsOf3
<1>6. Len(files) = 5 /\ Len(parts) = 3 /\ parts[1] = p /\ files[2] = p /\ parts[2] = q /\ files[3] = q /\ parts[3] = r /\ files[4] = r /\ files # <<>>
  OBVIOUS
<1>7. at = [j \in 1 .. 5 |-> O[j - 1]] /\ Concatenated(files).size = O[5]
  BY <1>6, ConcatenatedIs
<1>8. DOMAIN table = 1 .. 3 /\ \A j \in 1 .. 3 :
        table[j].name = parts[j].name /\ table[j].start = E[j - 1] + 1 /\ table[j].end = E[j]
  BY <1>6, TableOf
<1> HIDE DEF files, parts, table, at, O, E
<1>s1. /\ table[1].name = files[2].name
      /\ table[1].start = 2048 /\ table[1].end + 1 = 2048 + 2048 * k
      /\ at[2] = (2048) * Sector /\ O[1] = (2048) * Sector
      /\ at[2] + files[2].size = (2048 + 2048 * k) * Sector
  <2>1. table[1].name = files[2].name /\ table[1].start = 2048 /\ table[1].end + 1 = 2048 + 2048 * k
    <3>1. /\ table[1].name = parts[1].name /\ table[1].start = E[0] + 1 /\ table[1].end = E[1]
      BY <1>8
    <3>2. parts[1].name = files[2].name
      BY <1>6
    <3>3. E[0] + 1 = 2048 /\ E[1] + 1 = 2048 + 2048 * k
      BY <1>5
    <3> QED BY <3>1, <3>2, <3>3
  <2>2. at[2] = O[1]
    BY <1>7
  <2>3. O[1] = (2048) * Sector
    BY <1>2, <1>3, <1>4
  <2>4. files[2].size = (2048 * k) * Sector
    BY <1>3, <1>6
  <2>5. (2048) * Sector + (2048 * k) * Sector = (2048 + 2048 * k) * Sector
    BY <1>2
  <2> QED BY <2>1, <2>2, <2>3, <2>4, <2>5
<1>s2. /\ table[2].name = files[3].name
      /\ table[2].start = 2048 + 2048 * k /\ table[2].end + 1 = 2048 + 2048 * k + 2048 * l
      /\ at[3] = (2048 + 2048 * k) * Sector /\ O[2] = (2048 + 2048 * k) * Sector
      /\ at[3] + files[3].size = (2048 + 2048 * k + 2048 * l) * Sector
  <2>1. table[2].name = files[3].name /\ table[2].start = 2048 + 2048 * k /\ table[2].end + 1 = 2048 + 2048 * k + 2048 * l
    <3>1. /\ table[2].name = parts[2].name /\ table[2].start = E[1] + 1 /\ table[2].end = E[2]
      BY <1>8
    <3>2. parts[2].name = files[3].name
      BY <1>6
    <3>3. E[1] + 1 = 2048 + 2048 * k /\ E[2] + 1 = 2048 + 2048 * k + 2048 * l
      BY <1>5
    <3> QED BY <3>1, <3>2, <3>3
  <2>2. at[3] = O[2]
    BY <1>7
  <2>3. O[2] = (2048 + 2048 * k) * Sector
    BY <1>2, <1>3, <1>4, <1>s1
  <2>4. files[3].size = (2048 * l) * Sector
    BY <1>3, <1>6
  <2>5. (2048 + 2048 * k) * Sector + (2048 * l) * Sector = (2048 + 2048 * k + 2048 * l) * Sector
    BY <1>2
  <2> QED BY <2>1, <2>2, <2>3, <2>4, <2>5
<1>s3. /\ table[3].name = files[4].name
      /\ table[3].start = 2048 + 2048 * k + 2048 * l /\ table[3].end + 1 = 2048 + 2048 * k + 2048 * l + 2048 * m
      /\ at[4] = (2048 + 2048 * k + 2048 * l) * Sector /\ O[3] = (2048 + 2048 * k + 2048 * l) * Sector
      /\ at[4] + files[4].size = (2048 + 2048 * k + 2048 * l + 2048 * m) * Sector
  <2>1. table[3].name = files[4].name /\ table[3].start = 2048 + 2048 * k + 2048 * l /\ table[3].end + 1 = 2048 + 2048 * k + 2048 * l + 2048 * m
    <3>1. /\ table[3].name = parts[3].name /\ table[3].start = E[2] + 1 /\ table[3].end = E[3]
      BY <1>8
    <3>2. parts[3].name = files[4].name
      BY <1>6
    <3>3. E[2] + 1 = 2048 + 2048 * k + 2048 * l /\ E[3] + 1 = 2048 + 2048 * k + 2048 * l + 2048 * m
      BY <1>5
    <3> QED BY <3>1, <3>2, <3>3
  <2>2. at[4] = O[3]
    BY <1>7
  <2>3. O[3] = (2048 + 2048 * k + 2048 * l) * Sector
    BY <1>2, <1>3, <1>4, <1>s2
  <2>4. files[4].size = (2048 * m) * Sector
    BY <1>3, <1>6
  <2>5. (2048 + 2048 * k + 2048 * l) * Sector + (2048 * m) * Sector = (2048 + 2048 * k + 2048 * l + 2048 * m) * Sector
    BY <1>2
  <2> QED BY <2>1, <2>2, <2>3, <2>4, <2>5
<1>9. \A j \in DOMAIN table :
        /\ table[j].name = files[j + 1].name /\ table[j].start * Sector = at[j + 1]
        /\ (table[j].end + 1) * Sector = at[j + 1] + files[j + 1].size
  BY <1>s1, <1>s2, <1>s3, <1>8
<1>10. O[5] = (2048 + 2048 * k + 2048 * l + 2048 * m + 2048) * Sector /\ 2048 + 2048 * k + 2048 * l + 2048 * m + 2048 \in Nat
  <2>1. O[4] = (2048 + 2048 * k + 2048 * l + 2048 * m) * Sector
    BY <1>4, <1>6, <1>7, <1>s3
  <2> QED BY <1>2, <1>4, <2>1
<1>11. O[5] \in Nat /\ O[5] % Sector = 0
  BY <1>2, <1>10, Multiple
<1> QED BY <1>1, <1>6, <1>7, <1>9, <1>11 DEF Matches, table, at, files, parts

LEMMA Matches4 ==
    ASSUME NEW p, NEW q, NEW r, NEW s, NEW k \in Nat, NEW l \in Nat, NEW m \in Nat, NEW n \in Nat,
           p.size = k * MB, q.size = l * MB, r.size = m * MB, s.size = n * MB
    PROVE  Matches(<<p, q, r, s>>)
<1> DEFINE i == [name |-> "init", size |-> MB]
           e == [name |-> "end", size |-> MB]
           parts == <<p, q, r, s>>
           files == <<i, p, q, r, s, e>>
           O == Offsets(files)
           E == TableEnds(parts)
           table == partitionTable(parts)
           at == Concatenated(files).at
<1>0. FilesOf(parts) = <<i>> \o parts \o <<e>>
  BY DEF FilesOf
<1>2. i.size = MB /\ e.size = MB /\ MB \in Nat /\ MB = 2048 * Sector /\ Sector \in Nat
  BY UnitAssumption
<1>z0. p.size = k * MB /\ p.size = (2048 * k) * Sector /\ p.size \in Nat
  BY WholeSize
<1>z1. q.size = l * MB /\ q.size = (2048 * l) * Sector /\ q.size \in Nat
  BY WholeSize
<1>z2. r.size = m * MB /\ r.size = (2048 * m) * Sector /\ r.size \in Nat
  BY WholeSize
<1>z3. s.size = n * MB /\ s.size = (2048 * n) * Sector /\ s.size \in Nat
  BY WholeSize
<1>3. p.size = k * MB /\ p.size = (2048 * k) * Sector /\ p.size \in Nat /\ q.size = l * MB /\ q.size = (2048 * l) * Sector /\ q.size \in Nat /\ r.size = m * MB /\ r.size = (2048 * m) * Sector /\ r.size \in Nat /\ s.size = n * MB /\ s.size = (2048 * n) * Sector /\ s.size \in Nat
  BY <1>z0, <1>z1, <1>z2, <1>z3
<1> HIDE DEF i, e
<1>a. <<i>> \o parts = <<i, p, q, r, s>>
  BY JoinOneFour
<1>b. <<i, p, q, r, s>> \o <<e>> = files
  BY JoinFiveOne
<1>1. FilesOf(parts) = files
  BY <1>0, <1>a, <1>b
<1>4. /\ O[0] = 0 /\ O[1] = O[0] + i.size
      /\ O[2] = O[1] + p.size
      /\ O[3] = O[2] + q.size
      /\ O[4] = O[3] + r.size
      /\ O[5] = O[4] + s.size
      /\ O[6] = O[5] + e.size
  BY <1>2, <1>3, OffsetsOf6
<1>5. /\ E[0] = 2047
      /\ E[1] = 2047 + 2048 * k
      /\ E[2] = 2047 + 2048 * k + 2048 * l
      /\ E[3] = 2047 + 2048 * k + 2048 * l + 2048 * m
      /\ E[4] = 2047 + 2048 * k + 2048 * l + 2048 * m + 2048 * n
  BY EndsOf4
<1>6. Len(files) = 6 /\ Len(parts) = 4 /\ parts[1] = p /\ files[2] = p /\ parts[2] = q /\ files[3] = q /\ parts[3] = r /\ files[4] = r /\ parts[4] = s /\ files[5] = s /\ files # <<>>
  OBVIOUS
<1>7. at = [j \in 1 .. 6 |-> O[j - 1]] /\ Concatenated(files).size = O[6]
  BY <1>6, ConcatenatedIs
<1>8. DOMAIN table = 1 .. 4 /\ \A j \in 1 .. 4 :
        table[j].name = parts[j].name /\ table[j].start = E[j - 1] + 1 /\ table[j].end = E[j]
  BY <1>6, TableOf
<1> HIDE DEF files, parts, table, at, O, E
<1>s1. /\ table[1].name = files[2].name
      /\ table[1].start = 2048 /\ table[1].end + 1 = 2048 + 2048 * k
      /\ at[2] = (2048) * Sector /\ O[1] = (2048) * Sector
      /\ at[2] + files[2].size = (2048 + 2048 * k) * Sector
  <2>1. table[1].name = files[2].name /\ table[1].start = 2048 /\ table[1].end + 1 = 2048 + 2048 * k
    <3>1. /\ table[1].name = parts[1].name /\ table[1].start = E[0] + 1 /\ table[1].end = E[1]
      BY <1>8
    <3>2. parts[1].name = files[2].name
      BY <1>6
    <3>3. E[0] + 1 = 2048 /\ E[1] + 1 = 2048 + 2048 * k
      BY <1>5
    <3> QED BY <3>1, <3>2, <3>3
  <2>2. at[2] = O[1]
    BY <1>7
  <2>3. O[1] = (2048) * Sector
    BY <1>2, <1>3, <1>4
  <2>4. files[2].size = (2048 * k) * Sector
    BY <1>3, <1>6
  <2>5. (2048) * Sector + (2048 * k) * Sector = (2048 + 2048 * k) * Sector
    BY <1>2
  <2> QED BY <2>1, <2>2, <2>3, <2>4, <2>5
<1>s2. /\ table[2].name = files[3].name
      /\ table[2].start = 2048 + 2048 * k /\ table[2].end + 1 = 2048 + 2048 * k + 2048 * l
      /\ at[3] = (2048 + 2048 * k) * Sector /\ O[2] = (2048 + 2048 * k) * Sector
      /\ at[3] + files[3].size = (2048 + 2048 * k + 2048 * l) * Sector
  <2>1. table[2].name = files[3].name /\ table[2].start = 2048 + 2048 * k /\ table[2].end + 1 = 2048 + 2048 * k + 2048 * l
    <3>1. /\ table[2].name = parts[2].name /\ table[2].start = E[1] + 1 /\ table[2].end = E[2]
      BY <1>8
    <3>2. parts[2].name = files[3].name
      BY <1>6
    <3>3. E[1] + 1 = 2048 + 2048 * k /\ E[2] + 1 = 2048 + 2048 * k + 2048 * l
      BY <1>5
    <3> QED BY <3>1, <3>2, <3>3
  <2>2. at[3] = O[2]
    BY <1>7
  <2>3. O[2] = (2048 + 2048 * k) * Sector
    BY <1>2, <1>3, <1>4, <1>s1
  <2>4. files[3].size = (2048 * l) * Sector
    BY <1>3, <1>6
  <2>5. (2048 + 2048 * k) * Sector + (2048 * l) * Sector = (2048 + 2048 * k + 2048 * l) * Sector
    BY <1>2
  <2> QED BY <2>1, <2>2, <2>3, <2>4, <2>5
<1>s3. /\ table[3].name = files[4].name
      /\ table[3].start = 2048 + 2048 * k + 2048 * l /\ table[3].end + 1 = 2048 + 2048 * k + 2048 * l + 2048 * m
      /\ at[4] = (2048 + 2048 * k + 2048 * l) * Sector /\ O[3] = (2048 + 2048 * k + 2048 * l) * Sector
      /\ at[4] + files[4].size = (2048 + 2048 * k + 2048 * l + 2048 * m) * Sector
  <2>1. table[3].name = files[4].name /\ table[3].start = 2048 + 2048 * k + 2048 * l /\ table[3].end + 1 = 2048 + 2048 * k + 2048 * l + 2048 * m
    <3>1. /\ table[3].name = parts[3].name /\ table[3].start = E[2] + 1 /\ table[3].end = E[3]
      BY <1>8
    <3>2. parts[3].name = files[4].name
      BY <1>6
    <3>3. E[2] + 1 = 2048 + 2048 * k + 2048 * l /\ E[3] + 1 = 2048 + 2048 * k + 2048 * l + 2048 * m
      BY <1>5
    <3> QED BY <3>1, <3>2, <3>3
  <2>2. at[4] = O[3]
    BY <1>7
  <2>3. O[3] = (2048 + 2048 * k + 2048 * l) * Sector
    BY <1>2, <1>3, <1>4, <1>s2
  <2>4. files[4].size = (2048 * m) * Sector
    BY <1>3, <1>6
  <2>5. (2048 + 2048 * k + 2048 * l) * Sector + (2048 * m) * Sector = (2048 + 2048 * k + 2048 * l + 2048 * m) * Sector
    BY <1>2
  <2> QED BY <2>1, <2>2, <2>3, <2>4, <2>5
<1>s4. /\ table[4].name = files[5].name
      /\ table[4].start = 2048 + 2048 * k + 2048 * l + 2048 * m /\ table[4].end + 1 = 2048 + 2048 * k + 2048 * l + 2048 * m + 2048 * n
      /\ at[5] = (2048 + 2048 * k + 2048 * l + 2048 * m) * Sector /\ O[4] = (2048 + 2048 * k + 2048 * l + 2048 * m) * Sector
      /\ at[5] + files[5].size = (2048 + 2048 * k + 2048 * l + 2048 * m + 2048 * n) * Sector
  <2>1. table[4].name = files[5].name /\ table[4].start = 2048 + 2048 * k + 2048 * l + 2048 * m /\ table[4].end + 1 = 2048 + 2048 * k + 2048 * l + 2048 * m + 2048 * n
    <3>1. /\ table[4].name = parts[4].name /\ table[4].start = E[3] + 1 /\ table[4].end = E[4]
      BY <1>8
    <3>2. parts[4].name = files[5].name
      BY <1>6
    <3>3. E[3] + 1 = 2048 + 2048 * k + 2048 * l + 2048 * m /\ E[4] + 1 = 2048 + 2048 * k + 2048 * l + 2048 * m + 2048 * n
      BY <1>5
    <3> QED BY <3>1, <3>2, <3>3
  <2>2. at[5] = O[4]
    BY <1>7
  <2>3. O[4] = (2048 + 2048 * k + 2048 * l + 2048 * m) * Sector
    BY <1>2, <1>3, <1>4, <1>s3
  <2>4. files[5].size = (2048 * n) * Sector
    BY <1>3, <1>6
  <2>5. (2048 + 2048 * k + 2048 * l + 2048 * m) * Sector + (2048 * n) * Sector = (2048 + 2048 * k + 2048 * l + 2048 * m + 2048 * n) * Sector
    BY <1>2
  <2> QED BY <2>1, <2>2, <2>3, <2>4, <2>5
<1>9. \A j \in DOMAIN table :
        /\ table[j].name = files[j + 1].name /\ table[j].start * Sector = at[j + 1]
        /\ (table[j].end + 1) * Sector = at[j + 1] + files[j + 1].size
  BY <1>s1, <1>s2, <1>s3, <1>s4, <1>8
<1>10. O[6] = (2048 + 2048 * k + 2048 * l + 2048 * m + 2048 * n + 2048) * Sector /\ 2048 + 2048 * k + 2048 * l + 2048 * m + 2048 * n + 2048 \in Nat
  <2>1. O[5] = (2048 + 2048 * k + 2048 * l + 2048 * m + 2048 * n) * Sector
    BY <1>4, <1>6, <1>7, <1>s4
  <2> QED BY <1>2, <1>4, <2>1
<1>11. O[6] \in Nat /\ O[6] % Sector = 0
  BY <1>2, <1>10, Multiple
<1> QED BY <1>1, <1>6, <1>7, <1>9, <1>11 DEF Matches, table, at, files, parts

LEMMA Smaller == ASSUME NEW a \in Nat, NEW b \in Nat PROVE Min({a, b}) = IF a <= b THEN a ELSE b
  BY DEF Min
LEMMA Larger == ASSUME NEW a \in Nat, NEW b \in Nat PROVE Max({a, b}) = IF a >= b THEN a ELSE b
  BY DEF Max

\* What a geometry has to be for a disk of so many sectors.
Fits(g, sectors) ==
    /\ g.cylinders \in Nat /\ g.cylinders <= 65535 /\ g.heads \in 1 .. 16 /\ g.track \in {17, 31, 63, 255}
    /\ g.cylinders * (g.heads * g.track) <= sectors
    /\ g.cylinders = 65535 \/ (g.cylinders + 1) * (g.heads * g.track) > sectors

LEMMA WholeCylinders ==
    ASSUME NEW n \in Nat, NEW h \in 1 .. 16, NEW t \in {17, 31, 63, 255}
    PROVE  LET c == (n \div t) \div h IN
           c \in Nat /\ c * (h * t) <= n /\ n < (c + 1) * (h * t)
<1> DEFINE c == (n \div t) \div h
           m == n \div t
<1>1. m \in Nat /\ m * t <= n /\ n < (m + 1) * t
  OBVIOUS
<1>2. (m \div h) \in Nat /\ (m \div h) * h <= m /\ m + 1 <= ((m \div h) + 1) * h
  BY <1>1
<1>3. ASSUME NEW k \in Nat, NEW q \in Nat, k * h <= q, q + 1 <= (k + 1) * h, q * t <= n, n < (q + 1) * t
      PROVE  k * (h * t) <= n /\ n < (k + 1) * (h * t)
  BY <1>3
<1> QED BY <1>1, <1>2, <1>3

LEMMA GeometryFits == ASSUME NEW n \in Nat PROVE Fits(chsCalculation(n), n)
<1> DEFINE total == Min({n, 65535 * 16 * 255})
           G(h, t) == [cylinders |-> (total \div t) \div h, heads |-> h, track |-> t]
           cth17 == total \div 17
           heads == Max({4, (cth17 + 1023) \div 1024})
<1>1. total \in Nat /\ total <= n /\ total <= 65535 * 16 * 255 /\ (total # n => total = 65535 * 16 * 255)
  BY Smaller
<1> HIDE DEF total
<1>2. cth17 \in Nat /\ heads \in Nat /\ heads >= 4
  BY <1>1, Larger
<1> HIDE DEF heads
<1>3. ASSUME NEW h \in 1 .. 16, NEW t \in {17, 31, 63, 255}, (total \div t) \div h <= 65535,
             total # n => (total \div t) \div h = 65535
      PROVE  Fits(G(h, t), n)
  <2> DEFINE c == (total \div t) \div h
  <2>1. c \in Nat /\ c * (h * t) <= total /\ total < (c + 1) * (h * t)
    BY <1>1, <1>3, WholeCylinders
  <2>2. c <= 65535 /\ (total # n => c = 65535)
    BY <1>3
  <2>3. G(h, t) = [cylinders |-> c, heads |-> h, track |-> t]
    OBVIOUS
  <2>4. ASSUME NEW k \in Nat, k <= 65535, total # n => k = 65535,
               k * (h * t) <= total, total < (k + 1) * (h * t)
        PROVE  Fits([cylinders |-> k, heads |-> h, track |-> t], n)
    <3>1. k \in Nat
      OBVIOUS
    <3>2. h * t \in Nat
      OBVIOUS
    <3>3. k * (h * t) <= n
      BY <1>1, <2>4, <3>1, <3>2
    <3>4. k = 65535 \/ (k + 1) * (h * t) > n
      BY <1>1, <2>4, <3>1, <3>2
    <3> DEFINE g == [cylinders |-> k, heads |-> h, track |-> t]
    <3>5. g.cylinders = k /\ g.heads = h /\ g.track = t
      OBVIOUS
    <3> HIDE DEF g
    <3>6. Fits(g, n)
      BY <2>4, <3>3, <3>4, <3>5 DEF Fits
    <3> QED BY <3>6 DEF g
  <2>5. c \in Nat
    BY <2>1
  <2> HIDE DEF c, G
  <2> QED BY <2>1, <2>2, <2>3, <2>4, <2>5
<1>4. CASE total >= 65535 * 16 * 63
  <2>1. (total \div 255) \div 16 <= 65535 /\ (total # n => (total \div 255) \div 16 = 65535)
    BY <1>1
  <2>2. chsCalculation(n) = G(16, 255)
    BY <1>4 DEF chsCalculation, total
  <2> QED BY <2>1, <2>2, <1>3
<1>5. CASE total < 65535 * 16 * 63 /\ cth17 < heads * 1024 /\ heads <= 16
  <2>1. (total \div 17) \div heads <= 65535 /\ total = n
    BY <1>1, <1>2, <1>5
  <2>2. chsCalculation(n) = G(heads, 17)
    BY <1>5, <1>1, <1>2 DEF chsCalculation, total, heads
  <2>3. heads \in 1 .. 16
    BY <1>2, <1>5
  <2>4. (total \div 17) \div heads <= 65535
    BY <2>1
  <2>5. total # n => (total \div 17) \div heads = 65535
    BY <2>1
  <2> HIDE DEF G
  <2>6. Fits(G(heads, 17), n)
    BY <2>3, <2>4, <2>5, <1>3
  <2> QED BY <2>2, <2>6
<1>6. CASE total < 65535 * 16 * 63 /\ ~(cth17 < heads * 1024 /\ heads <= 16) /\ total \div 31 < 16 * 1024
  <2>1. (total \div 31) \div 16 <= 65535 /\ total = n
    BY <1>1, <1>6
  <2>2. chsCalculation(n) = G(16, 31)
    BY <1>6, <1>1, <1>2 DEF chsCalculation, total, heads
  <2> QED BY <2>1, <2>2, <1>3
<1>7. CASE total < 65535 * 16 * 63 /\ ~(cth17 < heads * 1024 /\ heads <= 16) /\ ~(total \div 31 < 16 * 1024)
  <2>1. (total \div 63) \div 16 <= 65535 /\ total = n
    BY <1>1, <1>7
  <2>2. chsCalculation(n) = G(16, 63)
    BY <1>7, <1>1, <1>2 DEF chsCalculation, total, heads
  <2> QED BY <2>1, <2>2, <1>3
<1> QED BY <1>1, <1>4, <1>5, <1>6, <1>7

(***************************************************************************)
(* Every step of a raw disk build keeps it sound.                          *)
(***************************************************************************)
IsFile(d) == {"size", "content", "table", "wiped", "grub"} \subseteq DOMAIN d
Sound(r) == IsBuild(r) /\ IsFile(r.disk) /\ BuildInv(r)
SamePlan(r, s) == s.job = r.job /\ s.image = r.image /\ s.state = r.state
SameParts(r, s) == SamePlan(r, s) /\ s.parts = r.parts /\ s.esp = r.esp /\ s.oem = r.oem
                   /\ s.emitted = r.emitted

LEMMA JobHas ==
    ASSUME NEW job \in RawImage
    PROVE  /\ job.efi \in BOOLEAN /\ job.partitions \in BOOLEAN /\ job.maas \in BOOLEAN
           /\ job.to \in {"raw", "vhd", "gce"} /\ job.source \in Nat /\ job.recovery \in Int
           /\ job.state \in Int /\ job.final \in Nat
           /\ job.rootfs \in SUBSET {"shim", "grub"}
           /\ (job.partitions \/ job.maas => job.efi) /\ (job.partitions => job.to = "raw")
BY DEF RawImage

LEMMA SamePartsOf ==
    ASSUME NEW r, NEW s, SamePlan(r, s)
    PROVE  PartsOf(s) = PartsOf(r) /\ RecoveryPart(s) = RecoveryPart(r)
BY DEF SamePlan, PartsOf, RecoveryPart

LEMMA PartsMatch ==
    ASSUME NEW r, r.job \in RawImage, r.image \in Nat
    PROVE  Matches(PartsOf(r))
<1> DEFINE k == IF r.job.efi THEN EfiSize ELSE BiosSize
           m == recoveryPartitionSize(r.image)
           p == BootPart(r.job)
           o == Part("oem", OEMSize)
           c == Part("curtin", 64)
           q == RecoveryPart(r)
<1>1. k \in Nat /\ m \in Nat /\ OEMSize \in Nat /\ 64 \in Nat
  BY DEF EfiSize, BiosSize, OEMSize, recoveryPartitionSize
<1>2. p.size = k * MB /\ o.size = OEMSize * MB /\ c.size = 64 * MB /\ q.size = m * MB
  BY DEF BootPart, Part, RecoveryPart
<1> HIDE DEF k, m, p, o, c, q
<1>3. Matches(<<p, o, q>>)
  BY <1>1, <1>2, Matches3
<1>4. Matches(<<p, c, o, q>>)
  BY <1>1, <1>2, Matches4
<1> QED BY <1>3, <1>4 DEF PartsOf, p, c, o, q

LEMMA TableSame ==
    ASSUME NEW r, NEW s, TableInv(r), SamePlan(r, s), s.disk = r.disk, s.pc = "end", s.res = "failed"
    PROVE  TableInv(s)
BY SamePartsOf DEF TableInv, SamePlan, HasDisk, Mapped, Attached, Unjoined

LEMMA FailsSoundly ==
    ASSUME NEW r, Sound(r), NEW s, IsBuild(s), SamePlan(r, s), s.disk = r.disk,
           r.lost \subseteq s.lost, s.pc = "end", s.res = "failed"
    PROVE  Sound(s)
<1>1. PartInv(s)
  BY DEF Sound, BuildInv, PartInv, Past, SamePlan, HasDisk, Mapped, Attached
<1>2. ContentInv(s)
  BY DEF ContentInv, Past
<1>3. TableInv(s)
  BY TableSame DEF Sound, BuildInv
<1>4. GrubInv(s)
  BY DEF Sound, BuildInv, GrubInv, Mapped, Attached
<1>5. CloudInv(s)
  BY DEF CloudInv
<1> QED BY <1>1, <1>2, <1>3, <1>4, <1>5 DEF Sound, BuildInv, Pcs, Results, SamePlan

\* After the partitions are joined they are only read.
LEMMA KeepsParts ==
    ASSUME NEW r, Sound(r), NEW s, SameParts(r, s), r.pc \in HasDisk \union {"join"},
           (s.pc \in HasDisk /\ s.res = "none") \/ (s.pc = "end" /\ s.res = "ok")
    PROVE  PartInv(s) /\ ContentInv(s) /\ s.job \in RawImage /\ s.pc \in Pcs /\ s.res \in Results
           /\ (s.res # "none" => s.pc = "end") /\ ~r.job.partitions
<1>1. PartsOf(s) = PartsOf(r)
  BY SamePartsOf DEF SameParts
<1>2. r.pc \notin {"recovery", "boot", "oem", "choose", "end"}
  BY DEF HasDisk, Mapped, Attached
<1>3. s.pc \notin {"boot", "oem", "choose"}
  BY DEF HasDisk, Mapped, Attached
<1>4. PartInv(s) /\ ~r.job.partitions
  BY <1>1, <1>2, <1>3 DEF Sound, BuildInv, PartInv, Past, SameParts, SamePlan
<1>5. ContentInv(s)
  BY <1>2, <1>4 DEF Sound, BuildInv, ContentInv, Past, SameParts, SamePlan
<1> QED BY <1>4, <1>5 DEF Sound, BuildInv, HasDisk, Mapped, Attached, Pcs, Results, SameParts, SamePlan

LEMMA NotDone ==
    ASSUME NEW r, Sound(r), r.pc # "end" PROVE r.res = "none" /\ r.job \in RawImage
BY DEF Sound, BuildInv

\* Before the partitions are joined there is no disk.
LEMMA NoDiskYet ==
    ASSUME NEW r, Sound(r), r.pc \in Unjoined, NEW s, s.disk = r.disk, s.lost = r.lost, s.failing = r.failing,
           s.job = r.job, (s.pc \in Unjoined /\ s.res = "none") \/ (s.pc = "end" /\ s.res = "ok" /\ r.job.partitions)
    PROVE  TableInv(s) /\ GrubInv(s) /\ CloudInv(s)
<1>0. r.disk.content = <<>> /\ TableInv(r) /\ r.disk.table = <<>>
  BY DEF Sound, BuildInv, TableInv
<1>1. TableInv(s)
  BY <1>0 DEF TableInv, HasDisk, Mapped, Attached, Unjoined
<1>2. r.job.efi \/ ~r.job.partitions
  BY NotDone, JobHas DEF Unjoined
<1>3. ~r.failing
  BY DEF Sound, BuildInv, GrubInv, Unjoined
<1>4. GrubInv(s)
  BY <1>2, <1>3 DEF Sound, BuildInv, GrubInv, Mapped, Attached, Unjoined
<1>5. CloudInv(s)
  BY NotDone, JobHas DEF CloudInv, Unjoined
<1> QED BY <1>1, <1>4, <1>5

LEMMA RecoverySound ==
    ASSUME NEW b \in Builds, Sound(raw[b]), createRecoveryPartitionImage(b)
    PROVE  \E s : Becomes(b, s) /\ Sound(s) /\ s.job = raw[b].job /\ s.loop = raw[b].loop
<1> DEFINE r == raw[b]
           job == r.job
<1>1. r.pc = "recovery"
  BY DEF createRecoveryPartitionImage, At
<1>2. PICK known \in {job.source, 0} :
        LET image == recoveryImageSize(known, job.recovery)
            mb == recoveryPartitionSize(image)
        IN  /\ image > 0 /\ DeployImage(image, job.source)
            /\ Becomes(b, [r EXCEPT !.pc = "boot", !.image = image, !.parts = <<Part("recovery", mb)>>])
  BY DEF createRecoveryPartitionImage
<1> DEFINE image == recoveryImageSize(known, job.recovery)
           parts == <<Part("recovery", recoveryPartitionSize(image))>>
           s == [r EXCEPT !.pc = "boot", !.image = image, !.parts = parts]
<1>3. Becomes(b, s) /\ image > 0 /\ image >= job.source
  BY <1>2 DEF DeployImage
<1>4. r.res = "none" /\ job \in RawImage /\ job.source \in Nat /\ job.recovery \in Int
  BY <1>1, NotDone, JobHas
<1>5. image \in Nat
  BY <1>4 DEF recoveryImageSize
<1> HIDE DEF image, parts
<1>6. /\ IsBuild(s) /\ s.job = job /\ s.pc = "boot" /\ s.image = image /\ s.parts = parts /\ s.state = r.state
      /\ s.disk = r.disk /\ s.lost = r.lost /\ s.failing = r.failing /\ s.res = r.res /\ s.loop = r.loop
  BY DEF Sound, IsBuild
<1> HIDE DEF s, r
<1>7. PartInv(s)
  BY <1>3, <1>5, <1>6, <1>4 DEF PartInv, Past, HasDisk, Mapped, Attached, RecoveryPart, parts, Sound, BuildInv, r
<1>8. ContentInv(s)
  BY <1>4, <1>6 DEF ContentInv, Past
<1>9. TableInv(s) /\ GrubInv(s) /\ CloudInv(s)
  BY <1>1, <1>4, <1>6, NoDiskYet DEF Unjoined, r
<1>10. Sound(s)
  BY <1>4, <1>6, <1>7, <1>8, <1>9 DEF Sound, BuildInv, Pcs, Results, r
<1> QED BY <1>3, <1>6, <1>10 DEF r

LEMMA EfiSound ==
    ASSUME NEW b \in Builds, Sound(raw[b]), createEFIPartitionImage(b)
    PROVE  \E s : Becomes(b, s) /\ Sound(s) /\ s.job = raw[b].job /\ s.loop = raw[b].loop
<1> DEFINE r == raw[b]
           job == r.job
           esp == EfiFiles(job)
           parts == <<Part("efi", EfiSize)>> \o r.parts
           s == [r EXCEPT !.pc = "oem", !.esp = esp, !.parts = parts]
<1>1. r.pc = "boot" /\ job.efi /\ copyShimOrGrub(job, "shim") # {} /\ copyShimOrGrub(job, "grub") # {}
  BY DEF createEFIPartitionImage, At
<1>2. Becomes(b, s)
  BY DEF createEFIPartitionImage
<1>3. parts = <<BootPart(job), RecoveryPart(r)>>
  <2>1. r.parts = <<RecoveryPart(r)>> /\ Part("efi", EfiSize) = BootPart(job)
    BY <1>1 DEF Sound, BuildInv, PartInv, BootPart
  <2> QED BY <2>1, JoinOneOne
<1>4. r.res = "none" /\ job \in RawImage
  BY <1>1, NotDone
<1> HIDE DEF esp, parts
<1>6. /\ IsBuild(s) /\ SamePlan(r, s) /\ s.pc = "oem" /\ s.parts = parts /\ s.esp = esp
      /\ s.disk = r.disk /\ s.lost = r.lost /\ s.failing = r.failing /\ s.res = r.res /\ s.loop = r.loop
  BY DEF Sound, IsBuild, SamePlan
<1> HIDE DEF s, r
<1>7. PartInv(s)
  <2>1. r.image \in Nat /\ r.state \in Nat /\ r.image >= r.job.source
    BY <1>1 DEF Sound, BuildInv, PartInv, Past, r
  <2>2. RecoveryPart(s) = RecoveryPart(r) /\ s.job = r.job
    BY <1>6, SamePartsOf DEF SamePlan
  <2> QED BY <2>1, <2>2, <1>3, <1>4, <1>6 DEF PartInv, Past, HasDisk, Mapped, Attached, SamePlan
<1>8. ContentInv(s)
  BY <1>1, <1>4, <1>6 DEF ContentInv, Past, SamePlan, esp
<1>9. TableInv(s) /\ GrubInv(s) /\ CloudInv(s)
  BY <1>1, <1>4, <1>6, NoDiskYet DEF Unjoined, r, SamePlan
<1>10. Sound(s)
  BY <1>4, <1>6, <1>7, <1>8, <1>9 DEF Sound, BuildInv, Pcs, Results, r, SamePlan
<1> QED BY <1>2, <1>6, <1>10 DEF r, SamePlan

LEMMA BiosSound ==
    ASSUME NEW b \in Builds, Sound(raw[b]), createBiosPartitionImage(b)
    PROVE  \E s : Becomes(b, s) /\ Sound(s) /\ s.job = raw[b].job /\ s.loop = raw[b].loop
<1> DEFINE r == raw[b]
           job == r.job
           parts == <<Part("bios", BiosSize)>> \o r.parts
           s == [r EXCEPT !.pc = "oem", !.parts = parts]
<1>1. r.pc = "boot" /\ ~job.efi
  BY DEF createBiosPartitionImage, At
<1>2. Becomes(b, s)
  BY DEF createBiosPartitionImage
<1>3. parts = <<BootPart(job), RecoveryPart(r)>>
  <2>1. r.parts = <<RecoveryPart(r)>> /\ Part("bios", BiosSize) = BootPart(job)
    BY <1>1 DEF Sound, BuildInv, PartInv, BootPart
  <2> QED BY <2>1, JoinOneOne
<1>4. r.res = "none" /\ job \in RawImage
  BY <1>1, NotDone
<1> HIDE DEF parts
<1>6. /\ IsBuild(s) /\ SamePlan(r, s) /\ s.pc = "oem" /\ s.parts = parts
      /\ s.disk = r.disk /\ s.lost = r.lost /\ s.failing = r.failing /\ s.res = r.res /\ s.loop = r.loop
  BY DEF Sound, IsBuild, SamePlan
<1> HIDE DEF s, r
<1>7. PartInv(s)
  <2>1. r.image \in Nat /\ r.state \in Nat /\ r.image >= r.job.source
    BY <1>1 DEF Sound, BuildInv, PartInv, Past, r
  <2>2. RecoveryPart(s) = RecoveryPart(r) /\ s.job = r.job
    BY <1>6, SamePartsOf DEF SamePlan
  <2> QED BY <2>1, <2>2, <1>3, <1>4, <1>6 DEF PartInv, Past, HasDisk, Mapped, Attached, SamePlan
<1>8. ContentInv(s)
  BY <1>1, <1>4, <1>6 DEF ContentInv, Past, SamePlan
<1>9. TableInv(s) /\ GrubInv(s) /\ CloudInv(s)
  BY <1>1, <1>4, <1>6, NoDiskYet DEF Unjoined, r, SamePlan
<1>10. Sound(s)
  BY <1>4, <1>6, <1>7, <1>8, <1>9 DEF Sound, BuildInv, Pcs, Results, r, SamePlan
<1> QED BY <1>2, <1>6, <1>10 DEF r, SamePlan

LEMMA BackToMB ==
    ASSUME NEW mb \in Nat PROVE (mb * MB) \div MB = mb
<1>1. MB \in Nat /\ MB > 0
  BY UnitAssumption
<1> HIDE DEF UnitAssumption
<1> QED BY <1>1

LEMMA OemSound ==
    ASSUME NEW b \in Builds, Sound(raw[b]), createOemPartitionImage(b)
    PROVE  \E s : Becomes(b, s) /\ Sound(s) /\ s.job = raw[b].job /\ s.loop = raw[b].loop
<1> DEFINE r == raw[b]
           job == r.job
           recovery == r.parts[2].size \div MB
           oem == {"grubenv", "01_reset.yaml"} \union
                    (IF job.cc = "text" THEN {"user config"}
                     ELSE IF job.noDefault THEN {} ELSE {"default config"})
           state == IF job.state > 0 THEN job.state ELSE 3 * recovery + 100
           parts == <<r.parts[1], Part("oem", OEMSize), r.parts[2]>>
           s == [r EXCEPT !.pc = "choose", !.oem = oem, !.state = state, !.parts = parts]
<1>1. r.pc = "oem"
  BY DEF createOemPartitionImage, At
<1>2. Becomes(b, s)
  BY DEF createOemPartitionImage
<1>3. r.parts = <<BootPart(job), RecoveryPart(r)>> /\ r.image \in Nat /\ r.image >= job.source
  BY <1>1 DEF Sound, BuildInv, PartInv, Past
<1>4. r.res = "none" /\ job \in RawImage /\ job.state \in Int
  BY <1>1, NotDone, JobHas
<1>5. state \in Nat /\ (job.state = 0 => state >= 3 * r.image)
  <2> DEFINE m == 2 * r.image + 150
  <2>1. m \in Nat /\ r.parts[2].size = m * MB
    BY <1>3 DEF RecoveryPart, Part, recoveryPartitionSize
  <2> HIDE DEF m
  <2>2. recovery = m
    BY <2>1, BackToMB
  <2> HIDE DEF recovery
  <2>3. state = IF job.state > 0 THEN job.state ELSE 3 * (2 * r.image + 150) + 100
    BY <2>2 DEF m
  <2> QED BY <1>3, <1>4, <2>3
<1>6. parts = <<BootPart(job), Part("oem", OEMSize), RecoveryPart(r)>>
  BY <1>3
<1>7. job.cc = "text" <=> "user config" \in oem
  OBVIOUS
<1> HIDE DEF oem, parts, state
<1>8. /\ IsBuild(s) /\ s.job = job /\ s.image = r.image /\ s.state = state /\ s.pc = "choose" /\ s.parts = parts
      /\ s.oem = oem /\ s.esp = r.esp
      /\ s.disk = r.disk /\ s.lost = r.lost /\ s.failing = r.failing /\ s.res = r.res /\ s.loop = r.loop
  BY DEF Sound, IsBuild, SamePlan
<1> HIDE DEF s, r
<1>9. PartInv(s)
  <2>1. RecoveryPart(s) = RecoveryPart(r)
    BY <1>8 DEF RecoveryPart
  <2> QED BY <1>3, <1>4, <1>5, <1>6, <1>8, <2>1 DEF PartInv, Past, HasDisk, Mapped, Attached
<1>10. ContentInv(s)
  <2>1. job.efi => r.esp = EfiFiles(job) /\ copyShimOrGrub(job, "shim") # {} /\ copyShimOrGrub(job, "grub") # {}
    BY <1>1 DEF Sound, BuildInv, ContentInv, Past, r
  <2> QED BY <1>4, <1>5, <1>7, <1>8, <2>1 DEF ContentInv, Past
<1>11. TableInv(s) /\ GrubInv(s) /\ CloudInv(s)
  BY <1>1, <1>4, <1>8, NoDiskYet DEF Unjoined, r
<1>12. Sound(s)
  BY <1>4, <1>8, <1>9, <1>10, <1>11 DEF Sound, BuildInv, Pcs, Results, r
<1> QED BY <1>2, <1>8, <1>12 DEF r

LEMMA Chosen ==
    ASSUME NEW r, Sound(r), r.pc = "choose"
    PROVE  /\ r.parts = <<BootPart(r.job), Part("oem", OEMSize), RecoveryPart(r)>>
           /\ r.image \in Nat /\ r.state \in Nat /\ r.image >= r.job.source
           /\ r.job.efi => /\ r.esp = EfiFiles(r.job)
                           /\ copyShimOrGrub(r.job, "shim") # {} /\ copyShimOrGrub(r.job, "grub") # {}
           /\ r.job.cc = "text" <=> "user config" \in r.oem
           /\ r.job.state = 0 => r.state >= 3 * r.image
BY DEF Sound, BuildInv, PartInv, ContentInv, Past

\* The step that decides what becomes of the partitions.
LEMMA ChoiceSound ==
    ASSUME NEW r, Sound(r), r.pc = "choose", NEW s, IsBuild(s), SamePlan(r, s), s.esp = r.esp, s.oem = r.oem,
           s.disk = r.disk, s.lost = r.lost, s.failing = r.failing, s.parts = PartsOf(r),
           \/ s.pc = "join" /\ s.res = "none" /\ ~r.job.partitions
           \/ s.pc = "end" /\ s.res = "ok" /\ r.job.partitions /\ s.emitted = {"efi", "oem", "recovery"}
    PROVE  Sound(s)
<1>1. PartsOf(s) = PartsOf(r)
  BY SamePartsOf
<1>2. PartInv(s)
  BY <1>1, Chosen DEF PartInv, Past, HasDisk, Mapped, Attached, SamePlan
<1>3. ContentInv(s)
  BY Chosen DEF ContentInv, Past, SamePlan
<1>4. TableInv(s) /\ GrubInv(s) /\ CloudInv(s)
  BY NoDiskYet DEF Unjoined, SamePlan
<1> QED BY <1>2, <1>3, <1>4, NotDone DEF Sound, BuildInv, Pcs, Results, SamePlan

LEMMA EndsBadly ==
    ASSUME NEW b \in Builds, Sound(raw[b]), NEW t, Return(b, t, "failed"), IsBuild(t), SamePlan(raw[b], t),
           t.disk = raw[b].disk, raw[b].lost \subseteq t.lost
    PROVE  \E s : Becomes(b, s) /\ Sound(s) /\ s.job = raw[b].job /\ s.loop = t.loop
<1> DEFINE s == [t EXCEPT !.pc = "end", !.res = "failed"]
<1>1. /\ IsBuild(s) /\ SamePlan(raw[b], s) /\ s.disk = t.disk /\ s.lost = t.lost /\ s.pc = "end" /\ s.res = "failed"
      /\ s.loop = t.loop
  BY DEF IsBuild, SamePlan
<1>2. Becomes(b, s)
  BY DEF Return
<1> HIDE DEF s
<1>3. Sound(s)
  BY <1>1, FailsSoundly
<1> QED BY <1>1, <1>2, <1>3 DEF SamePlan

LEMMA EmitSound ==
    ASSUME NEW b \in Builds, Sound(raw[b]), emitPartitionImages(b)
    PROVE  \E s : Becomes(b, s) /\ Sound(s) /\ s.job = raw[b].job /\ s.loop = raw[b].loop
<1> DEFINE r == raw[b]
<1>1. r.pc = "choose" /\ r.job.partitions
  BY DEF emitPartitionImages, At
<1>2. CASE \E x : Return(b, [r EXCEPT !.emitted = x], "failed")
  <2>1. PICK x : Return(b, [r EXCEPT !.emitted = x], "failed")
    BY <1>2
  <2> DEFINE t == [r EXCEPT !.emitted = x]
  <2>2. IsBuild(t) /\ SamePlan(r, t) /\ t.disk = r.disk /\ t.lost = r.lost /\ t.loop = r.loop
    BY DEF Sound, IsBuild, SamePlan
  <2>3. Return(b, t, "failed")
    BY <2>1
  <2> HIDE DEF t
  <2> QED BY <2>2, <2>3, EndsBadly
<1>3. CASE Return(b, [r EXCEPT !.emitted = {p.name : p \in {r.parts[i] : i \in 1 .. 3}}], "ok")
  <2> DEFINE x == {p.name : p \in {r.parts[i] : i \in 1 .. 3}}
             t == [r EXCEPT !.emitted = x]
             s == [t EXCEPT !.pc = "end", !.res = "ok"]
  <2>1. Becomes(b, s)
    BY <1>3 DEF Return
  <2>2. r.job.efi /\ PartsOf(r) = r.parts
    BY <1>1, NotDone, JobHas, Chosen DEF PartsOf
  <2>3. x = {"efi", "oem", "recovery"}
    <3> DEFINE p == BootPart(r.job)
               o == Part("oem", OEMSize)
               q == RecoveryPart(r)
    <3>1. r.parts = <<p, o, q>>
      BY <1>1, Chosen
    <3>2. p.name = "efi" /\ o.name = "oem" /\ q.name = "recovery"
      BY <2>2 DEF BootPart, RecoveryPart, Part
    <3> HIDE DEF p, o, q
    <3> QED BY <3>1, <3>2
  <2> HIDE DEF x
  <2>4. /\ IsBuild(s) /\ SamePlan(r, s) /\ s.esp = r.esp /\ s.oem = r.oem /\ s.disk = r.disk /\ s.lost = r.lost
        /\ s.failing = r.failing /\ s.parts = r.parts /\ s.pc = "end" /\ s.res = "ok" /\ s.emitted = x
        /\ s.loop = r.loop
    BY DEF Sound, IsBuild, SamePlan
  <2> HIDE DEF s, r
  <2>5. Sound(s)
    BY <1>1, <2>2, <2>3, <2>4, ChoiceSound DEF r
  <2> QED BY <2>1, <2>4, <2>5 DEF SamePlan, r
<1> QED BY <1>2, <1>3 DEF emitPartitionImages

LEMMA LandingSound ==
    ASSUME NEW b \in Builds, Sound(raw[b]), createCurtinLandingPartitionImage(b) \/ NoLanding(b)
    PROVE  \E s : Becomes(b, s) /\ Sound(s) /\ s.job = raw[b].job /\ s.loop = raw[b].loop
<1> DEFINE r == raw[b]
<1>1. r.pc = "choose" /\ ~r.job.partitions
  BY DEF createCurtinLandingPartitionImage, NoLanding, At
<1>2. CASE Return(b, r, "failed")
  BY <1>2, EndsBadly DEF Sound, SamePlan
<1>3. CASE NoLanding(b)
  <2> DEFINE s == [r EXCEPT !.pc = "join"]
  <2>1. Becomes(b, s) /\ ~r.job.maas
    BY <1>3 DEF NoLanding
  <2>2. r.parts = PartsOf(r) /\ r.res = "none"
    BY <1>1, <2>1, Chosen, NotDone DEF PartsOf
  <2>3. /\ IsBuild(s) /\ SamePlan(r, s) /\ s.esp = r.esp /\ s.oem = r.oem /\ s.disk = r.disk /\ s.lost = r.lost
        /\ s.failing = r.failing /\ s.parts = r.parts /\ s.pc = "join" /\ s.res = r.res /\ s.loop = r.loop
    BY DEF Sound, IsBuild, SamePlan
  <2> HIDE DEF s, r
  <2>4. Sound(s)
    BY <1>1, <2>2, <2>3, ChoiceSound DEF r
  <2> QED BY <2>1, <2>3, <2>4 DEF SamePlan, r
<1>4. CASE createCurtinLandingPartitionImage(b) /\ ~Return(b, r, "failed")
  <2> DEFINE parts == <<r.parts[1], Part("curtin", 64), r.parts[2], r.parts[3]>>
             s == [r EXCEPT !.pc = "join", !.parts = parts]
  <2>1. Becomes(b, s) /\ r.job.maas
    BY <1>4 DEF createCurtinLandingPartitionImage
  <2>2. parts = PartsOf(r) /\ r.res = "none"
    <3>1. r.parts = <<BootPart(r.job), Part("oem", OEMSize), RecoveryPart(r)>> /\ r.res = "none"
      BY <1>1, Chosen, NotDone
    <3>2. PartsOf(r) = <<BootPart(r.job), Part("curtin", 64), Part("oem", OEMSize), RecoveryPart(r)>>
      BY <1>1, <2>1 DEF PartsOf
    <3> QED BY <3>1, <3>2
  <2> HIDE DEF parts
  <2>3. /\ IsBuild(s) /\ SamePlan(r, s) /\ s.esp = r.esp /\ s.oem = r.oem /\ s.disk = r.disk /\ s.lost = r.lost
        /\ s.failing = r.failing /\ s.parts = parts /\ s.pc = "join" /\ s.res = r.res /\ s.loop = r.loop
    BY DEF Sound, IsBuild, SamePlan
  <2> HIDE DEF s, r
  <2>4. Sound(s)
    BY <1>1, <2>2, <2>3, ChoiceSound DEF r
  <2> QED BY <2>1, <2>3, <2>4 DEF SamePlan, r
<1> QED BY <1>2, <1>3, <1>4

LEMMA JoinSound ==
    ASSUME NEW b \in Builds, Sound(raw[b]), ConcatFiles(b)
    PROVE  \E s : Becomes(b, s) /\ Sound(s) /\ s.job = raw[b].job /\ s.loop = raw[b].loop
<1> DEFINE r == raw[b]
           files == FilesOf(r.parts)
           size == roundToNearestSector(Concatenated(files).size)
           disk == [NoFile EXCEPT !.content = files, !.size = size]
           s == [r EXCEPT !.pc = "table", !.disk = disk]
<1>1. r.pc = "join" /\ Becomes(b, s)
  BY DEF ConcatFiles, At, FilesOf
<1>2. r.res = "none" /\ r.job \in RawImage /\ r.parts = PartsOf(r) /\ r.image \in Nat
  BY <1>1, NotDone DEF Sound, BuildInv, PartInv, Past
<1>3. Matches(r.parts)
  BY <1>2, PartsMatch
<1>4. size = Concatenated(files).size /\ size \in Nat /\ size % Sector = 0 /\ files # <<>>
  BY <1>3 DEF Matches, roundToNearestSector
<1> HIDE DEF files, size
<1>5. IsFile(disk) /\ disk.content = files /\ disk.size = size /\ disk.table = <<>> /\ disk.wiped = FALSE
  BY DEF NoFile, IsFile
<1> HIDE DEF disk
<1>6. /\ IsBuild(s) /\ SameParts(r, s) /\ s.disk = disk /\ s.lost = r.lost /\ s.failing = r.failing
      /\ s.pc = "table" /\ s.res = r.res /\ s.loop = r.loop
  BY DEF Sound, IsBuild, SameParts, SamePlan
<1> HIDE DEF s, r
<1>7. PartInv(s) /\ ContentInv(s) /\ s.job \in RawImage /\ s.pc \in Pcs /\ s.res \in Results
      /\ (s.res # "none" => s.pc = "end")
  BY <1>1, <1>2, <1>6, KeepsParts DEF HasDisk, Mapped, r
<1>8. TableInv(s)
  <2>1. PartsOf(s) = PartsOf(r)
    BY <1>6, SamePartsOf DEF SameParts
  <2> QED BY <1>2, <1>4, <1>5, <1>6, <2>1 DEF TableInv, HasDisk, Mapped, Attached, Unjoined, files
<1>9. GrubInv(s)
  <2>1. ~r.failing
    BY <1>1 DEF Sound, BuildInv, GrubInv, r
  <2> QED BY <1>2, <1>5, <1>6, <2>1 DEF GrubInv, Mapped, Attached
<1>10. CloudInv(s)
  BY <1>2, <1>6 DEF CloudInv
<1>11. Sound(s)
  BY <1>5, <1>6, <1>7, <1>8, <1>9, <1>10 DEF Sound, BuildInv
<1> QED BY <1>1, <1>6, <1>11 DEF r, SameParts, SamePlan

LEMMA TableSound ==
    ASSUME NEW b \in Builds, Sound(raw[b]), createDiskImage(b)
    PROVE  \E s : Becomes(b, s) /\ Sound(s) /\ s.job = raw[b].job /\ s.loop = raw[b].loop
<1> DEFINE r == raw[b]
           table == partitionTable(r.parts)
           disk == [r.disk EXCEPT !.table = table]
           pc == IF r.job.efi THEN "size" ELSE "losetup"
           s == [r EXCEPT !.disk = disk, !.pc = pc]
<1>1. r.pc = "table" /\ Becomes(b, [r EXCEPT !.disk.table = table, !.pc = pc])
  BY DEF createDiskImage, At
<1>2. r.res = "none" /\ r.job \in RawImage /\ r.parts = PartsOf(r) /\ r.image \in Nat
  BY <1>1, NotDone DEF Sound, BuildInv, PartInv, Past
<1>3. table = partitionTable(PartsOf(r)) /\ table # <<>>
  <2>1. table # <<>>
    <3> DEFINE n == Len(PartsOf(r))
    <3>1. n \in {3, 4}
      BY DEF PartsOf
    <3>2. DOMAIN partitionTable(PartsOf(r)) = 1 .. n
      BY TableOf
    <3> HIDE DEF n
    <3>3. 1 \in DOMAIN partitionTable(PartsOf(r))
      BY <3>1, <3>2
    <3> QED BY <1>2, <3>3
  <2> QED BY <1>2, <2>1
<1> HIDE DEF table, pc
<1>4. Becomes(b, s)
  BY <1>1 DEF Becomes
<1>5. IsFile(disk) /\ disk.content = r.disk.content /\ disk.size = r.disk.size /\ disk.table = table /\ disk.wiped = r.disk.wiped
  BY DEF Sound, IsFile
<1> HIDE DEF disk
<1>6. /\ IsBuild(s) /\ SameParts(r, s) /\ s.disk = disk /\ s.lost = r.lost /\ s.failing = r.failing
      /\ s.pc = pc /\ s.res = r.res /\ s.loop = r.loop
  BY DEF Sound, IsBuild, SameParts, SamePlan
<1> HIDE DEF s, r
<1>7. PartInv(s) /\ ContentInv(s) /\ s.job \in RawImage /\ s.pc \in Pcs /\ s.res \in Results
      /\ (s.res # "none" => s.pc = "end")
  BY <1>1, <1>2, <1>6, KeepsParts DEF HasDisk, Mapped, r, pc
<1>8. TableInv(s)
  <2>1. PartsOf(s) = PartsOf(r)
    BY <1>6, SamePartsOf DEF SameParts
  <2>2. TableInv(r) /\ r.disk.content # <<>>
    BY <1>1 DEF Sound, BuildInv, TableInv, HasDisk, r
  <2>3. s.pc \notin Unjoined
    BY <1>6 DEF pc, Unjoined
  <2> QED BY <1>2, <1>3, <1>5, <1>6, <2>1, <2>2, <2>3 DEF TableInv
<1>9. GrubInv(s)
  <2>1. ~r.failing /\ GrubInv(r)
    BY <1>1 DEF Sound, BuildInv, GrubInv, r
  <2>2. s.job = r.job
    BY <1>6 DEF SameParts, SamePlan
  <2> QED BY <1>2, <1>5, <1>6, <2>1, <2>2 DEF GrubInv, Mapped, Attached, pc
<1>10. CloudInv(s)
  BY <1>2, <1>6 DEF CloudInv
<1>11. Sound(s)
  BY <1>5, <1>6, <1>7, <1>8, <1>9, <1>10 DEF Sound, BuildInv
<1> QED BY <1>4, <1>6, <1>11 DEF r, SameParts, SamePlan

LEMMA LateSound ==
    ASSUME NEW r, Sound(r), r.pc \in HasDisk, r.pc # "table",
           NEW s, IsBuild(s), IsFile(s.disk), SameParts(r, s),
           (s.pc \in HasDisk /\ s.res = "none") \/ (s.pc = "end" /\ s.res = "ok"),
           s.disk.size \in Nat, s.disk.size % Sector = 0, s.disk.size >= r.disk.size,
           s.disk.content = r.disk.content,
           s.disk.table = r.disk.table \/ (s.disk.table = <<>> /\ r.job.model \in BoardsWithoutTable),
           s.pc \in Mapped \union {"size", "finalize"} => s.disk.table # <<>>, GrubInv(s), CloudInv(s)
    PROVE  Sound(s)
<1>1. PartInv(s) /\ ContentInv(s) /\ s.job \in RawImage /\ s.pc \in Pcs /\ s.res \in Results
      /\ (s.res # "none" => s.pc = "end")
  BY KeepsParts
<1>2. TableInv(r) /\ r.disk.content # <<>> /\ r.disk.content = FilesOf(PartsOf(r)) /\ r.image \in Nat /\ r.job \in RawImage
  BY DEF Sound, BuildInv, TableInv, PartInv
<1>3. Concatenated(r.disk.content).size \in Nat
  BY <1>2, PartsMatch DEF Matches
<1>4. PartsOf(s) = PartsOf(r)
  BY SamePartsOf DEF SameParts
<1>5. s.disk.size >= Concatenated(s.disk.content).size
  BY <1>2, <1>3 DEF TableInv
<1>6. s.pc \notin Unjoined
  BY DEF Unjoined, HasDisk, Mapped, Attached
<1>7. r.disk.table # <<>> \/ r.job.model \in BoardsWithoutTable
  BY <1>2 DEF TableInv, HasDisk
<1>8. s.job = r.job
  BY DEF SameParts, SamePlan
<1>9. TableInv(s)
  BY <1>2, <1>4, <1>5, <1>6, <1>7, <1>8 DEF TableInv
<1> QED BY <1>1, <1>9 DEF Sound, BuildInv

\* The disk of a build that has joined it.
LEMMA OwnDisk ==
    ASSUME NEW r, Sound(r), r.pc \in HasDisk
    PROVE  r.disk.size \in Nat /\ r.disk.size % Sector = 0 /\ r.res = "none" /\ r.job \in RawImage /\ IsFile(r.disk)
BY DEF Sound, BuildInv, TableInv, HasDisk, Mapped, Attached

\* A step of installGrubToDisk that writes nothing to the disk.
LEMMA MappedSound ==
    ASSUME NEW r, Sound(r), r.pc \in Mapped, NEW s, IsBuild(s), SameParts(r, s), s.disk = r.disk,
           s.res = "none", s.pc \in Mapped \union {"size"}, r.lost \subseteq s.lost,
           s.failing => s.pc \in {"unmount", "unmap"},
           ~s.failing /\ s.pc \in {"unmount", "unmap", "size"} => r.disk.grub
    PROVE  Sound(s)
<1>1. s.job = r.job /\ ~r.job.efi /\ r.disk.table # <<>>
  BY DEF Sound, BuildInv, GrubInv, TableInv, SameParts, SamePlan
<1>2. GrubInv(s)
  BY <1>1 DEF Sound, BuildInv, GrubInv, Mapped, Attached
<1>3. CloudInv(s)
  BY DEF CloudInv
<1>4. r.pc \in HasDisk /\ s.pc \in HasDisk /\ r.pc # "table"
  BY DEF HasDisk, Mapped, Attached
<1> QED BY <1>1, <1>2, <1>3, <1>4, OwnDisk, LateSound

LEMMA RecoveryIsThird ==
    ASSUME NEW r, Sound(r), r.pc \in Mapped PROVE r.disk.table[3].name = "recovery"
<1> DEFINE p == BootPart(r.job)
           o == Part("oem", OEMSize)
           q == RecoveryPart(r)
<1>1. r.disk.table = partitionTable(PartsOf(r)) /\ ~r.job.efi /\ r.job \in RawImage
  BY DEF Sound, BuildInv, TableInv, GrubInv
<1>2. PartsOf(r) = <<p, o, q>> /\ q.name = "recovery"
  BY <1>1, JobHas DEF PartsOf, RecoveryPart, Part
<1> HIDE DEF p, o, q
<1>3. partitionTable(<<p, o, q>>)[3].name = q.name
  <2> DEFINE parts == <<p, o, q>>
             E == TableEnds(parts)
  <2>1. Len(parts) = 3 /\ parts[3] = q
    OBVIOUS
  <2>2. partitionTable(parts) = [i \in 1 .. Len(parts) |->
                                  [name |-> parts[i].name, start |-> E[i - 1] + 1, end |-> E[i]]]
    BY TableOf
  <2> HIDE DEF parts, E
  <2>3. partitionTable(parts)[3].name = q.name
    BY <2>1, <2>2
  <2> QED BY <2>3 DEF parts
<1> QED BY <1>1, <1>2, <1>3

LEMMA AttachSound ==
    ASSUME NEW b \in Builds, Sound(raw[b]), losetup(b) \/ kpartx(b) \/ mountRecovery(b)
    PROVE  \E s : Becomes(b, s) /\ Sound(s) /\ s.job = raw[b].job /\ s.loop \in Loops \union {raw[b].loop}
<1> DEFINE r == raw[b]
<1>0. IsBuild(r) /\ r.pc \in Mapped /\ r.res = "none" /\ ~r.failing
  BY DEF losetup, kpartx, mountRecovery, At, Mapped, Attached, Sound, BuildInv, GrubInv
<1>1. CASE losetup(b)
  <2>1. PICK l \in Loops : Becomes(b, [r EXCEPT !.pc = "kpartx", !.loop = l])
    BY <1>1 DEF losetup
  <2> DEFINE s == [r EXCEPT !.pc = "kpartx", !.loop = l]
  <2>2. IsBuild(s) /\ SameParts(r, s) /\ s.disk = r.disk /\ s.res = r.res /\ s.pc = "kpartx" /\ s.lost = r.lost
        /\ s.failing = r.failing /\ s.loop = l
    BY <1>0 DEF IsBuild, SameParts, SamePlan
  <2>3. Becomes(b, s)
    BY <2>1
  <2> HIDE DEF s, r
  <2>4. Sound(s)
    BY <1>0, <2>2, MappedSound DEF r, Mapped, Attached
  <2> QED BY <2>2, <2>3, <2>4 DEF r, SameParts, SamePlan
<1>2. CASE kpartx(b)
  <2>1. CASE Becomes(b, [r EXCEPT !.pc = "mount"])
    <3> DEFINE s == [r EXCEPT !.pc = "mount"]
    <3>2. IsBuild(s) /\ SameParts(r, s) /\ s.disk = r.disk /\ s.res = r.res /\ s.pc = "mount" /\ s.lost = r.lost
          /\ s.failing = r.failing /\ s.loop = r.loop
      BY <1>0 DEF IsBuild, SameParts, SamePlan
    <3>3. Becomes(b, s)
      BY <2>1
    <3> HIDE DEF s, r
    <3>4. Sound(s)
      BY <1>0, <3>2, MappedSound DEF r, Mapped, Attached
    <3> QED BY <3>2, <3>3, <3>4 DEF r, SameParts, SamePlan
  <2>2. CASE Return(b, [r EXCEPT !.lost = r.lost \union {"kpartx"}], "failed")
    <3> DEFINE t == [r EXCEPT !.lost = r.lost \union {"kpartx"}]
    <3>1. IsBuild(t) /\ SamePlan(r, t) /\ t.loop = r.loop /\ r.lost \subseteq t.lost /\ t.disk = r.disk
      BY <1>0 DEF IsBuild, SamePlan
    <3>2. Return(b, t, "failed")
      BY <2>2
    <3> HIDE DEF t
    <3> QED BY <3>1, <3>2, EndsBadly
  <2> QED BY <1>2, <2>1, <2>2 DEF kpartx
<1>3. CASE mountRecovery(b)
  <2>1. PICK s \in {[r EXCEPT !.pc = "grub", !.mounted = TRUE], [r EXCEPT !.pc = "unmap", !.failing = TRUE]} : Becomes(b, s)
    BY <1>3 DEF mountRecovery
  <2>2. IsBuild(s) /\ SameParts(r, s) /\ s.disk = r.disk /\ s.res = r.res /\ s.lost = r.lost /\ s.loop = r.loop
        /\ \/ s.pc = "grub" /\ s.failing = r.failing
           \/ s.pc = "unmap" /\ s.failing
    BY <1>0, <2>1 DEF IsBuild, SameParts, SamePlan
  <2> HIDE DEF r
  <2>4. Sound(s)
    BY <1>0, <2>2, MappedSound DEF r, Mapped, Attached
  <2> QED BY <2>1, <2>2, <2>4 DEF r, SameParts, SamePlan
<1> QED BY <1>1, <1>2, <1>3

LEMMA GrubSound ==
    ASSUME NEW b \in Builds, Sound(raw[b]), loop[raw[b].loop] = b, grubInstall(b)
    PROVE  \E s : Becomes(b, s) /\ Sound(s) /\ s.job = raw[b].job /\ s.loop = raw[b].loop
<1> DEFINE r == raw[b]
<1>0. IsBuild(r) /\ r.pc \in Mapped /\ r.pc = "grub" /\ r.res = "none" /\ ~r.failing /\ ~r.job.efi /\ r.disk.table # <<>>
  BY DEF grubInstall, At, Mapped, Attached, Sound, BuildInv, GrubInv, TableInv
<1>1. CASE Becomes(b, [r EXCEPT !.pc = "unmount", !.failing = TRUE])
  <2> DEFINE s == [r EXCEPT !.pc = "unmount", !.failing = TRUE]
  <2>2. IsBuild(s) /\ SameParts(r, s) /\ s.disk = r.disk /\ s.res = r.res /\ s.pc = "unmount" /\ s.lost = r.lost
        /\ s.failing /\ s.loop = r.loop
    BY <1>0 DEF IsBuild, SameParts, SamePlan
  <2>3. Becomes(b, s)
    BY <1>1
  <2> HIDE DEF s, r
  <2>4. Sound(s)
    BY <1>0, <2>2, MappedSound DEF r, Mapped, Attached
  <2> QED BY <2>2, <2>3, <2>4 DEF r, SameParts, SamePlan
<1>2. CASE ~Becomes(b, [r EXCEPT !.pc = "unmount", !.failing = TRUE])
  <2> DEFINE disk == [r.disk EXCEPT !.grub = TRUE]
             s == [r EXCEPT !.pc = "unmount", !.disk = disk]
  <2>1. Becomes(b, s)
    <3>1. Becomes(b, [r EXCEPT !.pc = "unmount", !.disk.grub = (loop[r.loop] = b /\ Mounted(b) = "recovery")])
      BY <1>2 DEF grubInstall
    <3>2. (loop[r.loop] = b /\ Mounted(b) = "recovery") = TRUE
      BY <1>0, RecoveryIsThird DEF Mounted
    <3> QED BY <3>1, <3>2
  <2>2. IsFile(disk) /\ disk.size = r.disk.size /\ disk.content = r.disk.content /\ disk.table = r.disk.table
        /\ disk.grub /\ disk.wiped = r.disk.wiped
    BY DEF Sound, IsFile
  <2> HIDE DEF disk
  <2>3. IsBuild(s) /\ SameParts(r, s) /\ s.disk = disk /\ s.res = r.res /\ s.pc = "unmount" /\ s.lost = r.lost
        /\ s.failing = r.failing /\ s.loop = r.loop
    BY <1>0 DEF IsBuild, SameParts, SamePlan
  <2> HIDE DEF s, r
  <2>4. GrubInv(s)
    <3>1. s.job = r.job /\ (r.disk.wiped => "unmount" \in r.lost)
      BY <2>3 DEF SameParts, SamePlan, Sound, BuildInv, GrubInv, r
    <3> QED BY <1>0, <2>2, <2>3, <3>1 DEF GrubInv, Mapped, Attached
  <2>5. CloudInv(s)
    BY <1>0, <2>3 DEF CloudInv
  <2>6. r.pc \in HasDisk /\ s.pc \in HasDisk
    BY <1>0, <2>3 DEF HasDisk, Mapped, Attached
  <2>7. r.disk.size \in Nat /\ r.disk.size % Sector = 0 /\ r.disk.size >= r.disk.size
    BY <2>6, OwnDisk DEF r
  <2>8. Sound(s)
    BY <1>0, <2>2, <2>3, <2>4, <2>5, <2>6, <2>7, LateSound DEF r
  <2> QED BY <2>1, <2>3, <2>8 DEF r, SameParts, SamePlan
<1> QED BY <1>1, <1>2

LEMMA UnmountSound ==
    ASSUME NEW b \in Builds, Sound(raw[b]), unmount(b)
    PROVE  \E s : Becomes(b, s) /\ Sound(s) /\ s.job = raw[b].job /\ s.loop = raw[b].loop
<1> DEFINE r == raw[b]
<1>0. /\ IsBuild(r) /\ r.pc \in Mapped /\ r.pc = "unmount" /\ r.res = "none" /\ ~r.job.efi /\ r.disk.table # <<>>
      /\ ~r.failing => r.disk.grub
  BY DEF unmount, At, Mapped, Attached, Sound, BuildInv, GrubInv, TableInv
<1>1. CASE Becomes(b, [r EXCEPT !.pc = "unmap", !.mounted = FALSE])
  <2> DEFINE s == [r EXCEPT !.pc = "unmap", !.mounted = FALSE]
  <2>2. IsBuild(s) /\ SameParts(r, s) /\ s.disk = r.disk /\ s.res = r.res /\ s.pc = "unmap" /\ s.lost = r.lost
        /\ s.failing = r.failing /\ s.loop = r.loop
    BY <1>0 DEF IsBuild, SameParts, SamePlan
  <2>3. Becomes(b, s)
    BY <1>1
  <2> HIDE DEF s, r
  <2>4. Sound(s)
    BY <1>0, <2>2, MappedSound DEF r, Mapped, Attached
  <2> QED BY <2>2, <2>3, <2>4 DEF r, SameParts, SamePlan
<1>2. CASE ~Becomes(b, [r EXCEPT !.pc = "unmap", !.mounted = FALSE])
  <2> DEFINE disk == [r.disk EXCEPT !.wiped = TRUE]
             lost == r.lost \union {"unmount"}
             s == [r EXCEPT !.pc = "unmap", !.lost = lost, !.disk = disk]
  <2>1. Becomes(b, s)
    BY <1>2 DEF unmount
  <2>2. IsFile(disk) /\ disk.size = r.disk.size /\ disk.content = r.disk.content /\ disk.table = r.disk.table
        /\ disk.grub = r.disk.grub /\ "unmount" \in lost
    BY DEF Sound, IsFile
  <2> HIDE DEF disk, lost
  <2>3. IsBuild(s) /\ SameParts(r, s) /\ s.disk = disk /\ s.res = r.res /\ s.pc = "unmap" /\ s.lost = lost
        /\ s.failing = r.failing /\ s.loop = r.loop
    BY <1>0 DEF IsBuild, SameParts, SamePlan
  <2> HIDE DEF s, r
  <2>4. GrubInv(s)
    <3>1. s.job = r.job
      BY <2>3 DEF SameParts, SamePlan
    <3> QED BY <1>0, <2>2, <2>3, <3>1 DEF GrubInv, Mapped, Attached
  <2>5. CloudInv(s)
    BY <1>0, <2>3 DEF CloudInv
  <2>6. r.pc \in HasDisk /\ s.pc \in HasDisk
    BY <1>0, <2>3 DEF HasDisk, Mapped, Attached
  <2>7. r.disk.size \in Nat /\ r.disk.size % Sector = 0 /\ r.disk.size >= r.disk.size
    BY <2>6, OwnDisk DEF r
  <2>8. Sound(s)
    BY <1>0, <2>2, <2>3, <2>4, <2>5, <2>6, <2>7, LateSound DEF r
  <2> QED BY <2>1, <2>3, <2>8 DEF r, SameParts, SamePlan
<1> QED BY <1>1, <1>2

LEMMA DetachSound ==
    ASSUME NEW b \in Builds, Sound(raw[b]), detach(b)
    PROVE  \E s : Becomes(b, s) /\ Sound(s) /\ s.job = raw[b].job /\ s.loop \in {raw[b].loop, NoLoop}
<1> DEFINE r == raw[b]
<1>0. /\ IsBuild(r) /\ r.pc \in Mapped /\ r.pc = "unmap" /\ r.res = "none" /\ (~r.failing => r.disk.grub)
  BY DEF detach, At, Mapped, Attached, Sound, BuildInv, GrubInv
<1>1. PICK t \in {[r EXCEPT !.loop = NoLoop], [r EXCEPT !.lost = r.lost \union {"detach"}]} :
         IF r.failing THEN Return(b, t, "failed") ELSE Becomes(b, [t EXCEPT !.pc = "size"])
  BY DEF detach
<1>2. IsBuild(t) /\ SameParts(r, t) /\ t.disk = r.disk /\ t.res = r.res /\ r.lost \subseteq t.lost
      /\ t.failing = r.failing /\ t.loop \in {r.loop, NoLoop}
  BY <1>0, <1>1 DEF IsBuild, SameParts, SamePlan
<1>3. CASE r.failing
  BY <1>1, <1>2, <1>3, EndsBadly DEF SameParts
<1>4. CASE ~r.failing
  <2> DEFINE s == [t EXCEPT !.pc = "size"]
  <2>1. Becomes(b, s)
    BY <1>1, <1>4
  <2>2. IsBuild(s) /\ SameParts(r, s) /\ s.disk = r.disk /\ s.res = r.res /\ r.lost \subseteq s.lost
        /\ s.failing = r.failing /\ s.loop = t.loop /\ s.pc = "size"
    BY <1>2 DEF IsBuild, SameParts, SamePlan
  <2> HIDE DEF s, r
  <2>3. Sound(s)
    BY <1>0, <1>4, <2>2, MappedSound DEF r
  <2> QED BY <1>2, <2>1, <2>2, <2>3 DEF r, SameParts, SamePlan
<1> QED BY <1>3, <1>4

LEMMA TruncateSound ==
    ASSUME NEW b \in Builds, Sound(raw[b]), truncateToFinalSize(b)
    PROVE  \E s : Becomes(b, s) /\ Sound(s) /\ s.job = raw[b].job /\ s.loop = raw[b].loop
<1> DEFINE r == raw[b]
           final == r.job.final * MB
           size == IF final > 0 /\ r.disk.size < final THEN final ELSE r.disk.size
           disk == [r.disk EXCEPT !.size = size]
           s == [r EXCEPT !.pc = "finalize", !.disk = disk]
<1>0. /\ r.pc = "size" /\ r.pc \in HasDisk /\ IsBuild(r) /\ r.res = "none" /\ ~r.failing
      /\ (~r.job.efi => r.disk.grub) /\ (r.disk.wiped => "unmount" \in r.lost) /\ r.disk.table # <<>>
  BY DEF truncateToFinalSize, At, HasDisk, Sound, BuildInv, GrubInv, TableInv
<1>1. Becomes(b, s)
  BY DEF truncateToFinalSize
<1>2. r.disk.size \in Nat /\ r.disk.size % Sector = 0 /\ r.job.final \in Nat /\ IsFile(r.disk)
  BY <1>0, OwnDisk, JobHas
<1>3. size \in Nat /\ size % Sector = 0 /\ size >= r.disk.size
  <2>1. final \in Nat /\ final = (2048 * r.job.final) * Sector /\ 2048 * r.job.final \in Nat
    BY <1>2, WholeSize
  <2> DEFINE k == 2048 * r.job.final
  <2>2. final = k * Sector /\ k \in Nat
    BY <2>1
  <2> HIDE DEF final, k
  <2>3. final % Sector = 0
    BY <2>2, Multiple
  <2> QED BY <1>2, <2>1, <2>3
<1> HIDE DEF size
<1>4. IsFile(disk) /\ disk.size = size /\ disk.content = r.disk.content /\ disk.table = r.disk.table
      /\ disk.grub = r.disk.grub /\ disk.wiped = r.disk.wiped
  BY <1>2 DEF IsFile
<1> HIDE DEF disk
<1>5. IsBuild(s) /\ SameParts(r, s) /\ s.disk = disk /\ s.res = r.res /\ s.pc = "finalize" /\ s.lost = r.lost
      /\ s.failing = r.failing /\ s.loop = r.loop
  BY <1>0 DEF IsBuild, SameParts, SamePlan
<1> HIDE DEF s, r
<1>6. GrubInv(s)
  <2>1. s.job = r.job
    BY <1>5 DEF SameParts, SamePlan
  <2> QED BY <1>0, <1>4, <1>5, <2>1 DEF GrubInv, Mapped, Attached
<1>7. CloudInv(s)
  BY <1>0, <1>5 DEF CloudInv
<1>8. s.pc \in HasDisk /\ s.pc \notin Mapped
  BY <1>5 DEF HasDisk, Mapped, Attached
<1>9. Sound(s)
  BY <1>0, <1>3, <1>4, <1>5, <1>6, <1>7, <1>8, LateSound DEF r
<1> QED BY <1>1, <1>5, <1>9 DEF r, SameParts, SamePlan

\* What a board's firmware does to a disk: at most its table is lost.
LEMMA FirmwareWrites ==
    ASSUME NEW disk, IsFile(disk), NEW model, NEW n \in 0 .. Len(Firmware(model))
    PROVE  LET d == DD(disk, {Firmware(model)[i] : i \in 1 .. n})
           IN  /\ IsFile(d) /\ d.size = disk.size /\ d.content = disk.content /\ d.grub = disk.grub
               /\ d.wiped = disk.wiped
               /\ d.table = disk.table \/ (d.table = <<>> /\ model \in BoardsWithoutTable)
<1> DEFINE W == {Firmware(model)[i] : i \in 1 .. n}
           hit == \E w \in W : w.whole /\ w.at <= 1
           table == IF hit THEN <<>> ELSE disk.table
           d == [disk EXCEPT !.table = table]
<1>1. DD(disk, W) = d
  BY DEF DD
<1>2. model \notin BoardsWithoutTable => W = {}
  <2> SUFFICES ASSUME model \notin BoardsWithoutTable PROVE 1 .. n = {}
    OBVIOUS
  <2>1. Firmware(model) = <<>>
    BY DEF Firmware, BoardsWithoutTable
  <2>2. Len(Firmware(model)) = 0
    BY <2>1
  <2> QED BY <2>2
<1> HIDE DEF W
<1>3. table = disk.table \/ (table = <<>> /\ model \in BoardsWithoutTable)
  BY <1>2
<1> HIDE DEF table
<1>4. IsFile(d) /\ d.size = disk.size /\ d.content = disk.content /\ d.grub = disk.grub /\ d.wiped = disk.wiped
      /\ d.table = table
  BY DEF IsFile
<1> HIDE DEF d
<1> QED BY <1>1, <1>3, <1>4 DEF W

LEMMA FinalizeSound ==
    ASSUME NEW b \in Builds, Sound(raw[b]), FinalizeImage(b)
    PROVE  \E s : Becomes(b, s) /\ Sound(s) /\ s.job = raw[b].job /\ s.loop = raw[b].loop
<1> DEFINE r == raw[b]
           Written(n) == DD(r.disk, {Firmware(r.job.model)[i] : i \in 1 .. n})
<1>0. /\ r.pc = "finalize" /\ r.pc \in HasDisk /\ IsBuild(r) /\ r.res = "none" /\ ~r.failing
      /\ (~r.job.efi => r.disk.grub) /\ (r.disk.wiped => "unmount" \in r.lost)
  BY DEF FinalizeImage, At, HasDisk, Sound, BuildInv, GrubInv
<1>1. PICK n \in 0 .. Len(Firmware(r.job.model)) :
        IF r.job.to = "raw" THEN Return(b, [r EXCEPT !.disk = Written(n)], "ok")
                            ELSE Becomes(b, [[r EXCEPT !.disk = Written(n)] EXCEPT !.pc = "convert"])
  BY DEF FinalizeImage
<1>2. r.disk.size \in Nat /\ r.disk.size % Sector = 0 /\ IsFile(r.disk)
  BY <1>0, OwnDisk
<1> DEFINE disk == Written(n)
           u == [r EXCEPT !.disk = disk]
           s1 == [u EXCEPT !.pc = "end", !.res = "ok"]
           s2 == [u EXCEPT !.pc = "convert"]
<1>3. /\ IsFile(disk) /\ disk.size = r.disk.size /\ disk.content = r.disk.content
      /\ disk.table = r.disk.table \/ (disk.table = <<>> /\ r.job.model \in BoardsWithoutTable)
      /\ disk.grub = r.disk.grub /\ disk.wiped = r.disk.wiped
  BY <1>2, FirmwareWrites
<1>4. (r.job.to = "raw" /\ Becomes(b, s1)) \/ (r.job.to # "raw" /\ Becomes(b, s2))
  BY <1>1 DEF Return
<1> HIDE DEF disk, Written
<1>5. /\ IsBuild(s1) /\ SameParts(r, s1) /\ s1.disk = disk /\ s1.lost = r.lost /\ s1.failing = r.failing
      /\ s1.loop = r.loop /\ s1.pc = "end" /\ s1.res = "ok"
  BY <1>0 DEF IsBuild, SameParts, SamePlan
<1>6. /\ IsBuild(s2) /\ SameParts(r, s2) /\ s2.disk = disk /\ s2.lost = r.lost /\ s2.failing = r.failing
      /\ s2.loop = r.loop /\ s2.pc = "convert" /\ s2.res = r.res
  BY <1>0 DEF IsBuild, SameParts, SamePlan
<1> HIDE DEF s1, s2, r
<1>7. ASSUME NEW s, IsBuild(s), SameParts(r, s), s.disk = disk, s.lost = r.lost,
             s.failing = r.failing, s.loop = r.loop, CloudInv(s),
             (s.pc = "end" /\ s.res = "ok") \/ (s.pc = "convert" /\ s.res = "none")
      PROVE  Sound(s) /\ s.job = r.job
  <2>1. s.job = r.job
    BY <1>7 DEF SameParts, SamePlan
  <2>2. GrubInv(s)
    BY <1>0, <1>3, <1>7, <2>1 DEF GrubInv, Mapped, Attached
  <2>3. /\ s.pc \notin Mapped \union {"size", "finalize"}
        /\ (s.pc \in HasDisk /\ s.res = "none") \/ (s.pc = "end" /\ s.res = "ok")
    BY <1>7 DEF Mapped, Attached, HasDisk
  <2>4. r.disk.size >= r.disk.size
    BY <1>2
  <2> QED BY <1>0, <1>2, <1>3, <1>7, <2>1, <2>2, <2>3, <2>4, LateSound DEF r
<1>8. CASE r.job.to = "raw" /\ Becomes(b, s1)
  <2>1. CloudInv(s1)
    BY <1>5, <1>8 DEF CloudInv, SameParts, SamePlan
  <2> QED BY <1>5, <1>7, <1>8, <2>1 DEF r
<1>9. CASE r.job.to # "raw" /\ Becomes(b, s2)
  <2>1. CloudInv(s2)
    BY <1>0, <1>6 DEF CloudInv
  <2> QED BY <1>0, <1>6, <1>7, <1>9, <2>1 DEF r
<1> QED BY <1>4, <1>8, <1>9

LEMMA CloudSizes ==
    ASSUME NEW n \in Nat, n % Sector = 0
    PROVE  /\ azureSize(n) \in Nat /\ azureSize(n) >= n /\ azureSize(n) % MB = 0 /\ azureSize(n) % Sector = 0
           /\ gceSize(n) \in Nat /\ gceSize(n) >= n /\ gceSize(n) % GB = 0 /\ gceSize(n) % Sector = 0
<1>0. Sector \in Nat /\ Sector > 0 /\ MB = 2048 * Sector /\ GB = 2097152 * Sector
  BY UnitAssumption DEF GB
<1>g. MB \in Nat /\ MB > 0 /\ GB \in Nat /\ GB > 0
  BY <1>0
<1>m. ASSUME NEW u \in Nat, u > 0, NEW k \in Nat PROVE k * u \in Nat /\ (k * u) % u = 0
  BY <1>m
<1>1. ASSUME NEW u \in Nat, u > 0
      PROVE  /\ (n + u - 1) \div u \in Nat /\ ((n + u - 1) \div u) * u >= n
             /\ (n \div u) + 1 \in Nat /\ ((n \div u) + 1) * u >= n
  BY <1>1
<1> DEFINE a == (n + MB - 1) \div MB
           g == (n \div GB) + 1
<1>2. a \in Nat /\ a * MB >= n /\ azureSize(n) = a * MB
  BY <1>1, <1>g DEF azureSize
<1>3. g \in Nat /\ g * GB >= n /\ gceSize(n) = g * GB
  BY <1>1, <1>g DEF gceSize
<1> HIDE DEF a, g
<1>4. a * MB = (2048 * a) * Sector /\ 2048 * a \in Nat
  BY <1>0, <1>2
<1>5. g * GB = (2097152 * g) * Sector /\ 2097152 * g \in Nat
  BY <1>0, <1>3
<1>6. azureSize(n) \in Nat /\ azureSize(n) >= n /\ azureSize(n) % MB = 0
  BY <1>2, <1>g, <1>m
<1>7. gceSize(n) \in Nat /\ gceSize(n) >= n /\ gceSize(n) % GB = 0
  BY <1>3, <1>g, <1>m
<1>8. azureSize(n) % Sector = 0
  BY <1>2, <1>4, Multiple
<1>9. gceSize(n) % Sector = 0
  BY <1>3, <1>5, Multiple
<1> QED BY <1>6, <1>7, <1>8, <1>9

LEMMA ConvertSound ==
    ASSUME NEW b \in Builds, Sound(raw[b]), Raw2(b)
    PROVE  \E s : Becomes(b, s) /\ Sound(s) /\ s.job = raw[b].job /\ s.loop = raw[b].loop
<1> DEFINE r == raw[b]
           size == IF r.job.to = "vhd" THEN azureSize(r.disk.size) ELSE gceSize(r.disk.size)
           vhd == IF r.job.to = "vhd" THEN <<newVHDFixed(size)>> ELSE <<>>
           disk == [r.disk EXCEPT !.size = size]
           t == [r EXCEPT !.disk = disk, !.vhd = vhd]
           s == [t EXCEPT !.pc = "end", !.res = "ok"]
<1>0. /\ r.pc = "convert" /\ r.pc \in HasDisk /\ IsBuild(r) /\ r.res = "none" /\ ~r.failing
      /\ (~r.job.efi => r.disk.grub) /\ (r.disk.wiped => "unmount" \in r.lost)
  BY DEF Raw2, At, HasDisk, Sound, BuildInv, GrubInv
<1>1. Becomes(b, s)
  BY DEF Raw2, Return
<1>2. r.disk.size \in Nat /\ r.disk.size % Sector = 0 /\ IsFile(r.disk)
  BY <1>0, OwnDisk
<1>3. /\ size \in Nat /\ size % Sector = 0 /\ size >= r.disk.size
      /\ r.job.to = "vhd" => size % MB = 0
      /\ r.job.to # "vhd" => size % GB = 0
  BY <1>2, CloudSizes
<1>v. r.job.to = "vhd" => vhd = <<newVHDFixed(size)>>
  OBVIOUS
<1> HIDE DEF size, vhd
<1>4. IsFile(disk) /\ disk.size = size /\ disk.content = r.disk.content /\ disk.table = r.disk.table
      /\ disk.grub = r.disk.grub /\ disk.wiped = r.disk.wiped
  BY <1>2 DEF IsFile
<1> HIDE DEF disk
<1>5. IsBuild(s) /\ SameParts(r, s) /\ s.disk = disk /\ s.res = "ok" /\ s.pc = "end" /\ s.lost = r.lost
      /\ s.failing = r.failing /\ s.loop = r.loop /\ s.vhd = vhd
  BY <1>0 DEF IsBuild, SameParts, SamePlan
<1> HIDE DEF s, r
<1>b. s.job = r.job
  BY <1>5 DEF SameParts, SamePlan
<1>6. GrubInv(s)
  BY <1>0, <1>4, <1>5, <1>b DEF GrubInv, Mapped, Attached
<1>7. CloudInv(s)
  BY <1>3, <1>4, <1>5, <1>b, <1>v DEF CloudInv
<1>8. s.pc \notin Mapped \union {"size", "finalize"}
  BY <1>5 DEF Mapped, Attached
<1>9. Sound(s)
  BY <1>0, <1>3, <1>4, <1>5, <1>6, <1>7, <1>8, LateSound DEF r
<1> QED BY <1>1, <1>5, <1>b, <1>9 DEF r

LEMMA FailureSound ==
    ASSUME NEW b \in Builds, Sound(raw[b]), NEW pc, Fails(b, pc)
    PROVE  \E s : Becomes(b, s) /\ Sound(s) /\ s.job = raw[b].job /\ s.loop = raw[b].loop
BY EndsBadly DEF Fails, Sound, SamePlan

\* Whatever a build does next, it is sound.
LEMMA BuildSound ==
    ASSUME NEW b \in Builds, Sound(raw[b]), raw[b].pc \in Attached => loop[raw[b].loop] = b, Build(b)
    PROVE  \E s : /\ raw' = [raw EXCEPT ![b] = s] /\ Sound(s) /\ s.job = raw[b].job
                  /\ s.loop \in Loops \union {raw[b].loop, NoLoop}
<1>1. ASSUME NEW s, Becomes(b, s), Sound(s), s.job = raw[b].job, s.loop \in Loops \union {raw[b].loop, NoLoop}
      PROVE  \E t : /\ raw' = [raw EXCEPT ![b] = t] /\ Sound(t) /\ t.job = raw[b].job
                    /\ t.loop \in Loops \union {raw[b].loop, NoLoop}
  BY <1>1 DEF Becomes
<1>2. grubInstall(b) => raw[b].pc \in Attached
  BY DEF grubInstall, At, Attached
<1>3. CASE \/ createRecoveryPartitionImage(b) \/ createEFIPartitionImage(b) \/ createBiosPartitionImage(b)
           \/ createOemPartitionImage(b) \/ emitPartitionImages(b)
           \/ createCurtinLandingPartitionImage(b) \/ NoLanding(b) \/ ConcatFiles(b) \/ createDiskImage(b)
  BY <1>1, <1>3, RecoverySound, EfiSound, BiosSound, OemSound, EmitSound, LandingSound, JoinSound, TableSound
<1>4. CASE installGrubToDisk(b)
  BY <1>1, <1>2, <1>4, AttachSound, GrubSound, UnmountSound, DetachSound DEF installGrubToDisk
<1>5. CASE \/ truncateToFinalSize(b) \/ FinalizeImage(b) \/ Raw2(b)
           \/ \E pc \in {"recovery", "boot", "oem", "join", "table", "losetup", "size", "convert"} : Fails(b, pc)
  BY <1>1, <1>5, TruncateSound, FinalizeSound, ConvertSound, FailureSound
<1> QED BY <1>3, <1>4, <1>5 DEF Build

LEMMA NothingJoined == Concatenated(<<>>).size = 0
<1>1. Len(<<>>) = 0
  OBVIOUS
<1> QED BY <1>1, ConcatenatedIs, OffsetsOf0

LEMMA EfiBoots ==
    ASSUME NEW job \in RawImage, copyShimOrGrub(job, "shim") # {}, copyShimOrGrub(job, "grub") # {}
    PROVE  /\ job.arch \in {"amd64", "arm64"} => <<"loader", job.arch>> \in EfiFiles(job)
           /\ job.flavor # "alpine" => <<"grub", job.arch>> \in EfiFiles(job)
           /\ <<"grub.cfg", IF job.flavor = "ubuntu" THEN "EFI/ubuntu" ELSE "EFI/BOOT">> \in EfiFiles(job)
<1>1. job.arch \in {"amd64", "arm64"} => <<"loader", job.arch>> \in copyShimOrGrub(job, "shim")
  BY DEF copyShimOrGrub, CopyAlpineShimAndGrub, GetFallBackEfi
<1>2. job.flavor # "alpine" => <<"grub", job.arch>> \in copyShimOrGrub(job, "grub")
  BY DEF copyShimOrGrub
<1> QED BY <1>1, <1>2 DEF EfiFiles

LEMMA RecoveryHasRoom ==
    ASSUME NEW r, r.job \in RawImage, r.image \in Nat, r.parts = PartsOf(r)
    PROVE  LET Recovery == CHOOSE p \in {r.parts[i] : i \in DOMAIN r.parts} : p.name = "recovery"
           IN  Recovery.size >= 2 * r.image * MB
<1> DEFINE P == {r.parts[i] : i \in DOMAIN r.parts}
           p == BootPart(r.job)
           o == Part("oem", OEMSize)
           c == Part("curtin", 64)
           q == RecoveryPart(r)
           Recovery == CHOOSE x \in P : x.name = "recovery"
<1>1. p.name # "recovery" /\ o.name # "recovery" /\ c.name # "recovery" /\ q.name = "recovery"
  BY DEF BootPart, Part, RecoveryPart
<1>2. q.size >= 2 * r.image * MB
  <2>1. q.size = (2 * r.image + 150) * MB
    BY DEF RecoveryPart, Part, recoveryPartitionSize
  <2>2. MB \in Nat
    BY UnitAssumption
  <2>3. (2 * r.image + 150) * MB = 2 * r.image * MB + 150 * MB
    BY <2>2
  <2> HIDE DEF q
  <2> QED BY <2>1, <2>2, <2>3
<1> HIDE DEF p, o, c, q
<1>3. P \subseteq {p, o, c, q} /\ q \in P
  <2>1. CASE r.parts = <<p, o, q>>
    <3>1. DOMAIN r.parts = 1 .. 3 /\ r.parts[1] = p /\ r.parts[2] = o /\ r.parts[3] = q
      BY <2>1
    <3> QED BY <3>1
  <2>2. CASE r.parts = <<p, c, o, q>>
    <3>1. DOMAIN r.parts = 1 .. 4 /\ r.parts[1] = p /\ r.parts[2] = c /\ r.parts[3] = o /\ r.parts[4] = q
      BY <2>2
    <3> QED BY <3>1
  <2> QED BY <2>1, <2>2 DEF PartsOf, p, o, c, q
<1> HIDE DEF P
<1>4. Recovery \in P /\ Recovery.name = "recovery"
  BY <1>1, <1>3
<1>5. Recovery = q
  <2> HIDE DEF Recovery
  <2> QED BY <1>1, <1>3, <1>4
<1> QED BY <1>2, <1>5 DEF P

LEMMA MaasHasLanding ==
    ASSUME NEW r, r.job.maas, ~r.job.partitions, r.disk.content = FilesOf(PartsOf(r))
    PROVE  \E i \in DOMAIN r.disk.content : r.disk.content[i].name = "curtin"
<1> DEFINE f == [name |-> "init", size |-> MB]
           e == [name |-> "end", size |-> MB]
           p == BootPart(r.job)
           o == Part("oem", OEMSize)
           c == Part("curtin", 64)
           q == RecoveryPart(r)
           files == <<f, p, c, o, q, e>>
<1>1. PartsOf(r) = <<p, c, o, q>>
  BY DEF PartsOf
<1>2. FilesOf(<<p, c, o, q>>) = <<f>> \o <<p, c, o, q>> \o <<e>>
  BY DEF FilesOf
<1>3. c.name = "curtin"
  BY DEF Part
<1> HIDE DEF f, e, p, o, c, q
<1>4. <<f>> \o <<p, c, o, q>> = <<f, p, c, o, q>>
  BY JoinOneFour
<1>5. <<f, p, c, o, q>> \o <<e>> = files
  BY JoinFiveOne
<1>6. r.disk.content = files
  BY <1>1, <1>2, <1>4, <1>5
<1>7. 3 \in DOMAIN files /\ files[3] = c
  OBVIOUS
<1> HIDE DEF files
<1> QED BY <1>3, <1>6, <1>7

LEMMA TuplesAreLists ==
    /\ \A a, b, c : DOMAIN <<a, b, c>> = 1 .. Len(<<a, b, c>>)
    /\ \A a, b, c, d : DOMAIN <<a, b, c, d>> = 1 .. Len(<<a, b, c, d>>)
OBVIOUS

\* What a sound build means for the disk it makes.
LEMMA SoundTable ==
    ASSUME NEW r, Sound(r) \/ NoBuild(r)
    PROVE  TableMatches(r)
<1>1. CASE NoBuild(r)
  <2>1. r.disk.table = <<>> /\ r.disk.size = 0 /\ r.disk.content = <<>> /\ r.res # "ok"
    BY <1>1 DEF NoBuild, NoFile
  <2>2. DOMAIN r.disk.table = {}
    BY <2>1
  <2> QED BY <2>1, <2>2, NothingJoined DEF TableMatches
<1>2. CASE Sound(r)
  <2>1. TableInv(r) /\ r.image \in Nat /\ r.job \in RawImage /\ (r.res = "ok" => r.parts = PartsOf(r))
    BY <1>2 DEF Sound, BuildInv, PartInv, Past
  <2>2. Matches(PartsOf(r))
    BY <2>1, PartsMatch
  <2>3. CASE r.disk.table = <<>>
    <3>1. DOMAIN r.disk.table = {}
      BY <2>3
    <3>2. ~(r.res = "ok" /\ ~r.job.partitions /\ r.job.model \notin BoardsWithoutTable)
      BY <2>1, <2>3 DEF TableInv
    <3> QED BY <2>1, <3>1, <3>2 DEF TableInv, TableMatches
  <2>4. CASE r.disk.table # <<>>
    <3>1. r.disk.table = partitionTable(PartsOf(r)) /\ r.disk.content = FilesOf(PartsOf(r))
      BY <2>1, <2>4 DEF TableInv
    <3>2. DOMAIN partitionTable(PartsOf(r)) = DOMAIN PartsOf(r)
      <4>1. DOMAIN PartsOf(r) = 1 .. Len(PartsOf(r))
        BY TuplesAreLists DEF PartsOf
      <4>2. DOMAIN partitionTable(PartsOf(r)) = 1 .. Len(PartsOf(r))
        BY TableOf
      <4> QED BY <4>1, <4>2
    <3>3. r.res = "ok" => DOMAIN r.disk.table = DOMAIN r.parts
      BY <2>1, <3>1, <3>2
    <3> QED BY <2>1, <2>2, <3>1, <3>3 DEF TableInv, Matches, TableMatches
  <2> QED BY <2>3, <2>4
<1> QED BY <1>1, <1>2

LEMMA SoundBoots ==
    ASSUME NEW r, Sound(r) PROVE BootsAndResets(r)
<1> SUFFICES ASSUME r.res = "ok", "unmount" \notin r.lost PROVE BootsAndResets(r)
  BY DEF BootsAndResets
<1>1. r.job \in RawImage /\ r.image \in Nat /\ r.parts = PartsOf(r) /\ r.image >= r.job.source
  BY DEF Sound, BuildInv, PartInv, Past
<1>2. /\ r.job.efi => /\ r.esp = EfiFiles(r.job)
                      /\ copyShimOrGrub(r.job, "shim") # {} /\ copyShimOrGrub(r.job, "grub") # {}
      /\ r.job.state = 0 => r.state >= 3 * r.image
      /\ r.job.cc = "text" <=> "user config" \in r.oem
      /\ r.job.partitions => r.emitted = {"efi", "oem", "recovery"}
  BY DEF Sound, BuildInv, ContentInv, Past
<1>3. (~r.job.efi => r.disk.grub) /\ ~r.disk.wiped
  BY DEF Sound, BuildInv, GrubInv
<1>4. ~r.job.partitions => r.disk.content = FilesOf(PartsOf(r))
  BY DEF Sound, BuildInv, TableInv
<1>5. r.job.efi => /\ r.job.arch \in {"amd64", "arm64"} => <<"loader", r.job.arch>> \in r.esp
                   /\ r.job.flavor # "alpine" => <<"grub", r.job.arch>> \in r.esp
                   /\ <<"grub.cfg", IF r.job.flavor = "ubuntu" THEN "EFI/ubuntu" ELSE "EFI/BOOT">> \in r.esp
  BY <1>1, <1>2, EfiBoots
<1>6. LET Recovery == CHOOSE p \in {r.parts[i] : i \in DOMAIN r.parts} : p.name = "recovery"
      IN  Recovery.size >= 2 * r.image * MB
  BY <1>1, RecoveryHasRoom
<1>7. r.job.maas /\ ~r.job.partitions => \E i \in DOMAIN r.disk.content : r.disk.content[i].name = "curtin"
  BY <1>4, MaasHasLanding
<1> QED BY <1>1, <1>2, <1>3, <1>5, <1>6, <1>7 DEF BootsAndResets

LEMMA SoundCloud ==
    ASSUME NEW r, Sound(r) PROVE CloudDiskIsValid(r)
<1> SUFFICES ASSUME r.res = "ok" PROVE CloudDiskIsValid(r)
  BY DEF CloudDiskIsValid
<1> DEFINE sectors == r.disk.size \div Sector
<1>1. CloudInv(r) /\ r.disk.size \in Nat
  BY DEF Sound, BuildInv, TableInv
<1>2. sectors \in Nat
  BY <1>1, UnitAssumption
<1>3. CASE r.job.to # "vhd"
  BY <1>1, <1>3 DEF CloudInv, CloudDiskIsValid
<1>4. CASE r.job.to = "vhd"
  <2>1. r.vhd = <<newVHDFixed(r.disk.size)>> /\ r.disk.size % MB = 0
    BY <1>1, <1>4 DEF CloudInv
  <2> DEFINE g == chsCalculation(sectors)
  <2>2. r.vhd[1].size = r.disk.size /\ r.vhd[1].geometry = g
    BY <2>1 DEF newVHDFixed
  <2>3. Fits(g, sectors)
    BY <1>2, GeometryFits
  <2> HIDE DEF g, sectors
  <2> QED BY <1>4, <2>1, <2>2, <2>3 DEF Fits, sectors, CloudDiskIsValid
<1> QED BY <1>3, <1>4

SoundAt(b, r) == /\ IsBuild(r) /\ IsFile(r.disk)
                 /\ IF r.job = NoJob THEN NoBuild(r) ELSE BuildInv(r)
                 /\ r.job \in {j[b] : j \in RawJobs} \union {NoJob}
                 /\ r.loop \in Loops \union {NoLoop}
RawSound == DOMAIN raw = Builds /\ \A b \in Builds : SoundAt(b, raw[b])

LEMMA DisksFollow ==
    ASSUME RawSound PROVE RawDiskIsRight
<1>1. ASSUME NEW b \in Builds PROVE Sound(raw[b]) \/ NoBuild(raw[b])
  BY DEF RawSound, SoundAt, Sound
<1>2. ASSUME NEW r, NoBuild(r) PROVE BootsAndResets(r) /\ CloudDiskIsValid(r)
  BY <1>2 DEF NoBuild, BootsAndResets, CloudDiskIsValid
<1> QED BY <1>1, <1>2, SoundTable, SoundBoots, SoundCloud DEF RawDiskIsRight

LEMMA RawSoundStep ==
    ASSUME RawSound, LoopInv, [RawNext]_<<raw, loop>> PROVE RawSound'
<1>1. CASE raw' = raw
  BY <1>1 DEF RawSound
<1>2. ASSUME NEW b \in Builds, Build(b) PROVE RawSound'
  <2>1. raw[b].pc # "end" /\ SoundAt(b, raw[b])
    BY <1>2 DEF RawSound, Build, createRecoveryPartitionImage, createEFIPartitionImage, createBiosPartitionImage,
       createOemPartitionImage, emitPartitionImages, createCurtinLandingPartitionImage, NoLanding, ConcatFiles,
       createDiskImage, installGrubToDisk, losetup, kpartx, mountRecovery, grubInstall, unmount, detach,
       truncateToFinalSize, FinalizeImage, Raw2, Fails, At
  <2>2. Sound(raw[b]) /\ raw[b].job # NoJob
    BY <2>1 DEF SoundAt, NoBuild, Sound
  <2>3. PICK s : /\ raw' = [raw EXCEPT ![b] = s] /\ Sound(s) /\ s.job = raw[b].job
                 /\ s.loop \in Loops \union {raw[b].loop, NoLoop}
    BY <1>2, <2>2, BuildSound DEF LoopInv
  <2>4. SoundAt(b, s)
    BY <2>1, <2>2, <2>3 DEF SoundAt, Sound
  <2>5. DOMAIN raw' = Builds /\ raw'[b] = s /\ \A c \in Builds : c # b => raw'[c] = raw[c]
    BY <2>3 DEF RawSound
  <2> QED BY <2>4, <2>5 DEF RawSound
<1> QED BY <1>1, <1>2 DEF RawNext, HostLoop

LEMMA RawSoundStarts ==
    ASSUME NEW jobs, \A j \in jobs, b \in Builds : j[b] = NoJob \/ j \in RawJobs, RawInit(jobs)
    PROVE  RawSound
<1>1. PICK job \in jobs :
         raw = [b \in Builds |->
                 [job |-> job[b], pc |-> IF job[b] = NoJob THEN "end" ELSE "recovery",
                  image |-> 0, parts |-> <<>>, esp |-> {}, oem |-> {}, state |-> 0,
                  disk |-> NoFile, emitted |-> {}, loop |-> NoLoop, mounted |-> FALSE,
                  failing |-> FALSE, lost |-> {}, vhd |-> <<>>, res |-> "none"]]
  BY DEF RawInit
<1>2. ASSUME NEW b \in Builds PROVE SoundAt(b, raw[b])
  <2> DEFINE r == raw[b]
  <2>1. /\ IsBuild(r) /\ r.job = job[b] /\ r.pc = IF job[b] = NoJob THEN "end" ELSE "recovery"
        /\ r.image = 0 /\ r.state = 0 /\ r.disk = NoFile /\ r.loop = NoLoop /\ r.failing = FALSE /\ r.lost = {}
        /\ r.res = "none"
    BY <1>1 DEF IsBuild
  <2> HIDE DEF r
  <2>2. IsFile(r.disk) /\ r.disk.size = 0 /\ r.disk.content = <<>> /\ r.disk.table = <<>> /\ r.disk.wiped = FALSE
    BY <2>1 DEF IsFile, NoFile
  <2>3. job[b] = NoJob \/ (job \in RawJobs /\ job[b] \in RawImage)
    BY RawAssumption
  <2>4. ASSUME job[b] # NoJob PROVE BuildInv(r)
    <3>1. r.pc = "recovery" /\ r.job \in RawImage
      BY <2>1, <2>3, <2>4
    <3>2. PartInv(r)
      BY <2>1, <3>1 DEF PartInv, Past, HasDisk, Mapped, Attached
    <3>3. ContentInv(r)
      BY <2>1, <3>1 DEF ContentInv, Past
    <3>4. TableInv(r)
      <4>1. 0 \in Nat /\ 0 % Sector = 0 /\ 0 >= 0
        BY UnitAssumption
      <4> QED BY <2>1, <2>2, <3>1, <4>1, NothingJoined DEF TableInv, HasDisk, Mapped, Attached
    <3>5. GrubInv(r) /\ CloudInv(r)
      BY <2>1, <2>2, <3>1 DEF GrubInv, CloudInv, Mapped, Attached
    <3> QED BY <2>1, <3>1, <3>2, <3>3, <3>4, <3>5 DEF BuildInv, Pcs, Results
  <2> QED BY <2>1, <2>2, <2>3, <2>4 DEF SoundAt, NoBuild, r
<1> QED BY <1>1, <1>2 DEF RawSound

(***************************************************************************)
(* The graph of build steps and what it leaves on the machine.             *)
(***************************************************************************)
Places == {"set", "early", "late"}
IsFs(f) == {"root", "cc", "iso", "raw", "out", "net"} \subseteq DOMAIN f
           /\ DOMAIN f.root = Places /\ "src" \in DOMAIN f.net
\* No rootfs where the clean-up does not look.
InPlace(f) == IsFs(f) /\ \A d \in Places : d # tmpRootFs(cfg, "late") => f.root[d] = "absent"
PipeGood == CleanInv /\ IsFs(fs) /\ DOMAIN status = Steps

\* A step under way, or one that starts, while the build has not ended.
UnderWay == result = "running" \/ \E s \in Steps : status[s] \in Pending

LEMMA Works ==
    ASSUME PipeGood, UnderWay, NEW s \in Steps, NEW how, Ends(s, how), InPlace(fs')
    PROVE  PipeGood'
<1>1. cfg' = cfg /\ result' = result /\ DOMAIN status' = Steps
  BY DEF Ends, PipeGood
<1>2. result' \notin {"failed", "ok", "cleaned_ok", "cleaned_failed"}
  BY <1>1 DEF PipeGood, CleanInv, Settled, UnderWay
<1> QED BY <1>1, <1>2 DEF PipeGood, CleanInv, NothingLeftBehind, InPlace, Places, tmpRootFs

LEMMA Unpacks ==
    ASSUME PipeGood, NEW to
    PROVE  LET f == [fs EXCEPT !.root[tmpRootFs(cfg, "late")] = to]
           IN  InPlace(fs) /\ InPlace(f)
<1> DEFINE dir == tmpRootFs(cfg, "late")
           f == [fs EXCEPT !.root[dir] = to]
<1>1. InPlace(fs)
  BY DEF PipeGood, CleanInv, InPlace, Places
<1> HIDE DEF dir
<1>2. /\ f.root = [fs.root EXCEPT ![dir] = to] /\ f.net = fs.net
      /\ {"root", "cc", "iso", "raw", "out", "net"} \subseteq DOMAIN f
  BY DEF PipeGood, IsFs
<1> HIDE DEF f
<1>3. DOMAIN f.root = Places /\ \A d \in Places : d # dir => f.root[d] = "absent"
  BY <1>1, <1>2 DEF InPlace, IsFs, dir
<1>4. InPlace(f)
  BY <1>1, <1>2, <1>3 DEF InPlace, IsFs, dir
<1> QED BY <1>1, <1>4 DEF f, dir

\* The steps that write elsewhere.
Elsewhere(f) == {"root", "cc", "iso", "raw", "out", "net"} \subseteq DOMAIN f
                /\ f.root = fs.root /\ "src" \in DOMAIN f.net

LEMMA WorksElsewhere ==
    ASSUME PipeGood, UnderWay, NEW s \in Steps, NEW how, Ends(s, how), Elsewhere(fs')
    PROVE  PipeGood'
<1>1. InPlace(fs')
  BY DEF PipeGood, CleanInv, InPlace, IsFs, Places, Elsewhere
<1> QED BY <1>1, Works

LEMMA OutputsElsewhere ==
    ASSUME PipeGood, NEW f,
           \/ f = fs
           \/ \E v : f = [fs EXCEPT !.cc = v]
           \/ \E v, n : f = [fs EXCEPT !.iso[n] = v]
           \/ \E v, n : f = [fs EXCEPT !.iso[n].cc = v]
           \/ \E v, w : f = [fs EXCEPT !.net = [src |-> v, prefix |-> w]]
           \/ \E v : f = [fs EXCEPT !.net.src = v]
           \/ \E v, n : f = [fs EXCEPT !.out[n] = v]
           \/ \E v, n : f = [fs EXCEPT !.out[n].whole = v]
           \/ \E v, n : f = [fs EXCEPT !.raw[n] = v]
           \/ \E v, n : f = [fs EXCEPT !.raw[n].whole = v]
           \/ \E v, n, w, m : f = [fs EXCEPT !.raw[n] = v, !.out[m] = w]
    PROVE  Elsewhere(f)
<1>0. {"root", "cc", "iso", "raw", "out", "net"} \subseteq DOMAIN fs /\ "src" \in DOMAIN fs.net
  BY DEF PipeGood, IsFs
<1>1. CASE f = fs
  BY <1>0, <1>1 DEF Elsewhere
<1>2. CASE \E v : f = [fs EXCEPT !.cc = v]
  BY <1>0, <1>2 DEF Elsewhere
<1>3. CASE \E v, n : f = [fs EXCEPT !.iso[n] = v]
  BY <1>0, <1>3 DEF Elsewhere
<1>4. CASE \E v, n : f = [fs EXCEPT !.iso[n].cc = v]
  BY <1>0, <1>4 DEF Elsewhere
<1>5. CASE \E v, w : f = [fs EXCEPT !.net = [src |-> v, prefix |-> w]]
  <2>1. PICK v, w : f = [fs EXCEPT !.net = [src |-> v, prefix |-> w]]
    BY <1>5
  <2> DEFINE net == [src |-> v, prefix |-> w]
  <2>2. "src" \in DOMAIN net
    OBVIOUS
  <2> HIDE DEF net
  <2>3. f = [fs EXCEPT !.net = net]
    BY <2>1 DEF net
  <2>4. f.net = net /\ f.root = fs.root /\ DOMAIN f = DOMAIN fs
    BY <1>0, <2>3
  <2> QED BY <1>0, <2>2, <2>4 DEF Elsewhere
<1>6. CASE \E v : f = [fs EXCEPT !.net.src = v]
  BY <1>0, <1>6 DEF Elsewhere
<1>7. CASE \E v, n : f = [fs EXCEPT !.out[n] = v]
  BY <1>0, <1>7 DEF Elsewhere
<1>8. CASE \E v, n : f = [fs EXCEPT !.raw[n] = v]
  BY <1>0, <1>8 DEF Elsewhere
<1>9. CASE \E v, n : f = [fs EXCEPT !.raw[n].whole = v]
  BY <1>0, <1>9 DEF Elsewhere
<1>10. CASE \E v, n, w, m : f = [fs EXCEPT !.raw[n] = v, !.out[m] = w]
  BY <1>0, <1>10 DEF Elsewhere
<1>11. CASE \E v, n : f = [fs EXCEPT !.out[n].whole = v]
  BY <1>0, <1>11 DEF Elsewhere
<1> QED BY <1>1, <1>2, <1>3, <1>4, <1>5, <1>6, <1>7, <1>8, <1>9, <1>10, <1>11

LEMMA UnpackStep ==
    ASSUME PipeGood, PrepDirs \/ StepDumpSource PROVE PipeGood'
<1> DEFINE dir == tmpRootFs(cfg, "late")
           Cleared(to) == [fs EXCEPT !.root[dir] = to]
<1>1. \A to : InPlace(Cleared(to)) /\ InPlace(fs)
  BY Unpacks
<1>2. CASE PrepDirs
  <2>1. UnderWay /\ "prep" \in Steps
    BY <1>2 DEF PrepDirs, Starts, Ready, UnderWay, Steps
  <2>2. \E how : Ends("prep", how)
    BY <1>2 DEF PrepDirs
  <2>3. CASE fs' = [Cleared("empty") EXCEPT !.net.src = "none"]
    <3> DEFINE f == Cleared("empty")
    <3> HIDE DEF f, Cleared
    <3>1. InPlace(f) /\ fs' = [f EXCEPT !.net.src = "none"]
      BY <1>1, <2>3 DEF f
    <3>2. fs'.root = f.root /\ DOMAIN fs' = DOMAIN f /\ fs'.net = [f.net EXCEPT !.src = "none"]
      BY <3>1 DEF InPlace, IsFs
    <3>3. InPlace(fs')
      BY <3>1, <3>2 DEF InPlace, IsFs
    <3> QED BY <2>1, <2>2, <3>3, Works
  <2>4. CASE fs' \in {fs, Cleared("absent"), Cleared("empty")}
    <3> HIDE DEF Cleared
    <3>1. InPlace(fs')
      BY <1>1, <2>4
    <3> QED BY <2>1, <2>2, <3>1, Works
  <2> QED BY <1>2, <2>3, <2>4 DEF PrepDirs
<1>3. CASE StepDumpSource
  <2>1. UnderWay /\ "dump" \in Steps
    BY <1>3 DEF StepDumpSource, Starts, Ready, UnderWay, Steps, Pending
  <2>2. \E how : Ends("dump", how)
    BY <1>3 DEF StepDumpSource
  <2>3. fs' \in {fs, Cleared("partial"), Cleared("full")}
    BY <1>3 DEF StepDumpSource
  <2> HIDE DEF Cleared
  <2>4. InPlace(fs')
    BY <1>1, <2>3
  <2> QED BY <2>1, <2>2, <2>4, Works
<1> QED BY <1>2, <1>3

LEMMA ImageStep ==
    ASSUME PipeGood,
           \/ StepCopyCloudConfig \/ StepGenISO \/ StepDownloadISO \/ StepExtractNetboot \/ StepInjectCC
    PROVE  PipeGood'
<1>1. PICK s \in {"cc", "genISO", "download", "extract", "inject"} : Starts(s) /\ \E how : Ends(s, how)
  BY DEF StepCopyCloudConfig, StepGenISO, StepDownloadISO, StepExtractNetboot, StepInjectCC
<1>2. UnderWay /\ s \in Steps
  BY <1>1 DEF Starts, Ready, UnderWay, Steps
<1>3. Elsewhere(fs')
  <2>1. CASE StepCopyCloudConfig
    BY <2>1, OutputsElsewhere DEF StepCopyCloudConfig
  <2>2. CASE StepGenISO
    BY <2>2, OutputsElsewhere DEF StepGenISO
  <2>3. CASE StepDownloadISO
    BY <2>3, OutputsElsewhere DEF StepDownloadISO
  <2>4. CASE StepExtractNetboot
    BY <2>4, OutputsElsewhere DEF StepExtractNetboot
  <2>5. CASE StepInjectCC
    BY <2>5, OutputsElsewhere DEF StepInjectCC
  <2> QED BY <2>1, <2>2, <2>3, <2>4, <2>5
<1> QED BY <1>1, <1>2, <1>3, WorksElsewhere

LEMMA DiskStep ==
    ASSUME PipeGood, StepGenRawDisk \/ StepGenMBRRawDisk PROVE PipeGood'
<1>1. PICK s \in {"efi", "bios"} : RawDiskStart(s) \/ RawDiskFinish(s)
  BY DEF StepGenRawDisk, StepGenMBRRawDisk
<1>2. UnderWay /\ s \in Steps
  BY <1>1 DEF RawDiskStart, RawDiskFinish, Starts, Ready, UnderWay, Steps, Pending
<1>3. \E how : Ends(s, how)
  BY <1>1 DEF RawDiskStart, RawDiskFinish
<1>4. Elsewhere(fs')
  <2>1. CASE RawDiskStart(s)
    BY <2>1, OutputsElsewhere DEF RawDiskStart
  <2>2. CASE RawDiskFinish(s)
    BY <2>2, OutputsElsewhere DEF RawDiskFinish
  <2> QED BY <1>1, <2>1, <2>2
<1> QED BY <1>2, <1>3, <1>4, WorksElsewhere

LEMMA ConvertStep ==
    ASSUME PipeGood, StepConvertGCE \/ StepConvertVHD \/ StepConvertMAAS PROVE PipeGood'
<1>1. CASE \E k \in Conversions : Glob(k) \/ ConversionFails(k)
  <2>1. PICK k \in Conversions : Glob(k) \/ ConversionFails(k)
    BY <1>1
  <2>2. UnderWay /\ k \in Steps
    BY <2>1 DEF Glob, ConversionFails, Starts, Ready, UnderWay, Steps, Pending, Conversions
  <2>3. \E how : Ends(k, how)
    BY <2>1 DEF Glob, ConversionFails
  <2>4. fs' = fs
    BY <2>1 DEF Glob, ConversionFails
  <2> QED BY <2>2, <2>3, <2>4, OutputsElsewhere, WorksElsewhere
<1>2. CASE Raw2Azure
  <2>1. UnderWay /\ "vhd" \in Steps /\ Ends("vhd", "ok")
    BY <1>2 DEF Raw2Azure, UnderWay, Steps, Pending
  <2>2. Elsewhere(fs')
    BY <1>2, OutputsElsewhere DEF Raw2Azure
  <2> QED BY <2>1, <2>2, WorksElsewhere
<1>3. CASE GceResize
  <2>1. UnderWay /\ "gce" \in Steps /\ Ends("gce", "run")
    BY <1>3 DEF GceResize, UnderWay, Steps, Pending
  <2>2. Elsewhere(fs')
    BY <1>3, OutputsElsewhere DEF GceResize
  <2> QED BY <2>1, <2>2, WorksElsewhere
<1>4. CASE GcePack
  <2>1. UnderWay /\ "gce" \in Steps
    BY <1>4 DEF GcePack, UnderWay, Steps, Pending
  <2>2. CASE Found("gce") = NoDisk
    BY <1>4, <2>2 DEF GcePack, PipeGood, CleanInv, NothingLeftBehind, tmpRootFs
  <2>3. CASE Found("gce") # NoDisk
    <3>1. Ends("gce", "ok")
      BY <1>4, <2>3 DEF GcePack
    <3>2. Elsewhere(fs')
      <4>1. \E v, n, w, m : fs' = [fs EXCEPT !.raw[n] = v, !.out[m] = w]
        BY <1>4, <2>3 DEF GcePack
      <4> QED BY <4>1, OutputsElsewhere
    <3> QED BY <2>1, <3>1, <3>2, WorksElsewhere
  <2> QED BY <2>2, <2>3
<1>5. CASE Raw2MAAS
  <2>1. UnderWay /\ "maas" \in Steps /\ \E how : Ends("maas", how)
    BY <1>5 DEF Raw2MAAS, MaasOpen, MaasCompress, UnderWay, Steps, Pending
  <2>2. Elsewhere(fs')
    BY <1>5, OutputsElsewhere DEF Raw2MAAS, MaasOpen, MaasCompress
  <2> QED BY <2>1, <2>2, WorksElsewhere
<1> QED BY <1>1, <1>2, <1>3, <1>4, <1>5 DEF StepConvertGCE, StepConvertVHD, StepConvertMAAS, Raw2Gce, Conversions

LEMMA EndStep ==
    ASSUME PipeGood,
           \/ RegisterAll \/ StepStartHTTPServer \/ StepStartNetboot \/ CollectErrors \/ CleanTmpDirs
           \/ (\E s \in Steps : Skipped(s)) \/ (\E s \in Background : ServerDies(s))
    PROVE  PipeGood'
<1>1. CASE RegisterAll
  BY <1>1 DEF RegisterAll, PipeGood, CleanInv, NothingLeftBehind, tmpRootFs
<1>2. CASE \/ StepStartHTTPServer \/ StepStartNetboot
           \/ (\E s \in Steps : Skipped(s)) \/ (\E s \in Background : ServerDies(s))
  <2>1. PICK s \in Steps : result = "running" /\ fs' = fs /\ \E how : Ends(s, how)
    BY <1>2 DEF StepStartHTTPServer, StepStartNetboot, StartServer, Skipped, ServerDies, Starts, Ready, Steps, Background
  <2> QED BY <2>1, OutputsElsewhere, WorksElsewhere DEF UnderWay
<1>3. CASE CollectErrors
  BY <1>3 DEF CollectErrors, PipeGood, CleanInv, NothingLeftBehind, Settled, tmpRootFs
<1>4. CASE CleanTmpDirs
  <2> DEFINE dir == tmpRootFs(cfg, "late")
  <2>1. fs' = [fs EXCEPT !.root[dir] = "absent", !.net.src = "none", !.cc = "none"]
        /\ cfg' = cfg /\ status' = status /\ Settled
        /\ result' \in {"cleaned_ok", "cleaned_failed"}
    BY <1>4 DEF CleanTmpDirs, PipeGood, CleanInv
  <2> HIDE DEF dir
  <2>2. /\ DOMAIN fs' = DOMAIN fs /\ fs'.root = [fs.root EXCEPT ![dir] = "absent"]
        /\ fs'.net = [fs.net EXCEPT !.src = "none"] /\ fs'.cc = "none"
    BY <2>1 DEF PipeGood, IsFs
  <2>3. DOMAIN fs'.root = Places /\ \A d \in Places : fs'.root[d] = "absent"
    BY <2>2 DEF PipeGood, IsFs, CleanInv, Places, dir
  <2>4. fs'.net.src = "none" /\ IsFs(fs')
    BY <2>2, <2>3 DEF PipeGood, IsFs
  <2> QED BY <2>1, <2>2, <2>3, <2>4 DEF PipeGood, IsFs, CleanInv, NothingLeftBehind, Settled, Places, tmpRootFs
<1> QED BY <1>1, <1>2, <1>3, <1>4

LEMMA PipeStep ==
    ASSUME PipeGood, [PipeNext]_pipeVars PROVE PipeGood'
<1>1. CASE UNCHANGED pipeVars
  BY <1>1 DEF pipeVars, PipeGood, CleanInv, NothingLeftBehind, Settled, tmpRootFs
<1>2. CASE PipeNext
  BY <1>2, UnpackStep, ImageStep, DiskStep, ConvertStep, EndStep DEF PipeNext, Run
<1> QED BY <1>1, <1>2

LEMMA PipeStarts ==
    ASSUME NEW configs, NEW view \in {"new", "rejected"}, PipeInit(configs, view) PROVE PipeGood
<1>1. fs.root = [d \in Places |-> "absent"] /\ "src" \in DOMAIN fs.net /\ {"root", "cc", "iso", "raw", "out", "net"} \subseteq DOMAIN fs
      /\ result = view /\ DOMAIN status = Steps
  BY DEF PipeInit, Places
<1> QED BY <1>1 DEF PipeGood, CleanInv, NothingLeftBehind, IsFs, Places

(***************************************************************************)
(* The layers of the graphs a configuration can ask for, worked out once.  *)
(***************************************************************************)
LEMMA MaxIs ==
    ASSUME NEW f, NEW D, NEW m \in Int, \E d \in D : f[d] = m, \A d \in D : f[d] \in Int /\ f[d] <= m
    PROVE  Max({f[d] : d \in D}) = m
<1> DEFINE S == {f[d] : d \in D}
<1>1. m \in S /\ \A x \in S : x \in Int /\ x <= m
  OBVIOUS
<1> HIDE DEF S
<1>2. \E x \in S : \A y \in S : x >= y
  BY <1>1
<1>3. (CHOOSE x \in S : \A y \in S : x >= y) \in S
      /\ \A y \in S : (CHOOSE x \in S : \A z \in S : x >= z) >= y
  BY <1>2
<1>4. Max(S) \in S /\ \A y \in S : Max(S) >= y
  BY <1>3 DEF Max
<1> DEFINE top == Max(S)
<1> HIDE DEF top
<1>5. top \in S /\ top >= m
  BY <1>1, <1>4 DEF top
<1>6. top = m
  BY <1>1, <1>5
<1> QED BY <1>6 DEF S, top

Rank(deps, h) == [s \in DOMAIN deps |-> IF deps[s] = {} THEN 0 ELSE 1 + Max({h[d] : d \in deps[s]})]

LEMMA LayersAreRanks ==
    ASSUME NEW deps, NEW g, g = Rank(deps, g) PROVE Layers(deps) = Rank(deps, Layers(deps))
<1>1. Layers(deps) = CHOOSE h : h = Rank(deps, h)
  BY DEF Layers, Rank
<1>2. \E h : h = Rank(deps, h)
  OBVIOUS
<1>3. (CHOOSE h : h = Rank(deps, h)) = Rank(deps, CHOOSE h : h = Rank(deps, h))
  BY <1>2
<1> QED BY <1>1, <1>3

LevelIn(c, s) ==
    CASE s = "prep" -> 0
      [] s \in {"cc", "dump", "download"} -> 1
      [] s \in {"genISO", "efi", "bios"} -> 2
      [] s \in {"extract", "gce", "vhd", "maas"} -> 3
      [] s = "inject" -> IF c.image THEN 3 ELSE 2
      [] s = "http" -> IF c.image THEN 4 ELSE 3
      [] s = "pixie" -> 4
Level(c) == [s \in Registered(c) |-> LevelIn(c, s)]

LEMMA DepsOf ==
    ASSUME NEW c \in Config, NEW s \in Registered(c)
    PROVE  Deps(c)[s] =
             CASE s = "prep"                           -> {}
               [] s \in {"cc", "dump", "download"}     -> {"prep"}
               [] s = "genISO"                         -> {"dump", "cc", "prep"}
               [] s = "extract"                        -> IF c.image THEN {"genISO"} ELSE {"genISO", "download"}
               [] s \in {"efi", "bios"}                -> {"dump"}
               [] s \in {"gce", "vhd", "maas"}         -> {"efi"}
               [] s = "inject"                         -> IF c.image THEN {"cc", "genISO"} ELSE {"cc", "download"}
               [] s = "http"                           -> IF c.image THEN {"cc", "inject", "genISO"}
                                                          ELSE {"cc", "inject", "download"}
               [] s = "pixie"                          -> {"extract", "cc"}
<1> DEFINE D == Deps(c)[s]
<1>1. Registered(c) \subseteq Steps
  BY DEF Registered, Steps
<1>2. /\ s = "prep" => D = {}
      /\ s \in {"cc", "dump", "download"} => D = {"prep"}
      /\ s = "genISO" => D = {"dump", "cc", "prep"}
  BY DEF Deps, StepGenISODeps, Conversions
<1>3. s \in {"efi", "bios"} => D = {"dump"}
  BY DEF Deps, StepGenRawDiskDeps, Conversions
<1>4. s \in {"gce", "vhd", "maas"} => D = {"efi"}
  BY DEF Deps, Conversions
<1>5. s = "extract" => D = IF c.image THEN {"genISO"} ELSE {"genISO", "download"}
  BY DEF Deps, StepExtractNetbootDeps, Conversions, isoOption, fromImage
<1>6. s = "inject" => D = IF c.image THEN {"cc", "genISO"} ELSE {"cc", "download"}
  BY DEF Deps, StepInjectCCDeps, Conversions, isoOption, fromImage
<1>7. s = "http" => D = IF c.image THEN {"cc", "inject", "genISO"} ELSE {"cc", "inject", "download"}
  BY DEF Deps, StepStartHTTPServerDeps, Conversions, isoOption, fromImage
<1>8. s = "pixie" => D = {"extract", "cc"}
  BY DEF Deps, Conversions
<1> HIDE DEF D
<1>9. D = CASE s = "prep"                           -> {}
            [] s \in {"cc", "dump", "download"}     -> {"prep"}
            [] s = "genISO"                         -> {"dump", "cc", "prep"}
            [] s = "extract"                        -> IF c.image THEN {"genISO"} ELSE {"genISO", "download"}
            [] s \in {"efi", "bios"}                -> {"dump"}
            [] s \in {"gce", "vhd", "maas"}         -> {"efi"}
            [] s = "inject"                         -> IF c.image THEN {"cc", "genISO"} ELSE {"cc", "download"}
            [] s = "http"                           -> IF c.image THEN {"cc", "inject", "genISO"}
                                                       ELSE {"cc", "inject", "download"}
            [] s = "pixie"                          -> {"extract", "cc"}
  BY <1>1, <1>2, <1>3, <1>4, <1>5, <1>6, <1>7, <1>8 DEF Steps
<1> QED BY <1>9 DEF D

\* The dependencies of a step are steps registered with it, in lower layers, one of them in
\* the layer just below.
LEMMA LevelsOf ==
    ASSUME NEW c \in Config, NEW s \in Registered(c)
    PROVE  /\ Level(c)[s] \in 0 .. 4 /\ Deps(c)[s] \subseteq Registered(c) \ Background
           /\ \A d \in Deps(c)[s] : Level(c)[d] < Level(c)[s]
           /\ IF Deps(c)[s] = {} THEN Level(c)[s] = 0
              ELSE \E d \in Deps(c)[s] : Level(c)[d] = Level(c)[s] - 1
<1> DEFINE L == Level(c)
           D == Deps(c)[s]
<1>1. Registered(c) \subseteq Steps /\ {"prep", "cc", "dump", "genISO"} \subseteq Registered(c)
      /\ (Registered(c) = Steps \/ Registered(c) = {"prep", "cc", "dump", "genISO"})
  BY DEF Registered, Steps
<1>2. c.image \in BOOLEAN
  BY DEF Config
<1>3. D = CASE s = "prep"                         -> {}
             [] s \in {"cc", "dump", "download"}   -> {"prep"}
             [] s = "genISO"                       -> {"dump", "cc", "prep"}
             [] s = "extract"                      -> IF c.image THEN {"genISO"} ELSE {"genISO", "download"}
             [] s \in {"efi", "bios"}              -> {"dump"}
             [] s \in {"gce", "vhd", "maas"}       -> {"efi"}
             [] s = "inject"                       -> IF c.image THEN {"cc", "genISO"} ELSE {"cc", "download"}
             [] s = "http"                         -> IF c.image THEN {"cc", "inject", "genISO"}
                                                       ELSE {"cc", "inject", "download"}
             [] s = "pixie"                        -> {"extract", "cc"}
  BY DepsOf
<1> HIDE DEF D
<1>4. \A d \in Registered(c) :
        L[d] = CASE d = "prep" -> 0
                 [] d \in {"cc", "dump", "download"} -> 1
                 [] d \in {"genISO", "efi", "bios"} -> 2
                 [] d \in {"extract", "gce", "vhd", "maas"} -> 3
                 [] d = "inject" -> IF c.image THEN 3 ELSE 2
                 [] d = "http" -> IF c.image THEN 4 ELSE 3
                 [] d = "pixie" -> 4
  BY DEF Level, LevelIn
<1> HIDE DEF L
<1>5. D \subseteq Registered(c) \ Background
  BY <1>1, <1>2, <1>3 DEF Steps, Background
<1>6. L[s] \in 0 .. 4
  BY <1>1, <1>2, <1>4 DEF Steps
<1>7. ASSUME NEW d \in D PROVE L[d] < L[s]
  BY <1>1, <1>2, <1>3, <1>4, <1>5, <1>7 DEF Steps
<1>8. IF D = {} THEN L[s] = 0 ELSE \E d \in D : L[d] = L[s] - 1
  <2>1. CASE s \in {"prep", "cc", "dump", "download", "genISO", "efi", "bios"}
    BY <1>1, <1>3, <1>4, <1>5, <2>1
  <2>2. CASE s \in {"gce", "vhd", "maas", "extract", "pixie"}
    BY <1>1, <1>2, <1>3, <1>4, <1>5, <2>2
  <2>3. CASE s = "inject"
    BY <1>1, <1>2, <1>3, <1>4, <1>5, <2>3
  <2>4. CASE s = "http"
    BY <1>1, <1>2, <1>3, <1>4, <1>5, <2>4
  <2> QED BY <1>1, <2>1, <2>2, <2>3, <2>4 DEF Steps
<1> QED BY <1>5, <1>6, <1>7, <1>8 DEF L, D

LEMMA LayersOf ==
    ASSUME NEW c \in Config
    PROVE  Layers(Deps(c)) = Level(c)
<1> DEFINE deps == Deps(c)
           g == Level(c)
           h == Layers(deps)
<1>1. /\ DOMAIN deps = Registered(c) /\ DOMAIN g = Registered(c)
      /\ g = [s \in Registered(c) |-> g[s]]
  <2>1. DOMAIN deps = Registered(c)
    BY DEF Deps
  <2>2. DOMAIN g = Registered(c)
    BY DEF Level
  <2>3. g = [s \in Registered(c) |-> g[s]]
    BY DEF Level
  <2> QED BY <2>1, <2>2, <2>3
<1>2. \A s \in Registered(c) :
        /\ g[s] \in 0 .. 4 /\ deps[s] \subseteq Registered(c)
        /\ \A d \in deps[s] : g[d] < g[s]
        /\ IF deps[s] = {} THEN g[s] = 0 ELSE \E d \in deps[s] : g[d] = g[s] - 1
  BY LevelsOf
<1> HIDE DEF deps, g
<1>3. ASSUME NEW s \in Registered(c) PROVE g[s] = Rank(deps, g)[s]
  <2>1. Rank(deps, g)[s] = IF deps[s] = {} THEN 0 ELSE 1 + Max({g[d] : d \in deps[s]})
    BY <1>1 DEF Rank
  <2>2. CASE deps[s] = {}
    BY <1>2, <2>1, <2>2
  <2>3. CASE deps[s] # {}
    <3>1. \E d \in deps[s] : g[d] = g[s] - 1
      BY <1>2, <2>3
    <3>2. \A d \in deps[s] : g[d] \in Int /\ g[d] <= g[s] - 1
      BY <1>2
    <3>3. g[s] - 1 \in Int /\ g[s] \in Int
      BY <1>2
    <3>4. Max({g[d] : d \in deps[s]}) = g[s] - 1
      BY <3>1, <3>2, <3>3, MaxIs
    <3> QED BY <2>1, <2>3, <3>3, <3>4
  <2> QED BY <2>2, <2>3
<1>4. g = Rank(deps, g)
  <2>1. Rank(deps, g) = [s \in Registered(c) |-> Rank(deps, g)[s]]
    BY <1>1 DEF Rank
  <2> QED BY <1>1, <1>3, <2>1
<1>5. h = Rank(deps, h)
  BY <1>4, LayersAreRanks
<1> HIDE DEF h
<1>6. ASSUME NEW s \in Registered(c), \A d \in deps[s] : h[d] = g[d] PROVE h[s] = g[s]
  <2>1. h[s] = IF deps[s] = {} THEN 0 ELSE 1 + Max({h[d] : d \in deps[s]})
    BY <1>1, <1>5 DEF Rank
  <2>2. g[s] = IF deps[s] = {} THEN 0 ELSE 1 + Max({g[d] : d \in deps[s]})
    BY <1>1, <1>4 DEF Rank
  <2>3. {h[d] : d \in deps[s]} = {g[d] : d \in deps[s]}
    BY <1>6
  <2> QED BY <2>1, <2>2, <2>3
<1>7. \A s \in Registered(c) : g[s] <= 0 => h[s] = g[s]
  BY <1>2, <1>6
<1>8. \A s \in Registered(c) : g[s] <= 1 => h[s] = g[s]
  BY <1>2, <1>6, <1>7
<1>9. \A s \in Registered(c) : g[s] <= 2 => h[s] = g[s]
  BY <1>2, <1>6, <1>8
<1>10. \A s \in Registered(c) : g[s] <= 3 => h[s] = g[s]
  BY <1>2, <1>6, <1>9
<1>11. \A s \in Registered(c) : h[s] = g[s]
  BY <1>2, <1>6, <1>10
<1>12. h = [s \in Registered(c) |-> h[s]]
  BY <1>1, <1>5 DEF Rank
<1>13. h = g
  BY <1>1, <1>11, <1>12
<1> QED BY <1>13 DEF h, g, deps
\* What a configuration enables.
LEMMA EnabledOf ==
    ASSUME NEW c, NEW s \in Registered(c)
    PROVE  /\ s \in {"prep", "cc"} => s \in Enabled(c)
           /\ s = "dump" => (s \in Enabled(c) <=> c.image)
           /\ s = "genISO" => (s \in Enabled(c) <=> c.image /\ c.disks = {} /\ ~({"iso", "netboot"} \subseteq c.off))
           /\ s \in {"download", "inject"} => (s \in Enabled(c) <=> c.disks = {} /\ ~c.image)
           /\ s = "extract" => (s \in Enabled(c) <=> "netboot" \notin c.off /\ c.disks = {})
           /\ s = "efi" => (s \in Enabled(c) <=> c.disks \ {"bios"} # {})
           /\ s = "bios" => (s \in Enabled(c) <=> "bios" \in c.disks)
           /\ s \in Conversions => (s \in Enabled(c) <=> s \in c.disks)
           /\ s = "http" => (s \in Enabled(c) <=> c.off \intersect {"iso", "http"} = {})
           /\ s = "pixie" => (s \in Enabled(c) <=> "netboot" \notin c.off)
<1> DEFINE On(t) == CASE t \in {"prep", "cc"}          -> TRUE
      [] t = "dump"                    -> fromImage(c)
      [] t = "genISO"                  -> /\ fromImage(c)
                                          /\ ~rawDiskIsSet(c)
                                          /\ ~({"iso", "netboot"} \subseteq c.off)
      [] t \in {"download", "inject"}  -> ~rawDiskIsSet(c) /\ isoOption(c)
      [] t = "extract"                 -> "netboot" \notin c.off /\ ~rawDiskIsSet(c)
      [] t = "efi"                     -> c.disks \ {"bios"} # {}
      [] t = "bios"                    -> "bios" \in c.disks
      [] t \in Conversions             -> t \in c.disks
      [] t = "http"                    -> c.off \intersect {"iso", "http"} = {}
      [] t = "pixie"                   -> "netboot" \notin c.off
<1>1. Enabled(c) = {t \in Registered(c) : On(t)}
  BY DEF Enabled
<1>2. s \in Enabled(c) <=> On(s)
  <2> HIDE DEF On
  <2> QED BY <1>1
<1>3. s \in {"prep", "cc"} => s \in Enabled(c)
  BY <1>2 DEF Conversions
<1>4. s = "dump" => (s \in Enabled(c) <=> c.image)
  BY <1>2 DEF fromImage, Conversions
<1>5. s = "genISO" => (s \in Enabled(c) <=> c.image /\ c.disks = {} /\ ~({"iso", "netboot"} \subseteq c.off))
  BY <1>2 DEF Conversions, fromImage, rawDiskIsSet
<1>6. s \in {"download", "inject"} => (s \in Enabled(c) <=> c.disks = {} /\ ~c.image)
  BY <1>2 DEF Conversions, isoOption, fromImage, rawDiskIsSet
<1>7. s = "extract" => (s \in Enabled(c) <=> "netboot" \notin c.off /\ c.disks = {})
  BY <1>2 DEF Conversions, rawDiskIsSet
<1>8. s = "efi" => (s \in Enabled(c) <=> c.disks \ {"bios"} # {})
  BY <1>2 DEF Conversions
<1>9. s = "bios" => (s \in Enabled(c) <=> "bios" \in c.disks)
  BY <1>2 DEF Conversions
<1>10. s \in Conversions => (s \in Enabled(c) <=> s \in c.disks)
  BY <1>2 DEF Conversions
<1>11. s = "http" => (s \in Enabled(c) <=> c.off \intersect {"iso", "http"} = {})
  BY <1>2 DEF Conversions
<1>12. s = "pixie" => (s \in Enabled(c) <=> "netboot" \notin c.off)
  BY <1>2 DEF Conversions
<1> QED BY <1>3, <1>4, <1>5, <1>6, <1>7, <1>8, <1>9, <1>10, <1>11, <1>12

\* A step of the graph moves on: it starts, is skipped, goes on, or its server dies.
Moves(s, how) ==
    /\ s \in Steps /\ Ends(s, how)
    /\ \/ Starts(s) /\ how \in Outcomes(s)
       \/ Ready(s) /\ how = "err"
       \/ status[s] \in {"glob", "run"} /\ how \in Outcomes(s)
       \/ status[s] = "serving" /\ result = "running" /\ how = "err"
GraphGood == GraphInv /\ cfg \in Config /\ DOMAIN status = Steps

LEMMA StepsOf ==
    ASSUME NEW c
    PROVE  /\ Registered(c) \subseteq Steps /\ Enabled(c) \subseteq Registered(c)
           /\ {"prep", "cc"} \subseteq Enabled(c) /\ {"prep", "cc", "dump", "genISO"} \subseteq Registered(c)
<1>1. Registered(c) \subseteq Steps /\ {"prep", "cc", "dump", "genISO"} \subseteq Registered(c)
  BY DEF Registered, Steps
<1>2. Enabled(c) \subseteq Registered(c)
  BY DEF Enabled
<1>3. {"prep", "cc"} \subseteq Enabled(c)
  BY <1>1, EnabledOf
<1> QED BY <1>1, <1>2, <1>3

\* Before a step starts, what it depends on has ended; so has the cloud config, for a disk.
LEMMA ReadyAfter ==
    ASSUME GraphGood, NEW s \in Steps, Ready(s)
    PROVE  /\ result = "running" /\ s \in Enabled(cfg)
           /\ \A d \in Deps(cfg)[s] : d # s /\ d \in Registered(cfg) \ Background /\ status[d] \notin Pending
           /\ s \in {"efi", "bios"} => status["cc"] \notin Pending
<1>1. result = "running" /\ status[s] = "wait"
      /\ \A p \in DOMAIN dag.layer : dag.layer[p] < dag.layer[s] => status[p] \notin Pending
  BY DEF Ready
<1>2. s \in Enabled(cfg) /\ s \in Registered(cfg)
  BY <1>1, StepsOf DEF GraphGood, GraphInv
<1>3. dag.layer = Level(cfg)
  BY <1>1, LayersOf DEF GraphGood, GraphInv
<1>4. DOMAIN Level(cfg) = Registered(cfg)
  BY DEF Level
<1>5. \A d \in Deps(cfg)[s] : d \in Registered(cfg) \ Background /\ Level(cfg)[d] < Level(cfg)[s]
      /\ Level(cfg)[s] \in 0 .. 4
  BY <1>2, LevelsOf DEF GraphGood
<1>6. s \in {"efi", "bios"} => Level(cfg)["cc"] < Level(cfg)[s] /\ "cc" \in Registered(cfg)
  <2>1. Level(cfg)["cc"] = 1
    BY StepsOf DEF Level, LevelIn
  <2>2. s \in {"efi", "bios"} => Level(cfg)[s] = 2
    BY <1>2 DEF Level, LevelIn
  <2> QED BY <2>1, <2>2, StepsOf
<1>7. ASSUME NEW d \in Deps(cfg)[s] PROVE d # s /\ d \in Registered(cfg) \ Background /\ status[d] \notin Pending
  BY <1>1, <1>3, <1>4, <1>5, <1>7
<1>8. s \in {"efi", "bios"} => status["cc"] \notin Pending
  BY <1>1, <1>3, <1>4, <1>6
<1> QED BY <1>1, <1>2, <1>7, <1>8

LEMMA Movers ==
    ASSUME GraphGood, NEW s, NEW how, Moves(s, how)
    PROVE  /\ s \in Enabled(cfg) /\ s \in Registered(cfg) /\ how \in Outcomes(s)
           /\ result \notin {"new", "rejected", "failed", "ok", "cleaned_failed", "cleaned_ok"}
           /\ status[s] \in {"wait", "glob", "run", "serving"}
           /\ status'[s] = how /\ \A t \in Steps : t # s => status'[t] = status[t]
           /\ cfg' = cfg /\ dag' = dag /\ result' = result /\ DOMAIN status' = Steps
           /\ how # "err" => \A d \in Deps(cfg)[s] : status[d] \in {"ok", "off"}
<1>1. s \in Steps /\ status' = [status EXCEPT ![s] = how] /\ cfg' = cfg /\ dag' = dag /\ result' = result
  BY DEF Moves, Ends
<1>2. status'[s] = how /\ (\A t \in Steps : t # s => status'[t] = status[t]) /\ DOMAIN status' = Steps
  BY <1>1 DEF GraphGood
<1>3. status[s] \in {"wait", "glob", "run", "serving"}
  BY DEF Moves, Starts, Ready
<1>4. s \in Enabled(cfg) /\ s \in Registered(cfg) /\ result \notin {"new", "rejected"}
  BY <1>1, <1>3, StepsOf DEF GraphGood, GraphInv
<1>5. how \in Outcomes(s)
  BY <1>1 DEF Moves, Outcomes
<1>6. result \notin {"failed", "ok", "cleaned_failed", "cleaned_ok"}
  BY <1>1 DEF Moves, Starts, Ready, GraphGood, GraphInv, Settled, Pending
<1>7. ASSUME how # "err", NEW d \in Deps(cfg)[s] PROVE status[d] \in {"ok", "off"}
  <2>1. CASE status[s] \in {"glob", "run", "serving"}
    BY <1>4, <2>1 DEF GraphGood, GraphInv, Begun
  <2>2. CASE Starts(s)
    <3>1. d \in Registered(cfg) \ Background /\ status[d] \notin Pending /\ d \in Steps
      BY <1>1, <2>2, ReadyAfter, StepsOf DEF Starts
    <3>2. status[d] # "err"
      <4>1. dag.deps = Deps(cfg)
        BY <1>4 DEF GraphGood, GraphInv
      <4> QED BY <4>1, <2>2 DEF Starts, DepFailed
    <3>3. status[d] \in {"off", "wait"} \union Outcomes(d)
      BY <1>4, <3>1 DEF GraphGood, GraphInv
    <3> QED BY <3>1, <3>2, <3>3 DEF Pending, Outcomes
  <2> QED BY <1>7, <2>1, <2>2 DEF Moves
<1> QED BY <1>1, <1>2, <1>3, <1>4, <1>5, <1>6, <1>7

LEMMA MovesKeepGraph ==
    ASSUME GraphGood, NEW s, NEW how, Moves(s, how) PROVE GraphGood'
<1>0. s \in Steps
  BY DEF Moves
<1>1. /\ s \in Enabled(cfg) /\ s \in Registered(cfg) /\ how \in Outcomes(s)
      /\ result \notin {"new", "rejected", "failed", "ok", "cleaned_failed", "cleaned_ok"}
      /\ status[s] \in {"wait", "glob", "run", "serving"}
      /\ status'[s] = how /\ \A t \in Steps : t # s => status'[t] = status[t]
      /\ cfg' = cfg /\ dag' = dag /\ result' = result /\ DOMAIN status' = Steps
      /\ how # "err" => \A d \in Deps(cfg)[s] : status[d] \in {"ok", "off"}
  BY Movers
<1>2. ASSUME NEW t \in Steps
      PROVE  status'[t] \in IF result' \in {"new", "rejected"} \/ t \notin Registered(cfg') THEN {"unregistered"}
                            ELSE IF t \notin Enabled(cfg') THEN {"off"} ELSE {"wait"} \union Outcomes(t)
  <2>1. CASE t = s
    BY <1>1, <2>1
  <2>2. CASE t # s
    BY <1>1, <2>2 DEF GraphGood, GraphInv
  <2> QED BY <2>1, <2>2
<1>3. /\ dag' = [deps |-> Deps(cfg'), layer |-> Layers(Deps(cfg'))]
      /\ cfg'.caller = "build-iso" \/ Validate(cfg')
  BY <1>1 DEF GraphGood, GraphInv
<1>4. ASSUME NEW t \in Registered(cfg'), status'[t] \in Begun, NEW d \in Deps(cfg')[t]
      PROVE  status'[d] \in {"ok", "off"}
  <2>0. t \in Registered(cfg) /\ t \in Steps /\ d \in Deps(cfg)[t] /\ d \in Steps
    BY <1>1, <1>4, StepsOf, LevelsOf DEF GraphGood
  <2>1. status[d] \in {"ok", "off"}
    <3>1. CASE t = s
      BY <1>1, <1>4, <2>0, <3>1 DEF Begun
    <3>2. CASE t # s
      BY <1>1, <1>4, <2>0, <3>2 DEF GraphGood, GraphInv
    <3> QED BY <3>1, <3>2
  <2> QED BY <1>1, <2>0, <2>1
<1>5. {status'["efi"], status'["bios"]} \intersect Begun # {} => status'["cc"] \in {"ok", "err"}
  <2>1. CASE s = "cc"
    <3>1. status'["cc"] \in {"ok", "err"}
      BY <1>1, <2>1 DEF Outcomes, Background, Conversions
    <3> QED BY <3>1
  <2>2. CASE s \in {"efi", "bios"} /\ status[s] = "wait" /\ how \in Begun
    <3>1. status["cc"] \notin Pending
      BY <1>0, <2>2, ReadyAfter DEF Moves, Starts, Begun
    <3>2. status["cc"] \in {"wait", "ok", "err"}
      BY <1>1, StepsOf DEF GraphGood, GraphInv, Outcomes, Background, Conversions, Steps
    <3> QED BY <1>1, <2>2, <3>1, <3>2 DEF Steps, Pending
  <2>3. CASE s # "cc" /\ ~(s \in {"efi", "bios"} /\ status[s] = "wait" /\ how \in Begun)
    <3>1. {status'["efi"], status'["bios"]} \intersect Begun # {} => {status["efi"], status["bios"]} \intersect Begun # {}
      BY <1>0, <1>1, <2>3 DEF Begun, Steps, Outcomes, Background
    <3>2. status'["cc"] = status["cc"]
      BY <1>1, <2>3 DEF Steps
    <3> QED BY <3>1, <3>2 DEF GraphGood, GraphInv
  <2> QED BY <2>1, <2>2, <2>3
<1>6. cfg' \in Config /\ result' \notin {"failed", "ok", "cleaned_failed", "cleaned_ok"}
  BY <1>1 DEF GraphGood
<1> QED BY <1>1, <1>2, <1>3, <1>4, <1>5, <1>6 DEF GraphGood, GraphInv

LEMMA GraphRegistered ==
    ASSUME GraphGood, RegisterAll PROVE GraphGood'
<1>1. cfg' = cfg /\ cfg \in Config /\ result = "new"
  BY DEF RegisterAll, GraphGood
<1>2. CASE result' = "rejected" /\ UNCHANGED <<dag, status>>
  BY <1>1, <1>2 DEF GraphGood, GraphInv
<1>3. CASE ~(cfg.caller # "build-iso" /\ ~Validate(cfg))
  <2>1. /\ result' = "running" /\ dag' = [deps |-> Deps(cfg), layer |-> Layers(Deps(cfg))]
        /\ status' = [s \in Steps |-> IF s \notin Registered(cfg) THEN "unregistered"
                                      ELSE IF s \in Enabled(cfg) THEN "wait" ELSE "off"]
    BY <1>3 DEF RegisterAll
  <2>2. \A s \in Steps : status'[s] \notin Begun
    BY <2>1 DEF Begun
  <2>3. DOMAIN status' = Steps
        /\ \A s \in Steps : status'[s] \in IF s \notin Registered(cfg) THEN {"unregistered"}
                                          ELSE IF s \notin Enabled(cfg) THEN {"off"} ELSE {"wait"} \union Outcomes(s)
    BY <2>1
  <2>4. \A s \in Registered(cfg) : status'[s] \notin Begun
    BY <2>2, StepsOf
  <2>5. {status'["efi"], status'["bios"]} \intersect Begun = {}
    BY <2>2 DEF Steps
  <2> QED BY <1>1, <1>3, <2>1, <2>3, <2>4, <2>5 DEF GraphGood, GraphInv
<1> QED BY <1>2, <1>3 DEF RegisterAll

LEMMA GraphCollected ==
    ASSUME GraphGood, CollectErrors PROVE GraphGood'
<1>1. /\ result = "running" /\ Settled /\ cfg' = cfg /\ dag' = dag /\ status' = status /\ cfg \in Config
      /\ cfg.caller = "cli" => \A s \in Steps : status[s] # "serving"
      /\ result' = IF \E s \in Steps : status[s] = "err" THEN "failed" ELSE "ok"
  BY DEF CollectErrors, GraphGood
<1>2. cfg.caller = "build-iso" => \A s \in Steps : status[s] # "serving"
  BY <1>1 DEF GraphGood, GraphInv, Registered, Outcomes, Background, Conversions
<1>3. cfg.caller \in {"cli", "web", "build-iso"}
  BY <1>1 DEF Config
<1>4. Settled'
  BY <1>1 DEF Settled
<1>5. \A s \in Steps :
         status'[s] \in IF s \notin Registered(cfg') THEN {"unregistered"}
                        ELSE IF s \notin Enabled(cfg') THEN {"off"} ELSE {"wait"} \union Outcomes(s)
  BY <1>1 DEF GraphGood, GraphInv
<1>6. dag' = [deps |-> Deps(cfg'), layer |-> Layers(Deps(cfg'))] /\ (cfg'.caller = "build-iso" \/ Validate(cfg'))
  BY <1>1 DEF GraphGood, GraphInv
<1>7. /\ \A s \in Registered(cfg') : status'[s] \in Begun => \A d \in Deps(cfg')[s] : status'[d] \in {"ok", "off"}
      /\ {status'["efi"], status'["bios"]} \intersect Begun # {} => status'["cc"] \in {"ok", "err"}
  BY <1>1 DEF GraphGood, GraphInv
<1> QED BY <1>1, <1>2, <1>3, <1>4, <1>5, <1>6, <1>7 DEF GraphGood, GraphInv

LEMMA GraphEnds ==
    ASSUME GraphGood, UNCHANGED <<cfg, dag, status>>,
           \/ CleanTmpDirs
           \/ result' = "crashed" /\ result \notin {"new", "rejected"}
    PROVE  GraphGood'
<1>1. /\ cfg' = cfg /\ dag' = dag /\ status' = status /\ cfg \in Config
      /\ result \notin {"new", "rejected"} /\ result' \notin {"new", "rejected"}
      /\ \/ result' = "crashed"
         \/ /\ result \in {"failed", "ok"} /\ result' \in {"cleaned_ok", "cleaned_failed"}
            /\ result' = "cleaned_ok" => result = "ok"
  BY DEF CleanTmpDirs, GraphGood
<1>2. Settled <=> Settled'
  BY <1>1 DEF Settled
<1>3. \A s \in Steps :
         status'[s] \in IF s \notin Registered(cfg') THEN {"unregistered"}
                        ELSE IF s \notin Enabled(cfg') THEN {"off"} ELSE {"wait"} \union Outcomes(s)
  BY <1>1 DEF GraphGood, GraphInv
<1>4. dag' = [deps |-> Deps(cfg'), layer |-> Layers(Deps(cfg'))] /\ (cfg'.caller = "build-iso" \/ Validate(cfg'))
  BY <1>1 DEF GraphGood, GraphInv
<1>5. /\ \A s \in Registered(cfg') : status'[s] \in Begun => \A d \in Deps(cfg')[s] : status'[d] \in {"ok", "off"}
      /\ {status'["efi"], status'["bios"]} \intersect Begun # {} => status'["cc"] \in {"ok", "err"}
  BY <1>1 DEF GraphGood, GraphInv
<1> QED BY <1>1, <1>2, <1>3, <1>4, <1>5 DEF GraphGood, GraphInv

(***************************************************************************)
(* What a step does to each part of the files.                             *)
(***************************************************************************)
Typed == PipeTypeOK /\ IsFs(fs)
Fields == {"root", "cc", "iso", "raw", "out", "net"}

RootMoves(s, how) ==
    LET Root(to) == fs'.root = [fs.root EXCEPT ![tmpRootFs(cfg, "late")] = to]
    IN  \/ fs'.root = fs.root /\ (s = "dump" => how = "err")
        \/ s = "prep" /\ (Root("absent") \/ Root("empty"))
        \/ s = "dump" /\ how = "run" /\ Root("partial")
        \/ s = "dump" /\ how = "ok" /\ Root("full")

ConfigMoves(s, how) ==
    \/ fs'.cc = fs.cc /\ (s = "cc" => how = "err")
    \/ s = "cc" /\ how = "ok" /\ fs'.cc = cfg.cloud
    \/ s = "cc" /\ how = "err" /\ fs'.cc = "empty"

ImageMoves(s, how) ==
    \/ /\ fs'.iso = fs.iso
       /\ s \in {"genISO", "download", "inject"} =>
            how = "err" \/ (s = "inject" /\ fs.cc \in {"none", "empty"})
    \/ /\ s = "genISO" /\ how = "ok"
       /\ \E src \in {"partial", "new"} :
            /\ fs.root[tmpRootFs(cfg, "late")] = "full" => src = "new"
            /\ fs.root[tmpRootFs(cfg, "late")] # "full" => src = "partial"
            /\ fs'.iso = [fs.iso EXCEPT !["named.iso"] = [src |-> src, cc |-> fs.cc]]
    \/ /\ s = "genISO" /\ how = "err"
       /\ \E left \in {NoISO, [src |-> "partial", cc |-> "none"]} :
            fs'.iso = [fs.iso EXCEPT !["named.iso"] = left]
    \/ /\ s = "download"
       /\ \E src \in {"partial", "new"} :
            /\ how = (IF src = "new" THEN "ok" ELSE "err")
            /\ fs'.iso = [fs.iso EXCEPT ![getIsoFile] = [src |-> src, cc |-> "none"]]
    \/ /\ s = "inject" /\ how = "ok" /\ fs.cc \notin {"none", "empty"} /\ fs.iso[getIsoFile] # NoISO
       /\ fs'.iso = [fs.iso EXCEPT ![getIsoFile].cc = fs.cc]

NetMoves(s, how) ==
    \/ fs'.net = fs.net /\ (s = "extract" => how = "err")
    \/ s = "prep" /\ how = "ok" /\ fs'.net = [fs.net EXCEPT !.src = "none"]
    \/ s = "extract" /\ how = "ok" /\ fs'.net = [src |-> fs.iso[getIsoFile].src, prefix |-> NetbootPrefix]
    \/ s = "extract" /\ how = "err" /\ fs'.net = [fs.net EXCEPT !.src = "partial"]

\* The disks, and what the conversions hold.
DisksStay(s, how) ==
    /\ fs'.raw = fs.raw /\ fs'.out = fs.out /\ held' = held
    /\ s \in {"efi", "bios"} \union Conversions => how = "err"
DiskMade(s, how) ==
    /\ s \in {"efi", "bios"} /\ Starts(s) /\ held' = held
    /\ fs.root[tmpRootFs(cfg, "early")] \in {"partial", "full"}
    /\ \E made : /\ made = [boot |-> s, cc |-> fs.cc, whole |-> fs.root[tmpRootFs(cfg, "early")] = "full"]
                 /\ IF s = "efi" /\ "partitions" \in cfg.disks
                    THEN how = "ok" /\ fs'.raw = fs.raw /\ fs'.out = [fs.out EXCEPT !["parts"] = made]
                    ELSE how = "run" /\ fs'.raw = [fs.raw EXCEPT !["this"] = made] /\ fs'.out = fs.out
DiskFinished(s, how) ==
    /\ s \in {"efi", "bios"} /\ status[s] = "run" /\ held' = held /\ fs'.out = fs.out
    /\ \/ how = "ok" /\ fs'.raw = [fs.raw EXCEPT !["this"].whole = fs.raw["this"].whole /\ fs.raw["this"].boot = s]
       \/ how = "err" /\ fs'.raw = [fs.raw EXCEPT !["this"] = NoDisk]
DiskFound(s, how) ==
    /\ s \in Conversions /\ Starts(s) /\ how = "glob" /\ fs'.raw = fs.raw /\ fs'.out = fs.out
    /\ \E n \in RawNames : /\ fs.raw[n] # NoDisk /\ \A m \in RawNames : fs.raw[m] # NoDisk => m = n
                           /\ held' = [held EXCEPT ![s] = n]
DiskGrown(s, how) ==
    /\ s = "gce" /\ status[s] = "glob" /\ how = "run" /\ held' = held /\ fs'.out = fs.out
    /\ \/ fs'.raw = fs.raw
       \/ Found(s) = NoDisk /\ fs'.raw = [fs.raw EXCEPT ![held[s]] = BlankDisk]
DiskConverted(s, how) ==
    /\ s \in Conversions /\ status[s] \in {"glob", "run"} /\ held' = held
    /\ how = (IF s = "maas" THEN "run" ELSE "ok")
    /\ Found(s) # NoDisk /\ fs'.out = [fs.out EXCEPT ![s] = Found(s)]
    /\ IF s = "maas" THEN fs'.raw = fs.raw ELSE fs'.raw = [fs.raw EXCEPT ![held[s]] = NoDisk]
DiskCompressed(s, how) ==
    /\ s = "maas" /\ status[s] = "run" /\ how = "ok" /\ held' = held /\ fs'.raw = fs.raw
    /\ \E whole \in {fs.out["maas"].whole, FALSE} :
         /\ status["vhd"] \notin {"ok", "err"} => whole = fs.out["maas"].whole
         /\ fs'.out = [fs.out EXCEPT !["maas"].whole = whole]
DiskMoves(s, how) ==
    \/ DisksStay(s, how) \/ DiskMade(s, how) \/ DiskFinished(s, how)
    \/ DiskFound(s, how) \/ DiskGrown(s, how) \/ DiskConverted(s, how) \/ DiskCompressed(s, how)

Changes(s, how) ==
    /\ Moves(s, how) /\ Fields \subseteq DOMAIN fs'
    /\ RootMoves(s, how) /\ ConfigMoves(s, how) /\ ImageMoves(s, how)
    /\ NetMoves(s, how) /\ DiskMoves(s, how)

\* A step that leaves all files as they are has failed, or had nothing to do.
LEMMA NothingChanges ==
    ASSUME Typed, NEW s, NEW how, Moves(s, how), fs' = fs, held' = held,
           \/ how = "err" \/ s \in Background \/ s \in {"prep"} \/ (s = "inject" /\ fs.cc \in {"none", "empty"})
    PROVE  Changes(s, how)
<1>1. /\ Fields \subseteq DOMAIN fs'
      /\ \/ s \notin {"dump", "cc", "genISO", "download", "extract", "efi", "bios"} \union Conversions
         \/ how = "err"
  BY DEF Typed, IsFs, Fields, Background, Conversions
<1>2. RootMoves(s, how) /\ ConfigMoves(s, how)
  BY <1>1 DEF RootMoves, ConfigMoves
<1>3. ImageMoves(s, how)
  BY <1>1 DEF ImageMoves, Background
<1>4. NetMoves(s, how) /\ DiskMoves(s, how)
  BY <1>1 DEF NetMoves, DiskMoves, DisksStay
<1> QED BY <1>1, <1>2, <1>3, <1>4 DEF Changes

LEMMA OneFieldChanges ==
    ASSUME Typed, NEW s, NEW how, Moves(s, how), held' = held, Fields \subseteq DOMAIN fs',
           \/ /\ s = "prep" \/ s = "dump"
              /\ RootMoves(s, how) /\ NetMoves(s, how) /\ fs'.cc = fs.cc /\ fs'.iso = fs.iso
              /\ fs'.raw = fs.raw /\ fs'.out = fs.out
           \/ /\ s = "cc" /\ ConfigMoves(s, how)
              /\ fs'.root = fs.root /\ fs'.iso = fs.iso /\ fs'.net = fs.net
              /\ fs'.raw = fs.raw /\ fs'.out = fs.out
           \/ /\ s \in {"genISO", "download", "inject"} /\ ImageMoves(s, how)
              /\ fs'.root = fs.root /\ fs'.cc = fs.cc /\ fs'.net = fs.net
              /\ fs'.raw = fs.raw /\ fs'.out = fs.out
           \/ /\ s = "extract" /\ NetMoves(s, how)
              /\ fs'.root = fs.root /\ fs'.cc = fs.cc /\ fs'.iso = fs.iso
              /\ fs'.raw = fs.raw /\ fs'.out = fs.out
    PROVE  Changes(s, how)
<1>1. RootMoves(s, how)
  BY DEF RootMoves
<1>2. ConfigMoves(s, how)
  BY DEF ConfigMoves
<1>3. ImageMoves(s, how)
  BY DEF ImageMoves
<1>4. NetMoves(s, how)
  BY DEF NetMoves
<1>5. DiskMoves(s, how)
  BY DEF DiskMoves, DisksStay, Conversions
<1> QED BY <1>1, <1>2, <1>3, <1>4, <1>5 DEF Changes

LEMMA DiskChanges ==
    ASSUME Typed, NEW s \in {"efi", "bios"} \union Conversions, NEW how, Moves(s, how), Fields \subseteq DOMAIN fs',
           fs'.root = fs.root, fs'.cc = fs.cc, fs'.iso = fs.iso, fs'.net = fs.net, DiskMoves(s, how)
    PROVE  Changes(s, how)
<1>1. RootMoves(s, how) /\ ConfigMoves(s, how)
  BY DEF RootMoves, ConfigMoves, Conversions
<1>2. ImageMoves(s, how) /\ NetMoves(s, how)
  BY DEF ImageMoves, NetMoves, Conversions
<1> QED BY <1>1, <1>2 DEF Changes

LEMMA PrepChanges ==
    ASSUME Typed, PrepDirs PROVE \E how : Changes("prep", how)
<1> DEFINE dir == tmpRootFs(cfg, "late")
           Cleared(to) == [fs EXCEPT !.root[dir] = to]
<1>0. Fields \subseteq DOMAIN fs /\ "src" \in DOMAIN fs.net /\ Starts("prep") /\ held' = held /\ "prep" \in Steps
  BY DEF Typed, IsFs, Fields, PrepDirs, Steps
<1>1. \A how \in {"ok", "err"} : Ends("prep", how) => Moves("prep", how)
  BY <1>0 DEF Moves, Outcomes, Background, Conversions
<1>2. CASE fs' = [Cleared("empty") EXCEPT !.net.src = "none"] /\ Ends("prep", "ok")
  <2>1. /\ Fields \subseteq DOMAIN fs' /\ fs'.root = [fs.root EXCEPT ![dir] = "empty"]
        /\ fs'.net = [fs.net EXCEPT !.src = "none"] /\ fs'.cc = fs.cc /\ fs'.iso = fs.iso
        /\ fs'.raw = fs.raw /\ fs'.out = fs.out
    <3> DEFINE f == Cleared("empty")
    <3>1. /\ Fields \subseteq DOMAIN f /\ f.root = [fs.root EXCEPT ![dir] = "empty"]
          /\ f.net = fs.net /\ f.cc = fs.cc /\ f.iso = fs.iso /\ f.raw = fs.raw /\ f.out = fs.out
      BY <1>0 DEF Fields
    <3> HIDE DEF f
    <3>2. fs' = [f EXCEPT !.net.src = "none"]
      BY <1>2 DEF f
    <3> QED BY <3>1, <3>2 DEF Fields
  <2>2. RootMoves("prep", "ok") /\ NetMoves("prep", "ok")
    BY <2>1 DEF RootMoves, NetMoves
  <2>3. Changes("prep", "ok")
    BY <1>0, <1>1, <1>2, <2>1, <2>2, OneFieldChanges
  <2> QED BY <2>3
<1>3. CASE fs' = fs /\ Ends("prep", "err")
  BY <1>0, <1>1, <1>3, NothingChanges
<1>4. ASSUME NEW to \in {"absent", "empty"}, fs' = Cleared(to), Ends("prep", "err")
      PROVE  Changes("prep", "err")
  <2>1. /\ Fields \subseteq DOMAIN fs' /\ fs'.root = [fs.root EXCEPT ![dir] = to]
        /\ fs'.net = fs.net /\ fs'.cc = fs.cc /\ fs'.iso = fs.iso /\ fs'.raw = fs.raw /\ fs'.out = fs.out
    BY <1>0, <1>4 DEF Fields
  <2>2. RootMoves("prep", "err") /\ NetMoves("prep", "err")
    BY <2>1 DEF RootMoves, NetMoves
  <2> QED BY <1>0, <1>1, <1>4, <2>1, <2>2, OneFieldChanges
<1> QED BY <1>2, <1>3, <1>4 DEF PrepDirs

LEMMA DumpChanges ==
    ASSUME Typed, StepDumpSource PROVE \E how : Changes("dump", how)
<1> DEFINE dir == tmpRootFs(cfg, "late")
<1>0. Fields \subseteq DOMAIN fs /\ held' = held /\ "dump" \in Steps
  BY DEF Typed, IsFs, Fields, StepDumpSource, Steps
<1>1. ASSUME NEW to, NEW how \in {"run", "ok"}, fs' = [fs EXCEPT !.root[dir] = to],
             Ends("dump", how), Starts("dump") \/ status["dump"] = "run",
             (how = "run" /\ to = "partial") \/ (how = "ok" /\ to = "full")
      PROVE  Changes("dump", how)
  <2>1. /\ Fields \subseteq DOMAIN fs' /\ fs'.root = [fs.root EXCEPT ![dir] = to]
        /\ fs'.net = fs.net /\ fs'.cc = fs.cc /\ fs'.iso = fs.iso /\ fs'.raw = fs.raw /\ fs'.out = fs.out
    BY <1>0, <1>1 DEF Fields
  <2>2. RootMoves("dump", how) /\ NetMoves("dump", how)
    BY <1>1, <2>1 DEF RootMoves, NetMoves
  <2>3. Moves("dump", how)
    BY <1>0, <1>1 DEF Moves, Outcomes, Background, Conversions
  <2> QED BY <1>0, <2>1, <2>2, <2>3, OneFieldChanges
<1>2. CASE status["dump"] = "run" /\ fs' = fs /\ Ends("dump", "err")
  <2>1. Moves("dump", "err")
    BY <1>0, <1>2 DEF Moves, Outcomes, Background, Conversions
  <2> QED BY <1>0, <1>2, <2>1, NothingChanges
<1> QED BY <1>1, <1>2 DEF StepDumpSource

LEMMA CopyChanges ==
    ASSUME Typed, StepCopyCloudConfig PROVE \E how : Changes("cc", how)
<1>0. Fields \subseteq DOMAIN fs /\ held' = held /\ "cc" \in Steps /\ Starts("cc")
  BY DEF Typed, IsFs, Fields, StepCopyCloudConfig, Steps
<1>1. \A how \in {"ok", "err"} : Ends("cc", how) => Moves("cc", how)
  BY <1>0 DEF Moves, Outcomes, Background, Conversions
<1>2. ASSUME NEW text, NEW how \in {"ok", "err"}, fs' = [fs EXCEPT !.cc = text], Ends("cc", how),
             (how = "ok" /\ text = cfg.cloud) \/ (how = "err" /\ text = "empty")
      PROVE  Changes("cc", how)
  <2>1. /\ Fields \subseteq DOMAIN fs' /\ fs'.cc = text
        /\ fs'.net = fs.net /\ fs'.root = fs.root /\ fs'.iso = fs.iso /\ fs'.raw = fs.raw /\ fs'.out = fs.out
    BY <1>0, <1>2 DEF Fields
  <2>2. ConfigMoves("cc", how)
    BY <1>2, <2>1 DEF ConfigMoves
  <2> QED BY <1>0, <1>1, <1>2, <2>1, <2>2, OneFieldChanges
<1>3. CASE fs' = fs /\ Ends("cc", "err")
  BY <1>0, <1>1, <1>3, NothingChanges
<1> QED BY <1>2, <1>3 DEF StepCopyCloudConfig

LEMMA ImageChanges ==
    ASSUME Typed, StepGenISO \/ StepDownloadISO \/ StepInjectCC
    PROVE  \E s, how : Changes(s, how)
<1>0. Fields \subseteq DOMAIN fs /\ held' = held
  BY DEF Typed, IsFs, Fields, StepGenISO, StepDownloadISO, StepInjectCC
<1>1. ASSUME NEW s \in {"genISO", "download", "inject"}, NEW how \in {"ok", "err"}, Starts(s), Ends(s, how)
      PROVE  Moves(s, how)
  BY <1>1 DEF Moves, Outcomes, Background, Conversions, Steps
<1>2. ASSUME NEW s \in {"genISO", "download", "inject"}, NEW how \in {"ok", "err"}, Starts(s), Ends(s, how),
             NEW images, fs' = [fs EXCEPT !.iso = images], (fs'.iso = images) => ImageMoves(s, how)
      PROVE  Changes(s, how)
  <2>1. /\ Fields \subseteq DOMAIN fs' /\ fs'.iso = images
        /\ fs'.net = fs.net /\ fs'.root = fs.root /\ fs'.cc = fs.cc /\ fs'.raw = fs.raw /\ fs'.out = fs.out
    BY <1>0, <1>2 DEF Fields
  <2> QED BY <1>0, <1>1, <1>2, <2>1, OneFieldChanges
<1>3. ASSUME NEW s \in {"genISO", "download", "inject"}, Starts(s), Ends(s, "err"), fs' = fs
      PROVE  Changes(s, "err")
  BY <1>0, <1>1, <1>3, NothingChanges
<1>4. CASE StepGenISO
  <2> DEFINE root == fs.root[tmpRootFs(cfg, "late")]
             src == IF root = "full" THEN "new" ELSE "partial"
             made == [src |-> src, cc |-> fs.cc]
             images == [fs.iso EXCEPT !["named.iso"] = made]
             Gone == {fs.iso["named.iso"], NoISO, [src |-> "partial", cc |-> "none"]}
  <2>1. Starts("genISO") /\ ((fs' = [fs EXCEPT !.iso["named.iso"] = made] /\ Ends("genISO", "ok"))
                             \/ /\ \E left \in Gone : fs' = [fs EXCEPT !.iso["named.iso"] = left]
                                /\ Ends("genISO", "err"))
    BY <1>4 DEF StepGenISO
  <2>2. CASE fs' = [fs EXCEPT !.iso["named.iso"] = made] /\ Ends("genISO", "ok")
    <3>1. fs'.iso = images => ImageMoves("genISO", "ok")
      BY DEF ImageMoves
    <3> HIDE DEF made
    <3>2. fs' = [fs EXCEPT !.iso = images]
      BY <1>0, <2>2 DEF Fields
    <3> HIDE DEF images
    <3>3. Changes("genISO", "ok")
      BY <1>2, <2>1, <2>2, <3>1, <3>2
    <3> QED BY <3>3
  <2>3. CASE (\E left \in Gone : fs' = [fs EXCEPT !.iso["named.iso"] = left]) /\ Ends("genISO", "err")
    <3>1. PICK left \in Gone : fs' = [fs EXCEPT !.iso["named.iso"] = left]
      BY <2>3
    <3> DEFINE after == [fs.iso EXCEPT !["named.iso"] = left]
    <3>2. left = fs.iso["named.iso"] => after = fs.iso
      BY DEF Typed, PipeTypeOK
    <3>3. fs'.iso = after => ImageMoves("genISO", "err")
      BY <3>1, <3>2 DEF ImageMoves
    <3>4. fs' = [fs EXCEPT !.iso = after]
      BY <1>0, <3>1 DEF Fields
    <3> HIDE DEF after
    <3>5. Changes("genISO", "err")
      BY <1>2, <2>1, <2>3, <3>3, <3>4
    <3> QED BY <3>5
  <2> QED BY <2>1, <2>2, <2>3
<1>5. CASE StepDownloadISO
  <2>1. PICK got \in {"new", "partial", "none"} :
          /\ Starts("download") /\ Ends("download", IF got = "new" THEN "ok" ELSE "err")
          /\ fs' = IF got = "none" THEN fs ELSE [fs EXCEPT !.iso[getIsoFile] = [src |-> got, cc |-> "none"]]
    BY <1>5 DEF StepDownloadISO
  <2> DEFINE made == [src |-> got, cc |-> "none"]
             n == getIsoFile
             images == [fs.iso EXCEPT ![n] = made]
             how == IF got = "new" THEN "ok" ELSE "err"
  <2>2. CASE got = "none"
    BY <1>3, <2>1, <2>2
  <2>3. CASE got # "none"
    <3>0. fs' = [fs EXCEPT !.iso[n] = made] /\ Ends("download", how) /\ how \in {"ok", "err"}
      BY <2>1, <2>3
    <3>1. fs'.iso = images => ImageMoves("download", how)
      BY <2>3 DEF ImageMoves
    <3> HIDE DEF made, n, how
    <3>2. fs' = [fs EXCEPT !.iso = images]
      BY <1>0, <3>0 DEF Fields
    <3> HIDE DEF images
    <3>3. Changes("download", how)
      BY <1>2, <2>1, <3>0, <3>1, <3>2
    <3> QED BY <3>3
  <2> QED BY <2>2, <2>3
<1>6. CASE StepInjectCC
  <2> DEFINE n == getIsoFile
             images == [fs.iso EXCEPT ![n].cc = fs.cc]
  <2>1. Starts("inject")
    BY <1>6 DEF StepInjectCC
  <2>2. CASE fs.cc \in {"none", "empty"}
    <3>1. Ends("inject", "ok") /\ fs' = fs
      BY <1>6, <2>2 DEF StepInjectCC
    <3>2. Changes("inject", "ok")
      BY <1>0, <1>1, <2>1, <2>2, <3>1, NothingChanges
    <3> QED BY <3>2
  <2>3. CASE fs.cc \notin {"none", "empty"} /\ fs.iso[n] # NoISO
             /\ fs' = [fs EXCEPT !.iso[n].cc = fs.cc] /\ Ends("inject", "ok")
    <3>1. fs'.iso = images => ImageMoves("inject", "ok")
      BY <2>3 DEF ImageMoves
    <3> HIDE DEF n
    <3>2. fs' = [fs EXCEPT !.iso = images]
      BY <1>0, <2>3 DEF Fields
    <3> HIDE DEF images
    <3>3. Changes("inject", "ok")
      BY <1>2, <2>1, <2>3, <3>1, <3>2
    <3> QED BY <3>3
  <2>4. CASE fs' = fs /\ Ends("inject", "err")
    BY <1>3, <2>1, <2>4
  <2> QED BY <1>6, <2>2, <2>3, <2>4 DEF StepInjectCC
<1> QED BY <1>4, <1>5, <1>6

LEMMA ExtractChanges ==
    ASSUME Typed, StepExtractNetboot PROVE \E how : Changes("extract", how)
<1>0. Fields \subseteq DOMAIN fs /\ "src" \in DOMAIN fs.net /\ held' = held /\ "extract" \in Steps /\ Starts("extract")
  BY DEF Typed, IsFs, Fields, StepExtractNetboot, Steps
<1>1. \A how \in {"ok", "err"} : Ends("extract", how) => Moves("extract", how)
  BY <1>0 DEF Moves, Outcomes, Background, Conversions
<1> DEFINE made == [src |-> fs.iso[getIsoFile].src, prefix |-> NetbootPrefix]
<1>2. CASE fs' = [fs EXCEPT !.net = made] /\ Ends("extract", "ok")
  <2>1. fs'.net = made => NetMoves("extract", "ok")
    BY DEF NetMoves
  <2> HIDE DEF made
  <2>2. /\ Fields \subseteq DOMAIN fs' /\ fs'.net = made
        /\ fs'.cc = fs.cc /\ fs'.root = fs.root /\ fs'.iso = fs.iso /\ fs'.raw = fs.raw /\ fs'.out = fs.out
    BY <1>0, <1>2 DEF Fields
  <2>3. Changes("extract", "ok")
    BY <1>0, <1>1, <1>2, <2>1, <2>2, OneFieldChanges
  <2> QED BY <2>3
<1>3. CASE fs' = [fs EXCEPT !.net.src = "partial"] /\ Ends("extract", "err")
  <2>2. /\ Fields \subseteq DOMAIN fs' /\ fs'.net = [fs.net EXCEPT !.src = "partial"]
        /\ fs'.cc = fs.cc /\ fs'.root = fs.root /\ fs'.iso = fs.iso /\ fs'.raw = fs.raw /\ fs'.out = fs.out
    BY <1>0, <1>3 DEF Fields
  <2>3. NetMoves("extract", "err")
    BY <2>2 DEF NetMoves
  <2>4. Changes("extract", "err")
    BY <1>0, <1>1, <1>3, <2>2, <2>3, OneFieldChanges
  <2> QED BY <2>4
<1>4. CASE fs' = fs /\ Ends("extract", "err")
  BY <1>0, <1>1, <1>4, NothingChanges
<1> QED BY <1>2, <1>3, <1>4 DEF StepExtractNetboot

LEMMA RawChanges ==
    ASSUME Typed, NEW s \in {"efi", "bios"}, RawDiskStart(s) \/ RawDiskFinish(s) PROVE \E how : Changes(s, how)
<1>0. Fields \subseteq DOMAIN fs /\ held' = held /\ s \in Steps /\ {"ok", "run", "err"} \subseteq Outcomes(s)
  BY DEF Typed, IsFs, Fields, RawDiskStart, RawDiskFinish, Steps, Outcomes, Background, Conversions
<1>1. \A how \in {"ok", "run", "err"} : Ends(s, how) /\ (Starts(s) \/ status[s] = "run") => Moves(s, how)
  BY <1>0 DEF Moves
<1>2. CASE RawDiskStart(s)
  <2> DEFINE root == fs.root[tmpRootFs(cfg, "early")]
             made == [boot |-> s, cc |-> fs.cc, whole |-> root = "full"]
  <2>1. Starts(s)
    BY <1>2 DEF RawDiskStart
  <2>2. CASE s = "efi" /\ "partitions" \in cfg.disks /\ root \in {"partial", "full"}
             /\ fs' = [fs EXCEPT !.out["parts"] = made] /\ Ends(s, "ok")
    <3>1. fs'.out = [fs.out EXCEPT !["parts"] = made] /\ fs'.raw = fs.raw => DiskMoves(s, "ok")
      BY <1>0, <2>1, <2>2 DEF DiskMoves, DiskMade
    <3> HIDE DEF made
    <3>2. /\ Fields \subseteq DOMAIN fs' /\ fs'.out = [fs.out EXCEPT !["parts"] = made] /\ fs'.raw = fs.raw
          /\ fs'.cc = fs.cc /\ fs'.root = fs.root /\ fs'.iso = fs.iso /\ fs'.net = fs.net
      BY <1>0, <2>2 DEF Fields
    <3>3. Changes(s, "ok")
      BY <1>1, <2>1, <2>2, <3>1, <3>2, DiskChanges
    <3> QED BY <3>3
  <2>3. CASE ~(s = "efi" /\ "partitions" \in cfg.disks) /\ root \in {"partial", "full"}
             /\ fs' = [fs EXCEPT !.raw["this"] = made] /\ Ends(s, "run")
    <3>1. fs'.raw = [fs.raw EXCEPT !["this"] = made] /\ fs'.out = fs.out => DiskMoves(s, "run")
      BY <1>0, <2>1, <2>3 DEF DiskMoves, DiskMade
    <3> HIDE DEF made
    <3>2. /\ Fields \subseteq DOMAIN fs' /\ fs'.raw = [fs.raw EXCEPT !["this"] = made] /\ fs'.out = fs.out
          /\ fs'.cc = fs.cc /\ fs'.root = fs.root /\ fs'.iso = fs.iso /\ fs'.net = fs.net
      BY <1>0, <2>3 DEF Fields
    <3>3. Changes(s, "run")
      BY <1>1, <2>1, <2>3, <3>1, <3>2, DiskChanges
    <3> QED BY <3>3
  <2>4. CASE fs' = fs /\ Ends(s, "err")
    BY <1>0, <1>1, <2>1, <2>4, NothingChanges
  <2> QED BY <1>2, <2>2, <2>3, <2>4 DEF RawDiskStart
<1>3. CASE RawDiskFinish(s)
  <2> DEFINE whole == fs.raw["this"].whole /\ fs.raw["this"].boot = s
  <2>1. status[s] = "run"
    BY <1>3 DEF RawDiskFinish
  <2>2. CASE fs' = [fs EXCEPT !.raw["this"].whole = whole] /\ Ends(s, "ok")
    <3>1. fs'.raw = [fs.raw EXCEPT !["this"].whole = whole] /\ fs'.out = fs.out => DiskMoves(s, "ok")
      BY <1>0, <2>1 DEF DiskMoves, DiskFinished
    <3> HIDE DEF whole
    <3>2. /\ Fields \subseteq DOMAIN fs' /\ fs'.raw = [fs.raw EXCEPT !["this"].whole = whole] /\ fs'.out = fs.out
          /\ fs'.cc = fs.cc /\ fs'.root = fs.root /\ fs'.iso = fs.iso /\ fs'.net = fs.net
      BY <1>0, <2>2 DEF Fields
    <3>3. Changes(s, "ok")
      BY <1>1, <2>1, <2>2, <3>1, <3>2, DiskChanges
    <3> QED BY <3>3
  <2>3. CASE fs' = [fs EXCEPT !.raw["this"] = NoDisk] /\ Ends(s, "err")
    <3>2. /\ Fields \subseteq DOMAIN fs' /\ fs'.raw = [fs.raw EXCEPT !["this"] = NoDisk] /\ fs'.out = fs.out
          /\ fs'.cc = fs.cc /\ fs'.root = fs.root /\ fs'.iso = fs.iso /\ fs'.net = fs.net
      BY <1>0, <2>3 DEF Fields
    <3>1. DiskMoves(s, "err")
      BY <1>0, <2>1, <3>2 DEF DiskMoves, DiskFinished
    <3>3. Changes(s, "err")
      BY <1>1, <2>1, <2>3, <3>1, <3>2, DiskChanges
    <3> QED BY <3>3
  <2>4. CASE fs' = fs /\ Ends(s, "err")
    BY <1>0, <1>1, <2>1, <2>4, NothingChanges
  <2> QED BY <1>3, <2>2, <2>3, <2>4 DEF RawDiskFinish
<1> QED BY <1>2, <1>3

LEMMA OnlyOneThere ==
    ASSUME NEW there \in SUBSET RawNames, Cardinality(there) = 1
    PROVE  \E n \in RawNames : there = {n} /\ (CHOOSE m \in there : TRUE) = n
<1>1. IsFiniteSet({}) /\ RawNames = ({} \union {"this"}) \union {"other"}
  BY FS_EmptySet DEF RawNames
<1>2. IsFiniteSet({} \union {"this"})
  BY <1>1, FS_AddElement
<1>3. IsFiniteSet(RawNames)
  BY <1>1, <1>2, FS_AddElement
<1>4. IsFiniteSet(there)
  BY <1>3, FS_Subset
<1>5. PICK n : there = {n}
  BY <1>4, FS_Singleton
<1> QED BY <1>5

LEMMA ConvertChanges ==
    ASSUME Typed, StepConvertGCE \/ StepConvertVHD \/ StepConvertMAAS,
           ~(status["gce"] = "run" /\ Found("gce") = NoDisk /\ GcePack)
    PROVE  \E s, how : Changes(s, how)
<1>0. Fields \subseteq DOMAIN fs
  BY DEF Typed, IsFs, Fields
<1>1. ASSUME NEW k \in Conversions, NEW how \in {"glob", "run", "ok", "err"}, Ends(k, how),
             Starts(k) \/ status[k] \in {"glob", "run"}
      PROVE  Moves(k, how) /\ k \in Steps
  BY <1>1 DEF Moves, Steps, Outcomes, Background, Conversions
<1>2. ASSUME NEW k \in Conversions, Glob(k) PROVE \E how : Changes(k, how)
  <2> DEFINE there == {n \in RawNames : fs.raw[n] # NoDisk}
  <2>1. Starts(k) /\ fs' = fs
    BY <1>2 DEF Glob
  <2>2. CASE Cardinality(there) = 1 /\ held' = [held EXCEPT ![k] = CHOOSE n \in there : TRUE] /\ Ends(k, "glob")
    <3>1. PICK n \in RawNames : there = {n} /\ (CHOOSE m \in there : TRUE) = n
      <4>1. there \in SUBSET RawNames
        OBVIOUS
      <4> HIDE DEF there
      <4> QED BY <2>2, <4>1, OnlyOneThere
    <3>2. /\ fs.raw[n] # NoDisk /\ \A m \in RawNames : fs.raw[m] # NoDisk => m = n
          /\ held' = [held EXCEPT ![k] = n]
      BY <2>2, <3>1
    <3>3. DiskMoves(k, "glob")
      BY <2>1, <3>2 DEF DiskMoves, DiskFound
    <3>4. Changes(k, "glob")
      BY <1>0, <1>1, <2>1, <2>2, <3>3, DiskChanges
    <3> QED BY <3>4
  <2>3. CASE held' = held /\ Ends(k, "err")
    BY <1>1, <2>1, <2>3, NothingChanges
  <2> QED BY <1>2, <2>2, <2>3 DEF Glob
<1>3. ASSUME NEW k \in Conversions, ConversionFails(k) PROVE \E how : Changes(k, how)
  BY <1>1, <1>3, NothingChanges DEF ConversionFails
<1>4. CASE Raw2Azure
  <2> DEFINE k == "vhd"
             found == Found("vhd")
             n == held["vhd"]
  <2>1. /\ Fields \subseteq DOMAIN fs' /\ fs'.raw = [fs.raw EXCEPT ![n] = NoDisk]
        /\ fs'.out = [fs.out EXCEPT ![k] = found]
        /\ fs'.cc = fs.cc /\ fs'.root = fs.root /\ fs'.iso = fs.iso /\ fs'.net = fs.net
    <3>1. fs' = [fs EXCEPT !.raw[n] = NoDisk, !.out[k] = found]
      BY <1>4 DEF Raw2Azure
    <3> HIDE DEF found, n
    <3> QED BY <1>0, <3>1 DEF Fields
  <2>2. DiskMoves("vhd", "ok") /\ Moves("vhd", "ok")
    BY <1>1, <1>4, <2>1 DEF DiskMoves, DiskConverted, Raw2Azure, Conversions
  <2>3. Changes("vhd", "ok")
    BY <2>1, <2>2, DiskChanges DEF Conversions
  <2> QED BY <2>3
<1>5. CASE GceResize
  <2>1. Moves("gce", "run") /\ status["gce"] = "glob" /\ held' = held
    BY <1>1, <1>5 DEF GceResize, Conversions
  <2>2. CASE fs' = fs
    <3>1. DiskMoves("gce", "run")
      BY <2>1, <2>2 DEF DiskMoves, DiskGrown
    <3>2. Changes("gce", "run")
      BY <1>0, <2>1, <2>2, <3>1, DiskChanges DEF Conversions
    <3> QED BY <3>2
  <2>3. CASE Found("gce") = NoDisk /\ fs' = [fs EXCEPT !.raw[held["gce"]] = BlankDisk]
    <3>1. /\ Fields \subseteq DOMAIN fs' /\ fs'.raw = [fs.raw EXCEPT ![held["gce"]] = BlankDisk]
          /\ fs'.out = fs.out
          /\ fs'.cc = fs.cc /\ fs'.root = fs.root /\ fs'.iso = fs.iso /\ fs'.net = fs.net
      BY <1>0, <2>3 DEF Fields
    <3>2. DiskMoves("gce", "run")
      BY <2>1, <2>3, <3>1 DEF DiskMoves, DiskGrown
    <3>3. Changes("gce", "run")
      BY <2>1, <3>1, <3>2, DiskChanges DEF Conversions
    <3> QED BY <3>3
  <2> QED BY <1>5, <2>2, <2>3 DEF GceResize
<1>6. CASE GcePack
  <2> DEFINE k == "gce"
             found == Found("gce")
             n == held["gce"]
  <2>0. status["gce"] = "run" /\ found # NoDisk /\ Ends("gce", "ok") /\ held' = held
        /\ fs' = [fs EXCEPT !.raw[n] = NoDisk, !.out[k] = found]
    BY <1>6 DEF GcePack
  <2>1. /\ Fields \subseteq DOMAIN fs' /\ fs'.raw = [fs.raw EXCEPT ![n] = NoDisk]
        /\ fs'.out = [fs.out EXCEPT ![k] = found]
        /\ fs'.cc = fs.cc /\ fs'.root = fs.root /\ fs'.iso = fs.iso /\ fs'.net = fs.net
    <3> HIDE DEF found, n
    <3> QED BY <1>0, <2>0 DEF Fields
  <2>2. DiskMoves("gce", "ok") /\ Moves("gce", "ok")
    BY <1>1, <2>0, <2>1 DEF DiskMoves, DiskConverted, Conversions
  <2>3. Changes("gce", "ok")
    BY <2>1, <2>2, DiskChanges DEF Conversions
  <2> QED BY <2>3
<1>7. CASE MaasOpen
  <2> DEFINE k == "maas"
             found == Found("maas")
  <2>1. /\ Fields \subseteq DOMAIN fs' /\ fs'.raw = fs.raw
        /\ fs'.out = [fs.out EXCEPT ![k] = found]
        /\ fs'.cc = fs.cc /\ fs'.root = fs.root /\ fs'.iso = fs.iso /\ fs'.net = fs.net
    <3>1. fs' = [fs EXCEPT !.out[k] = found]
      BY <1>7 DEF MaasOpen
    <3> HIDE DEF found
    <3> QED BY <1>0, <3>1 DEF Fields
  <2>2. DiskMoves("maas", "run") /\ Moves("maas", "run")
    BY <1>1, <1>7, <2>1 DEF DiskMoves, DiskConverted, MaasOpen, Conversions
  <2>3. Changes("maas", "run")
    BY <2>1, <2>2, DiskChanges DEF Conversions
  <2> QED BY <2>3
<1>8. CASE MaasCompress
  <2>1. PICK whole \in {fs.out["maas"].whole, FALSE} :
          /\ status["vhd"] \notin {"ok", "err"} => whole = fs.out["maas"].whole
          /\ fs' = [fs EXCEPT !.out["maas"].whole = whole]
    BY <1>8 DEF MaasCompress
  <2>2. status["maas"] = "run" /\ held' = held /\ Moves("maas", "ok")
    BY <1>1, <1>8 DEF MaasCompress, Conversions
  <2>3. /\ Fields \subseteq DOMAIN fs' /\ fs'.raw = fs.raw
        /\ fs'.out = [fs.out EXCEPT !["maas"].whole = whole]
        /\ fs'.cc = fs.cc /\ fs'.root = fs.root /\ fs'.iso = fs.iso /\ fs'.net = fs.net
    BY <1>0, <2>1 DEF Fields
  <2>4. DiskMoves("maas", "ok")
    BY <2>1, <2>2, <2>3 DEF DiskMoves, DiskCompressed
  <2>5. Changes("maas", "ok")
    BY <2>2, <2>3, <2>4, DiskChanges DEF Conversions
  <2> QED BY <2>5
<1> QED BY <1>2, <1>3, <1>4, <1>5, <1>6, <1>7, <1>8
        DEF StepConvertGCE, StepConvertVHD, StepConvertMAAS, Raw2Gce, Raw2MAAS, Conversions

\* Every step of the pipeline registers it, ends it, or is one of its steps moving on.
LEMMA PipeMoves ==
    ASSUME Typed, PipeNext
    PROVE  \/ RegisterAll \/ CollectErrors \/ CleanTmpDirs
           \/ status["gce"] = "run" /\ result' = "crashed" /\ UNCHANGED <<cfg, dag, status, fs, held>>
           \/ \E s, how : Changes(s, how)
<1>1. CASE \E s \in Steps : Skipped(s)
  <2>1. PICK s \in Steps : Skipped(s)
    BY <1>1
  <2>2. Moves(s, "err") /\ fs' = fs /\ held' = held
    BY <2>1 DEF Skipped, Moves
  <2>3. Changes(s, "err")
    BY <2>2, NothingChanges
  <2> QED BY <2>3
<1>2. CASE StepStartHTTPServer \/ StepStartNetboot
  <2>1. PICK s \in Background, how \in {"serving", "err"} : Starts(s) /\ Ends(s, how) /\ fs' = fs /\ held' = held
    BY <1>2 DEF StepStartHTTPServer, StepStartNetboot, StartServer, Background
  <2>2. Moves(s, how)
    BY <2>1 DEF Moves, Outcomes, Background, Conversions, Steps
  <2>3. Changes(s, how)
    BY <2>1, <2>2, NothingChanges
  <2> QED BY <2>3
<1>3. CASE \E s \in Background : ServerDies(s)
  <2>1. PICK s \in Background : ServerDies(s)
    BY <1>3
  <2>2. Moves(s, "err") /\ fs' = fs /\ held' = held
    BY <2>1 DEF ServerDies, Moves, Background, Steps
  <2>3. Changes(s, "err")
    BY <2>2, NothingChanges
  <2> QED BY <2>3
<1>4. CASE StepConvertGCE \/ StepConvertVHD \/ StepConvertMAAS
  <2>1. CASE status["gce"] = "run" /\ Found("gce") = NoDisk /\ GcePack
    BY <2>1 DEF GcePack
  <2> QED BY <1>4, <2>1, ConvertChanges
<1>5. CASE StepGenRawDisk \/ StepGenMBRRawDisk
  BY <1>5, RawChanges DEF StepGenRawDisk, StepGenMBRRawDisk
<1>6. CASE \/ PrepDirs \/ StepCopyCloudConfig \/ StepDumpSource \/ StepGenISO
           \/ StepDownloadISO \/ StepExtractNetboot \/ StepInjectCC
  BY <1>6, PrepChanges, DumpChanges, CopyChanges, ImageChanges, ExtractChanges
<1> QED BY <1>1, <1>2, <1>3, <1>4, <1>5, <1>6 DEF PipeNext, Run

(***************************************************************************)
(* Those changes keep types and sources.                                   *)
(***************************************************************************)
LEMMA RecordsOf ==
    /\ \A r \in DiskContents : r.boot \in {"none", "blank", "efi", "bios", "old"}
         /\ r.cc \in {"none", "old", "empty", "new"} /\ r.whole \in BOOLEAN
    /\ \A b \in {"none", "blank", "efi", "bios", "old"}, t \in {"none", "old", "empty", "new"}, w \in BOOLEAN :
         [boot |-> b, cc |-> t, whole |-> w] \in DiskContents
    /\ \A r \in DiskContents, w \in BOOLEAN : [r EXCEPT !.whole = w] \in DiskContents
    /\ \A r \in ISOContents : r.src \in {"none", "old", "partial", "new"} /\ r.cc \in {"none", "old", "empty", "new"}
    /\ \A u \in {"none", "old", "partial", "new"}, t \in {"none", "old", "empty", "new"} :
         [src |-> u, cc |-> t] \in ISOContents
    /\ \A r \in ISOContents, t \in {"none", "old", "empty", "new"} : [r EXCEPT !.cc = t] \in ISOContents
    /\ NoDisk \in DiskContents /\ BlankDisk \in DiskContents
BY DEF DiskContents, ISOContents, NoDisk, BlankDisk

LEMMA NamesOf ==
    /\ getIsoFile \in ISONames
    /\ Places = {"set", "early", "late"} /\ \A c : tmpRootFs(c, "late") \in Places /\ tmpRootFs(c, "early") \in Places
    /\ \A c \in Config : c.cloud \in {"empty", "new"} /\ c.image \in BOOLEAN /\ c.prefix \in {"unset", "kairos", "named"}
    /\ cfg \in Config => NetbootPrefix \in {"kairos", "named"}
BY DEF getIsoFile, ISONames, Places, tmpRootFs, Config, NetbootPrefix

LEMMA Replaced ==
    ASSUME NEW A, NEW B, NEW f \in [A -> B], NEW a, NEW b \in B PROVE [f EXCEPT ![a] = b] \in [A -> B]
OBVIOUS

LEMMA TypesKept ==
    ASSUME Typed, GraphGood, NEW s, NEW how, Changes(s, how),
           \A k \in Conversions : status[k] \in {"glob", "run"} => held[k] \in RawNames
    PROVE  PipeTypeOK'
<1>1. /\ cfg' = cfg /\ cfg \in Config /\ result' = result /\ how \in Outcomes(s) /\ s \in Steps
  BY Movers DEF Changes, GraphGood, Moves
<1>2. status' \in [Steps -> {"unregistered", "off", "wait", "glob", "run", "ok", "err", "serving"}]
  <2>1. how \in {"glob", "run", "ok", "err", "serving"}
    BY <1>1 DEF Outcomes
  <2>2. status' = [status EXCEPT ![s] = how]
    BY DEF Changes, Moves, Ends
  <2> QED BY <2>1, <2>2 DEF Typed, PipeTypeOK
<1>3. fs'.root \in [Places -> {"absent", "empty", "partial", "full"}]
  <2>1. fs.root \in [Places -> {"absent", "empty", "partial", "full"}]
    BY DEF Typed, PipeTypeOK, Places
  <2>2. PICK to \in {"absent", "empty", "partial", "full"} :
          fs'.root = fs.root \/ fs'.root = [fs.root EXCEPT ![tmpRootFs(cfg, "late")] = to]
    BY DEF Changes, RootMoves
  <2> QED BY <2>1, <2>2
<1>4. fs'.cc \in {"none", "old", "empty", "new"}
  BY <1>1, NamesOf DEF Changes, ConfigMoves, Typed, PipeTypeOK
<1>5. fs'.iso \in [ISONames -> ISOContents]
  <2>1. fs.iso \in [ISONames -> ISOContents] /\ fs.cc \in {"none", "old", "empty", "new"}
    BY DEF Typed, PipeTypeOK
  <2>2. CASE fs'.iso = fs.iso
    BY <2>1, <2>2
  <2>3. CASE \E src \in {"partial", "new"}, n \in ISONames, text \in {fs.cc, "none"} :
               fs'.iso = [fs.iso EXCEPT ![n] = [src |-> src, cc |-> text]]
    <3>1. PICK src \in {"partial", "new"}, n \in ISONames, text \in {fs.cc, "none"} :
               fs'.iso = [fs.iso EXCEPT ![n] = [src |-> src, cc |-> text]]
      BY <2>3
    <3> DEFINE made == [src |-> src, cc |-> text]
    <3>2. made \in ISOContents
      BY <2>1, RecordsOf
    <3> HIDE DEF made
    <3>3. fs'.iso = [fs.iso EXCEPT ![n] = made]
      BY <3>1 DEF made
    <3> QED BY <2>1, <3>2, <3>3
  <2>4. CASE fs'.iso = [fs.iso EXCEPT ![getIsoFile].cc = fs.cc]
    <3> DEFINE n == getIsoFile
               made == [fs.iso[n] EXCEPT !.cc = fs.cc]
    <3>1. n \in ISONames
      BY NamesOf
    <3> HIDE DEF n
    <3>2. made \in ISOContents
      BY <2>1, <3>1, RecordsOf
    <3>3. fs'.iso = [fs.iso EXCEPT ![n] = made]
      BY <2>4 DEF n
    <3> HIDE DEF made
    <3> QED BY <2>1, <3>1, <3>2, <3>3
  <2>5. CASE fs'.iso = [fs.iso EXCEPT !["named.iso"] = NoISO]
    <3>1. NoISO \in ISOContents
      BY RecordsOf DEF NoISO
    <3> QED BY <2>1, <2>5, <3>1, Replaced
  <2> QED BY <2>2, <2>3, <2>4, <2>5, NamesOf DEF Changes, ImageMoves, ISONames
<1>6. fs'.net \in [src : {"none", "old", "partial", "new"}, prefix : {"kairos", "named"}]
  <2>1. fs.net \in [src : {"none", "old", "partial", "new"}, prefix : {"kairos", "named"}]
        /\ fs.iso[getIsoFile].src \in {"none", "old", "partial", "new"}
    BY NamesOf, RecordsOf DEF Typed, PipeTypeOK
  <2>2. CASE fs'.net = fs.net
    BY <2>1, <2>2
  <2>3. CASE \E to \in {"none", "partial"} : fs'.net = [fs.net EXCEPT !.src = to]
    BY <2>1, <2>3
  <2>4. CASE fs'.net = [src |-> fs.iso[getIsoFile].src, prefix |-> NetbootPrefix]
    BY <1>1, <2>1, <2>4, NamesOf
  <2> QED BY <2>2, <2>3, <2>4 DEF Changes, NetMoves
<1>7. /\ fs'.raw \in [RawNames -> DiskContents] /\ fs'.out \in [Conversions \union {"parts"} -> DiskContents]
      /\ held' \in [Conversions -> RawNames \union {"none"}]
  <2>1. /\ fs.raw \in [RawNames -> DiskContents] /\ fs.out \in [Conversions \union {"parts"} -> DiskContents]
        /\ held \in [Conversions -> RawNames \union {"none"}] /\ fs.cc \in {"none", "old", "empty", "new"}
    BY DEF Typed, PipeTypeOK
  <2>0. NoDisk \in DiskContents /\ BlankDisk \in DiskContents
    BY RecordsOf
  <2>2. CASE DisksStay(s, how)
    BY <2>1, <2>2 DEF DisksStay
  <2>3. CASE DiskMade(s, how)
    <3> DEFINE root == fs.root[tmpRootFs(cfg, "early")]
               disk == [boot |-> s, cc |-> fs.cc, whole |-> root = "full"]
    <3>1. disk \in DiskContents
      <4>1. s \in {"efi", "bios"} /\ (root = "full") \in BOOLEAN
        BY <2>3 DEF DiskMade
      <4> HIDE DEF root
      <4> QED BY <2>1, <4>1, RecordsOf
    <3>2. held' = held /\ ((fs'.raw = fs.raw /\ fs'.out = [fs.out EXCEPT !["parts"] = disk])
                           \/ (fs'.raw = [fs.raw EXCEPT !["this"] = disk] /\ fs'.out = fs.out))
      BY <2>3 DEF DiskMade
    <3> HIDE DEF disk
    <3> QED BY <2>1, <3>1, <3>2
  <2>4. CASE DiskFinished(s, how)
    <3> DEFINE whole == fs.raw["this"].whole /\ fs.raw["this"].boot = s
               disk == [fs.raw["this"] EXCEPT !.whole = whole]
    <3>1. disk \in DiskContents
      <4>1. whole \in BOOLEAN /\ fs.raw["this"] \in DiskContents
        BY <2>1 DEF RawNames
      <4> HIDE DEF whole
      <4> QED BY <4>1, RecordsOf
    <3>2. held' = held /\ fs'.out = fs.out /\ \E d \in {disk, NoDisk} : fs'.raw = [fs.raw EXCEPT !["this"] = d]
      BY <2>4 DEF DiskFinished
    <3> HIDE DEF disk
    <3>3. PICK d \in DiskContents : fs'.raw = [fs.raw EXCEPT !["this"] = d]
      BY <2>0, <3>1, <3>2
    <3>4. fs'.raw \in [RawNames -> DiskContents]
      BY <2>1, <3>3, Replaced
    <3> QED BY <2>1, <3>2, <3>4
  <2>5. CASE DiskFound(s, how)
    BY <2>1, <2>5 DEF DiskFound
  <2>6. CASE DiskGrown(s, how)
    BY <2>0, <2>1, <2>6 DEF DiskGrown
  <2>7. CASE DiskConverted(s, how)
    <3>1. Found(s) \in DiskContents
      BY <2>1, <2>7 DEF DiskConverted, Found
    <3>2. /\ held' = held /\ fs'.out = [fs.out EXCEPT ![s] = Found(s)]
          /\ fs'.raw = fs.raw \/ fs'.raw = [fs.raw EXCEPT ![held[s]] = NoDisk]
      BY <2>7 DEF DiskConverted
    <3>3. fs'.out \in [Conversions \union {"parts"} -> DiskContents]
      BY <2>1, <3>1, <3>2, Replaced
    <3>4. fs'.raw \in [RawNames -> DiskContents]
      BY <2>0, <2>1, <3>2, Replaced
    <3> QED BY <2>1, <3>2, <3>3, <3>4
  <2>8. CASE DiskCompressed(s, how)
    <3>1. PICK whole \in {fs.out["maas"].whole, FALSE} : fs'.out = [fs.out EXCEPT !["maas"].whole = whole]
      BY <2>8 DEF DiskCompressed
    <3> DEFINE disk == [fs.out["maas"] EXCEPT !.whole = whole]
    <3>2. disk \in DiskContents
      BY <2>1, RecordsOf DEF Conversions
    <3>3. fs'.out = [fs.out EXCEPT !["maas"] = disk] /\ held' = held /\ fs'.raw = fs.raw
      BY <2>8, <3>1 DEF DiskCompressed
    <3> HIDE DEF disk
    <3>4. fs'.out \in [Conversions \union {"parts"} -> DiskContents]
      BY <2>1, <3>2, <3>3, Replaced
    <3> QED BY <2>1, <3>3, <3>4
  <2> QED BY <2>2, <2>3, <2>4, <2>5, <2>6, <2>7, <2>8 DEF Changes, DiskMoves
<1> QED BY <1>1, <1>2, <1>3, <1>4, <1>5, <1>6, <1>7 DEF PipeTypeOK, Typed, Places

PipeAll == Typed /\ GraphGood /\ PipeGood /\ SourcesInv /\ ImageInv /\ DisksInv

\* What has begun rests on steps that have succeeded.
LEMMA RestsOn ==
    ASSUME GraphGood, NEW s \in Registered(cfg),
           \A d \in Deps(cfg)[s] : status[d] \in {"ok", "off"}
    PROVE  /\ "cc" \in Deps(cfg)[s] => status["cc"] = "ok"
           /\ "prep" \in Deps(cfg)[s] => status["prep"] = "ok"
           /\ \A d \in Deps(cfg)[s] : d \in Registered(cfg) /\ (d \in Enabled(cfg) => status[d] = "ok")
<1>1. \A d \in Deps(cfg)[s] : d \in Registered(cfg)
  BY LevelsOf DEF GraphGood
<1>2. \A d \in Enabled(cfg) : status[d] # "off"
  BY StepsOf DEF GraphGood, GraphInv, Outcomes
<1> QED BY <1>1, <1>2, StepsOf

LEMMA SourcesKept ==
    ASSUME PipeAll, NEW s, NEW how, Changes(s, how) PROVE SourcesInv'
<1> DEFINE dir == tmpRootFs(cfg, "late")
<1>1. /\ s \in Steps /\ s \in Registered(cfg) /\ cfg' = cfg /\ cfg \in Config
      /\ ~Cleaned /\ ~Cleaned' /\ status'[s] = how
      /\ \A t \in Steps : t # s => status'[t] = status[t]
      /\ status[s] \in {"wait", "glob", "run", "serving"}
  BY Movers DEF Changes, Moves, PipeAll, GraphGood, Cleaned
<1>2. dir \in Places /\ dir = tmpRootFs(cfg', "late") /\ DOMAIN fs.root = Places
  BY <1>1, NamesOf DEF PipeAll, PipeGood, IsFs, Typed
<1>3. {"prep", "cc", "dump"} \subseteq Steps
  BY DEF Steps
<1>4. /\ fs.root[dir] \in {"partial", "full"} => status["dump"] \in {"run", "ok", "err"}
      /\ status["dump"] = "ok" => fs.root[dir] = "full"
      /\ status["cc"] = "ok" => fs.cc = cfg.cloud
  BY <1>1 DEF PipeAll, SourcesInv
<1>5. status'["cc"] = "ok" => fs'.cc = cfg'.cloud
  BY <1>1, <1>3, <1>4 DEF Changes, ConfigMoves
<1>6. s = "prep" => status["dump"] # "ok"
  <2> SUFFICES ASSUME s = "prep", status["dump"] = "ok" PROVE FALSE
    OBVIOUS
  <2>1. "dump" \in Registered(cfg)
    BY StepsOf
  <2>2. Deps(cfg)["dump"] = {"prep"}
    BY <1>1, <2>1, DepsOf
  <2>3. status["prep"] \in {"ok", "off"}
    BY <2>1, <2>2 DEF PipeAll, GraphGood, GraphInv, Begun
  <2> QED BY <1>1, <2>3
<1>7. /\ fs'.root[dir] \in {"partial", "full"} => status'["dump"] \in {"run", "ok", "err"}
      /\ status'["dump"] = "ok" => fs'.root[dir] = "full"
  <2> HIDE DEF dir
  <2>1. CASE fs'.root = fs.root /\ (s = "dump" => how = "err")
    BY <1>1, <1>3, <1>4, <2>1
  <2>2. CASE s = "prep" /\ \E to \in {"absent", "empty"} : fs'.root = [fs.root EXCEPT ![dir] = to]
    BY <1>1, <1>2, <1>3, <1>6, <2>2
  <2>3. CASE s = "dump" /\ ((how = "run" /\ fs'.root = [fs.root EXCEPT ![dir] = "partial"])
                            \/ (how = "ok" /\ fs'.root = [fs.root EXCEPT ![dir] = "full"]))
    BY <1>1, <1>2, <2>3
  <2> QED BY <2>1, <2>2, <2>3 DEF Changes, RootMoves, dir
<1> QED BY <1>1, <1>2, <1>5, <1>7 DEF SourcesInv

(***************************************************************************)
(* What they do to the ISOs and the netboot files.                         *)
(***************************************************************************)
LEMMA SameIsoFile ==
    ASSUME \A n \in ISONames : fs'.iso[n] = NoISO <=> fs.iso[n] = NoISO PROVE getIsoFile' = getIsoFile
<1>1. {n \in ISONames : fs'.iso[n] # NoISO} = {n \in ISONames : fs.iso[n] # NoISO}
  OBVIOUS
<1> QED BY <1>1 DEF getIsoFile

\* What a step that moves finds, and what of the ISO steps it leaves as it was.
LEMMA ImageFacts ==
    ASSUME PipeAll, NEW s, NEW how, Changes(s, how)
    PROVE  /\ s \in Steps /\ s \in Registered(cfg) /\ s \in Enabled(cfg) /\ cfg' = cfg /\ cfg \in Config
           /\ ~Cleaned /\ status'[s] = how /\ \A t \in Steps : t # s => status'[t] = status[t]
           /\ status[s] \in {"wait", "glob", "run", "serving"}
           /\ how # "err" => \A d \in Deps(cfg)[s] : d \in Enabled(cfg) => status[d] = "ok"
           /\ how # "err" /\ "cc" \in Deps(cfg)[s] => fs.cc = cfg.cloud
           /\ {"genISO", "download", "inject", "extract", "prep", "cc", "dump"} \subseteq Steps
           /\ getIsoFile \in ISONames /\ fs.iso \in [ISONames -> ISOContents]
<1>1. /\ s \in Steps /\ s \in Registered(cfg) /\ s \in Enabled(cfg) /\ cfg' = cfg /\ cfg \in Config /\ ~Cleaned
      /\ status'[s] = how /\ \A t \in Steps : t # s => status'[t] = status[t]
      /\ status[s] \in {"wait", "glob", "run", "serving"}
      /\ how # "err" => \A d \in Deps(cfg)[s] : status[d] \in {"ok", "off"}
  BY Movers DEF Changes, Moves, PipeAll, GraphGood, Cleaned
<1>2. how # "err" => /\ \A d \in Deps(cfg)[s] : d \in Enabled(cfg) => status[d] = "ok"
                     /\ "cc" \in Deps(cfg)[s] => status["cc"] = "ok"
  BY <1>1, RestsOn DEF PipeAll
<1>3. status["cc"] = "ok" => fs.cc = cfg.cloud
  BY <1>1 DEF PipeAll, SourcesInv
<1>4. getIsoFile \in ISONames /\ fs.iso \in [ISONames -> ISOContents]
  BY NamesOf DEF PipeAll, Typed, PipeTypeOK
<1> QED BY <1>1, <1>2, <1>3, <1>4 DEF Steps

\* ImageInv for the ISOs and for the netboot files.
IsoPart ==
    /\ status["genISO"] = "ok" => fs.iso["named.iso"] = [src |-> "new", cc |-> cfg.cloud]
    /\ status["download"] = "ok" =>
         /\ fs.iso[getIsoFile].src = "new" /\ fs.iso[getIsoFile].cc \in {"none", cfg.cloud}
         /\ cfg.cloud = "empty" => fs.iso[getIsoFile].cc = "none"
         /\ cfg.cloud = "new" /\ status["inject"] = "ok" => fs.iso[getIsoFile].cc = "new"
    /\ \A n \in ISONames : fs.iso[n].src = "new" =>
         \/ status["genISO"] = "ok" /\ n = "named.iso"
         \/ status["download"] = "ok" /\ n = getIsoFile
    /\ fromImage(cfg) /\ "kairos.iso" \notin cfg.oldISO => fs.iso["kairos.iso"] = NoISO
NetPart ==
    status["extract"] = "ok" /\ NamedKairos(cfg) /\ ~Cleaned => fs.net = [src |-> "new", prefix |-> "kairos"]

LEMMA ImageParts == ImageInv <=> IsoPart /\ NetPart
BY DEF ImageInv, IsoPart, NetPart

\* The steps on ISOs are of one of two kinds of build.
LEMMA ImageKinds ==
    ASSUME GraphGood
    PROVE  /\ status["genISO"] # "unregistered" /\ status["genISO"] # "off" =>
                cfg.image /\ status["download"] \in {"unregistered", "off"} /\ status["inject"] \in {"unregistered", "off"}
           /\ (status["download"] \notin {"unregistered", "off"} \/ status["inject"] \notin {"unregistered", "off"}) =>
                ~cfg.image /\ status["genISO"] \in {"unregistered", "off"}
<1>1. \A t \in Steps : status[t] \notin {"unregistered", "off"} => t \in Registered(cfg) /\ t \in Enabled(cfg)
  BY DEF GraphGood, GraphInv
<1>2. {"genISO", "download", "inject"} \subseteq Steps
  BY DEF Steps
<1>3. "genISO" \in Registered(cfg) => ("genISO" \in Enabled(cfg) => cfg.image)
  BY EnabledOf
<1>4. "download" \in Registered(cfg) => ("download" \in Enabled(cfg) => ~cfg.image)
  BY EnabledOf
<1>5. "inject" \in Registered(cfg) => ("inject" \in Enabled(cfg) => ~cfg.image)
  BY EnabledOf
<1> QED BY <1>1, <1>2, <1>3, <1>4, <1>5

LEMMA IsosKept ==
    ASSUME PipeAll, NEW s, NEW how, Changes(s, how) PROVE IsoPart'
<1> DEFINE g == getIsoFile
<1>1. /\ s \in Steps /\ s \in Registered(cfg) /\ s \in Enabled(cfg) /\ cfg' = cfg /\ cfg \in Config
      /\ ~Cleaned /\ status'[s] = how /\ \A t \in Steps : t # s => status'[t] = status[t]
      /\ status[s] \in {"wait", "glob", "run", "serving"}
      /\ how # "err" => \A d \in Deps(cfg)[s] : d \in Enabled(cfg) => status[d] = "ok"
      /\ how # "err" /\ "cc" \in Deps(cfg)[s] => fs.cc = cfg.cloud
      /\ {"genISO", "download", "inject", "extract", "prep", "cc", "dump"} \subseteq Steps
      /\ g \in ISONames /\ fs.iso \in [ISONames -> ISOContents]
  BY ImageFacts
<1>2. IsoPart
  BY ImageParts DEF PipeAll
<1>3. /\ status["genISO"] \notin {"unregistered", "off"} =>
           cfg.image /\ status["download"] \in {"unregistered", "off"} /\ status["inject"] \in {"unregistered", "off"}
      /\ (status["download"] \notin {"unregistered", "off"} \/ status["inject"] \notin {"unregistered", "off"}) =>
           ~cfg.image /\ status["genISO"] \in {"unregistered", "off"}
  BY ImageKinds DEF PipeAll
<1>4. NoISO.src = "none" /\ ISONames = {"kairos.iso", "named.iso"}
  BY DEF NoISO, ISONames
<1>5. CASE fs'.iso = fs.iso /\ (s \in {"genISO", "download", "inject"} =>
                                  how = "err" \/ (s = "inject" /\ fs.cc \in {"none", "empty"}))
  <2>1. getIsoFile' = g
    BY <1>5, SameIsoFile
  <2>2. status'["genISO"] = "ok" <=> status["genISO"] = "ok"
    BY <1>1, <1>5
  <2>3. status'["download"] = "ok" <=> status["download"] = "ok"
    BY <1>1, <1>5
  <2>4. status'["inject"] = "ok" /\ status["inject"] # "ok" => cfg.cloud # "new"
    <3> SUFFICES ASSUME status'["inject"] = "ok", status["inject"] # "ok" PROVE cfg.cloud # "new"
      OBVIOUS
    <3>1. s = "inject" /\ how = "ok" /\ fs.cc \in {"none", "empty"}
      BY <1>1, <1>5
    <3>2. "cc" \in Deps(cfg)["inject"]
      BY <1>1, <3>1, DepsOf
    <3> QED BY <1>1, <3>1, <3>2
  <2> HIDE DEF g
  <2>5. fs'.iso = fs.iso
    BY <1>5
  <2>6. /\ status'["genISO"] = "ok" => fs'.iso["named.iso"] = [src |-> "new", cc |-> cfg'.cloud]
        /\ fromImage(cfg') /\ "kairos.iso" \notin cfg'.oldISO => fs'.iso["kairos.iso"] = NoISO
    BY <1>1, <1>2, <2>2, <2>5 DEF IsoPart
  <2>7. status'["download"] = "ok" =>
          /\ fs'.iso[g].src = "new" /\ fs'.iso[g].cc \in {"none", cfg'.cloud}
          /\ cfg'.cloud = "empty" => fs'.iso[g].cc = "none"
          /\ cfg'.cloud = "new" /\ status'["inject"] = "ok" => fs'.iso[g].cc = "new"
    BY <1>1, <1>2, <2>3, <2>4, <2>5 DEF IsoPart, g
  <2>8. \A n \in ISONames : fs'.iso[n].src = "new" =>
          \/ status'["genISO"] = "ok" /\ n = "named.iso"
          \/ status'["download"] = "ok" /\ n = g
    BY <1>2, <2>2, <2>3, <2>5 DEF IsoPart, g
  <2> QED BY <2>1, <2>6, <2>7, <2>8 DEF IsoPart
<1>6. ASSUME NEW src \in {"partial", "new"}, s = "genISO", how = "ok",
             fs.root[tmpRootFs(cfg, "late")] = "full" => src = "new",
             fs'.iso = [fs.iso EXCEPT !["named.iso"] = [src |-> src, cc |-> fs.cc]]
      PROVE  IsoPart'
  <2>1. Deps(cfg)["genISO"] = {"dump", "cc", "prep"} /\ cfg.image
    BY <1>1, <1>6, DepsOf, EnabledOf
  <2>2. "dump" \in Enabled(cfg)
    BY <2>1, StepsOf, EnabledOf
  <2>3. status["dump"] = "ok" /\ fs.cc = cfg.cloud
    BY <1>1, <1>6, <2>1, <2>2
  <2>4. src = "new"
    BY <1>1, <1>6, <2>3 DEF PipeAll, SourcesInv
  <2>5. fs'.iso["named.iso"] = [src |-> "new", cc |-> cfg.cloud] /\ fs'.iso["kairos.iso"] = fs.iso["kairos.iso"]
    <3> DEFINE made == [src |-> src, cc |-> fs.cc]
    <3>1. made = [src |-> "new", cc |-> cfg.cloud]
      BY <2>3, <2>4
    <3> HIDE DEF made
    <3>2. fs'.iso = [fs.iso EXCEPT !["named.iso"] = made]
      BY <1>6 DEF made
    <3> QED BY <1>1, <1>4, <3>1, <3>2
  <2>6. status["download"] \in {"unregistered", "off"} /\ status'["download"] # "ok" /\ status["genISO"] # "ok"
    BY <1>1, <1>3, <1>6
  <2>7. fs'.iso["kairos.iso"].src # "new"
    BY <1>2, <1>4, <2>5, <2>6 DEF IsoPart
  <2>8. /\ status'["genISO"] = "ok" => fs'.iso["named.iso"] = [src |-> "new", cc |-> cfg'.cloud]
        /\ fromImage(cfg') /\ "kairos.iso" \notin cfg'.oldISO => fs'.iso["kairos.iso"] = NoISO
    BY <1>1, <1>2, <2>5 DEF IsoPart
  <2>9. \A n \in ISONames : fs'.iso[n].src = "new" => status'["genISO"] = "ok" /\ n = "named.iso"
    BY <1>1, <1>4, <1>6, <2>7
  <2> QED BY <2>6, <2>8, <2>9 DEF IsoPart
<1>7. ASSUME NEW src \in {"partial", "new"}, s = "download", how = (IF src = "new" THEN "ok" ELSE "err"),
             fs'.iso = [fs.iso EXCEPT ![g] = [src |-> src, cc |-> "none"]]
      PROVE  IsoPart'
  <2> DEFINE made == [src |-> src, cc |-> "none"]
  <2>1. made.src = src /\ made.cc = "none" /\ made # NoISO
    BY DEF NoISO
  <2> HIDE DEF made
  <2>2. fs'.iso[g] = made /\ \A n \in ISONames : n # g => fs'.iso[n] = fs.iso[n]
    <3>1. fs'.iso = [fs.iso EXCEPT ![g] = made]
      BY <1>7 DEF made
    <3> HIDE DEF g
    <3> QED BY <1>1, <3>1
  <2>3. status["download"] \notin {"unregistered", "off", "ok"}
    BY <1>1, <1>7
  <2>4. ~cfg.image /\ status["genISO"] \in {"unregistered", "off"} /\ status'["genISO"] # "ok"
    BY <1>1, <1>3, <1>7, <2>3
  <2>5. status'["inject"] # "ok"
    <3>1. status'["inject"] = status["inject"]
      BY <1>1, <1>7
    <3>2. ASSUME status["inject"] = "ok" PROVE FALSE
      <4>1. "inject" \in Registered(cfg)
        BY <1>1, <3>2 DEF PipeAll, GraphGood, GraphInv, Outcomes
      <4>2. "download" \in Deps(cfg)["inject"]
        BY <1>1, <2>4, <4>1, DepsOf
      <4>3. status["download"] \in {"ok", "off"}
        BY <3>2, <4>1, <4>2 DEF PipeAll, GraphGood, GraphInv, Begun
      <4> QED BY <2>3, <4>3
    <3> QED BY <3>1, <3>2
  <2>6. getIsoFile' = g
    <3>1. CASE fs.iso["kairos.iso"] # NoISO
      <4>1. g = "kairos.iso"
        BY <1>4, <3>1 DEF getIsoFile
      <4>2. \A n \in ISONames : fs'.iso[n] = NoISO <=> fs.iso[n] = NoISO
        BY <2>1, <2>2, <3>1, <4>1
      <4> QED BY <4>2, SameIsoFile
    <3>2. CASE fs.iso["kairos.iso"] = NoISO /\ fs.iso["named.iso"] # NoISO
      <4>1. g = "named.iso"
        BY <1>4, <3>2 DEF getIsoFile
      <4>2. \A n \in ISONames : fs'.iso[n] = NoISO <=> fs.iso[n] = NoISO
        BY <2>1, <2>2, <3>2, <4>1
      <4> QED BY <4>2, SameIsoFile
    <3>3. CASE fs.iso["kairos.iso"] = NoISO /\ fs.iso["named.iso"] = NoISO
      <4>1. g = "kairos.iso"
        <5>1. {n \in ISONames : fs.iso[n] # NoISO} = {}
          BY <1>4, <3>3
        <5> QED BY <5>1 DEF getIsoFile
      <4>2. fs'.iso["kairos.iso"] # NoISO
        BY <2>1, <2>2, <4>1
      <4>3. "kairos.iso" \in {n \in ISONames : fs'.iso[n] # NoISO}
        BY <1>4, <4>2
      <4>4. getIsoFile' = "kairos.iso"
        BY <4>3 DEF getIsoFile
      <4> QED BY <4>1, <4>4
    <3> QED BY <3>1, <3>2, <3>3
  <2> HIDE DEF g
  <2>7. status'["download"] = "ok" =>
          /\ fs'.iso[g].src = "new" /\ fs'.iso[g].cc \in {"none", cfg'.cloud}
          /\ cfg'.cloud = "empty" => fs'.iso[g].cc = "none"
    BY <1>1, <1>7, <2>1, <2>2
  <2>8. \A n \in ISONames : fs'.iso[n].src = "new" => status'["download"] = "ok" /\ n = g
    <3>1. \A n \in ISONames : fs.iso[n].src # "new"
      BY <1>2, <2>3, <2>4 DEF IsoPart
    <3> QED BY <1>1, <1>7, <2>1, <2>2, <3>1
  <2>9. ~fromImage(cfg')
    BY <1>1, <2>4 DEF fromImage
  <2> QED BY <2>4, <2>5, <2>6, <2>7, <2>8, <2>9 DEF IsoPart
<1>8. ASSUME s = "inject", how = "ok", fs.cc \notin {"none", "empty"}, fs.iso[g] # NoISO,
             fs'.iso = [fs.iso EXCEPT ![g].cc = fs.cc]
      PROVE  IsoPart'
  <2>1. ~cfg.image /\ cfg.disks = {} /\ status["genISO"] \in {"unregistered", "off"} /\ status'["genISO"] # "ok"
    BY <1>1, <1>3, <1>8, EnabledOf
  <2>2. Deps(cfg)["inject"] = {"cc", "download"}
    BY <1>1, <1>8, <2>1, DepsOf
  <2>3. "download" \in Enabled(cfg)
    <3>1. "download" \in Registered(cfg)
      BY <1>1, <1>8, <2>2, LevelsOf
    <3> QED BY <2>1, <3>1, EnabledOf
  <2>4. status["download"] = "ok" /\ fs.cc = cfg.cloud /\ cfg.cloud = "new"
    <3>1. cfg.cloud \in {"empty", "new"}
      BY <1>1, NamesOf
    <3> QED BY <1>1, <1>8, <2>2, <2>3, <3>1
  <2>5. status'["download"] = "ok"
    BY <1>1, <1>8, <2>4
  <2>6. /\ fs'.iso[g].src = fs.iso[g].src /\ fs'.iso[g].cc = "new"
        /\ \A n \in ISONames : n # g => fs'.iso[n] = fs.iso[n]
    <3> HIDE DEF g
    <3> DEFINE made == [fs.iso[g] EXCEPT !.cc = fs.cc]
    <3>1. fs.iso[g] \in ISOContents
      BY <1>1
    <3>2. made.src = fs.iso[g].src /\ made.cc = "new"
      BY <2>4, <3>1 DEF ISOContents
    <3>3. fs'.iso = [fs.iso EXCEPT ![g] = made]
      BY <1>8
    <3> HIDE DEF made
    <3> QED BY <1>1, <3>2, <3>3
  <2>7. fs.iso[g].src = "new"
    BY <1>2, <2>4 DEF IsoPart
  <2>8. getIsoFile' = g
    <3>1. \A n \in ISONames : fs'.iso[n] = NoISO <=> fs.iso[n] = NoISO
      BY <1>4, <2>6, <2>7
    <3> QED BY <3>1, SameIsoFile
  <2>9. \A n \in ISONames : fs.iso[n].src = "new" => n = g
    BY <1>2, <2>1 DEF IsoPart
  <2> HIDE DEF g
  <2>10. \A n \in ISONames : fs'.iso[n].src = "new" => n = g
    BY <2>6, <2>9
  <2>11. ~fromImage(cfg') /\ cfg'.cloud = "new"
    BY <1>1, <2>1, <2>4 DEF fromImage
  <2> QED BY <2>1, <2>5, <2>6, <2>7, <2>8, <2>10, <2>11 DEF IsoPart
<1>9. ASSUME s = "genISO", how = "err", NEW left \in {NoISO, [src |-> "partial", cc |-> "none"]},
             fs'.iso = [fs.iso EXCEPT !["named.iso"] = left]
      PROVE  IsoPart'
  <2>1. left.src # "new"
    BY DEF NoISO
  <2>2. fs'.iso["named.iso"] = left /\ fs'.iso["kairos.iso"] = fs.iso["kairos.iso"]
    BY <1>1, <1>4, <1>9
  <2>3. /\ status["genISO"] # "ok" /\ status'["genISO"] # "ok"
        /\ status["download"] # "ok" /\ status'["download"] # "ok"
    BY <1>1, <1>3, <1>9
  <2>4. \A n \in ISONames : fs'.iso[n].src # "new"
    BY <1>2, <1>4, <2>1, <2>2, <2>3 DEF IsoPart
  <2>5. fromImage(cfg') /\ "kairos.iso" \notin cfg'.oldISO => fs'.iso["kairos.iso"] = NoISO
    BY <1>1, <1>2, <2>2 DEF IsoPart
  <2> QED BY <2>3, <2>4, <2>5 DEF IsoPart
<1> QED BY <1>5, <1>6, <1>7, <1>8, <1>9 DEF Changes, ImageMoves

LEMMA NetKept ==
    ASSUME PipeAll, NEW s, NEW how, Changes(s, how) PROVE NetPart'
<1> DEFINE g == getIsoFile
<1>1. /\ s \in Steps /\ s \in Registered(cfg) /\ s \in Enabled(cfg) /\ cfg' = cfg /\ cfg \in Config
      /\ ~Cleaned /\ status'[s] = how /\ \A t \in Steps : t # s => status'[t] = status[t]
      /\ status[s] \in {"wait", "glob", "run", "serving"}
      /\ how # "err" => \A d \in Deps(cfg)[s] : d \in Enabled(cfg) => status[d] = "ok"
      /\ {"genISO", "download", "inject", "extract", "prep", "cc", "dump"} \subseteq Steps
  BY ImageFacts
<1>2. IsoPart /\ NetPart
  BY ImageParts DEF PipeAll
\* The step that makes the ISO is enabled where it is extracted.
<1>3. ASSUME "extract" \in Registered(cfg), "extract" \in Enabled(cfg)
      PROVE  \E d \in {"genISO", "download"} : /\ d = (IF cfg.image THEN "genISO" ELSE "download")
                                               /\ d \in Deps(cfg)["extract"] /\ d \in Enabled(cfg) /\ d \in Registered(cfg)
  <2>1. "netboot" \notin cfg.off /\ cfg.disks = {} /\ cfg.image \in BOOLEAN
    BY <1>1, <1>3, EnabledOf, NamesOf
  <2>2. Deps(cfg)["extract"] = IF cfg.image THEN {"genISO"} ELSE {"genISO", "download"}
    BY <1>1, <1>3, DepsOf
  <2>3. Deps(cfg)["extract"] \subseteq Registered(cfg)
    BY <1>1, <1>3, LevelsOf
  <2>4. CASE cfg.image
    <3>1. "genISO" \in Enabled(cfg)
      BY <2>1, <2>4, StepsOf, EnabledOf
    <3> QED BY <2>2, <2>3, <2>4, <3>1
  <2>5. CASE ~cfg.image
    <3>1. "download" \in Registered(cfg)
      BY <2>2, <2>3, <2>5
    <3>2. "download" \in Enabled(cfg)
      BY <2>1, <2>5, <3>1, EnabledOf
    <3> QED BY <2>2, <2>3, <2>5, <3>1, <3>2
  <2> QED BY <2>4, <2>5
<1>4. CASE fs'.net = fs.net /\ (s = "extract" => how = "err")
  BY <1>1, <1>2, <1>4 DEF NetPart
<1>5. CASE s = "prep"
  <2> SUFFICES ASSUME status["extract"] = "ok" PROVE FALSE
    BY <1>1, <1>5 DEF NetPart
  <2>1. "extract" \in Registered(cfg) /\ "extract" \in Enabled(cfg)
    BY <1>1 DEF PipeAll, GraphGood, GraphInv
  <2>2. PICK d \in {"genISO", "download"} : d \in Deps(cfg)["extract"] /\ d \in Enabled(cfg) /\ d \in Registered(cfg)
    BY <1>3, <2>1
  <2>3. status[d] = "ok"
    <3>1. status[d] \in {"ok", "off"}
      BY <2>1, <2>2 DEF PipeAll, GraphGood, GraphInv, Begun
    <3>2. status[d] # "off"
      BY <1>1, <2>2 DEF PipeAll, GraphGood, GraphInv, Outcomes
    <3> QED BY <3>1, <3>2
  <2>4. "prep" \in Deps(cfg)[d]
    BY <1>1, <2>2, DepsOf
  <2>5. status["prep"] \in {"ok", "off"}
    BY <2>2, <2>3, <2>4 DEF PipeAll, GraphGood, GraphInv, Begun
  <2> QED BY <1>1, <1>5, <2>5
<1>6. CASE s = "extract" /\ how = "ok" /\ fs'.net = [src |-> fs.iso[g].src, prefix |-> NetbootPrefix]
  <2> SUFFICES ASSUME NamedKairos(cfg) PROVE NetPart'
    BY <1>1 DEF NetPart
  <2>1. NetbootPrefix = "kairos"
    BY DEF NamedKairos, NetbootPrefix
  <2>2. fs.iso[g].src = "new"
    <3>1. PICK d \in {"genISO", "download"} :
            d = (IF cfg.image THEN "genISO" ELSE "download") /\ d \in Deps(cfg)["extract"] /\ d \in Enabled(cfg)
      BY <1>1, <1>3, <1>6
    <3>2. status[d] = "ok"
      BY <1>1, <1>6, <3>1
    <3>3. CASE d = "download"
      BY <1>2, <3>2, <3>3 DEF IsoPart
    <3>4. CASE d = "genISO"
      <4>1. cfg.image /\ "kairos.iso" \notin cfg.oldISO
        BY <3>1, <3>4 DEF NamedKairos, fromImage
      <4>2. fs.iso["kairos.iso"] = NoISO /\ fs.iso["named.iso"].src = "new"
        BY <1>2, <3>2, <3>4, <4>1 DEF IsoPart, fromImage
      <4>3. fs.iso["named.iso"] # NoISO
        BY <4>2 DEF NoISO
      <4>4. g = "named.iso"
        BY <4>2, <4>3 DEF getIsoFile, ISONames
      <4> QED BY <4>2, <4>4
    <3> QED BY <3>3, <3>4
  <2> QED BY <1>6, <2>1, <2>2 DEF NetPart
<1>7. CASE s = "extract" /\ how = "err"
  BY <1>1, <1>7 DEF NetPart
<1> QED BY <1>4, <1>5, <1>6, <1>7 DEF Changes, NetMoves

(***************************************************************************)
(* What they do to the raw disks and what is converted from them.          *)
(***************************************************************************)
\* What a step that moves finds.
LEMMA DiskFacts ==
    ASSUME PipeAll, NEW s, NEW how, Changes(s, how)
    PROVE  /\ s \in Steps /\ s \in Registered(cfg) /\ s \in Enabled(cfg) /\ cfg' = cfg /\ cfg \in Config
           /\ ~Cleaned /\ status'[s] = how /\ \A t \in Steps : t # s => status'[t] = status[t]
           /\ status[s] \in {"wait", "glob", "run", "serving"}
           /\ result \notin {"new", "rejected"}
           /\ \A t \in Steps : status[t] \notin {"unregistered", "off"} => t \in Registered(cfg) /\ t \in Enabled(cfg)
           /\ \A t \in Steps : status'[t] \notin {"unregistered", "off"} => t \in Registered(cfg) /\ t \in Enabled(cfg)
           /\ {"efi", "bios", "gce", "vhd", "maas", "cc", "dump"} \subseteq Steps
           /\ Conversions = {"gce", "vhd", "maas"} /\ RawNames = {"this", "other"}
           /\ fs.raw \in [RawNames -> DiskContents] /\ fs.out \in [Conversions \union {"parts"} -> DiskContents]
           /\ held \in [Conversions -> RawNames \union {"none"}]
<1>1. /\ s \in Steps /\ s \in Registered(cfg) /\ s \in Enabled(cfg) /\ cfg' = cfg /\ cfg \in Config
      /\ ~Cleaned /\ status'[s] = how /\ \A t \in Steps : t # s => status'[t] = status[t]
      /\ status[s] \in {"wait", "glob", "run", "serving"}
      /\ {"efi", "bios", "gce", "vhd", "maas", "cc", "dump"} \subseteq Steps
  BY ImageFacts DEF Steps
<1>2. result \notin {"new", "rejected"}
  BY Movers DEF Changes, PipeAll
<1>3. \A t \in Steps : status[t] \notin {"unregistered", "off"} => t \in Registered(cfg) /\ t \in Enabled(cfg)
  BY DEF PipeAll, GraphGood, GraphInv
<1>4. \A t \in Steps : status'[t] \notin {"unregistered", "off"} => t \in Registered(cfg) /\ t \in Enabled(cfg)
  BY <1>1, <1>3
<1>5. /\ fs.raw \in [RawNames -> DiskContents] /\ fs.out \in [Conversions \union {"parts"} -> DiskContents]
      /\ held \in [Conversions -> RawNames \union {"none"}]
  BY DEF PipeAll, Typed, PipeTypeOK
<1> QED BY <1>1, <1>2, <1>3, <1>4, <1>5 DEF Conversions, RawNames

\* A disk with this build's config still has it after a step.
StillMade(d) == d.boot \in {"efi", "bios"} => /\ status'["cc"] \in {"ok", "err"}
                                              /\ status'["cc"] = "ok" => d.cc = cfg'.cloud
LEMMA MadeStays ==
    ASSUME PipeAll, NEW s, NEW how, Changes(s, how), NEW d, Made(d) PROVE StillMade(d)
<1>1. /\ cfg' = cfg /\ status'[s] = how /\ \A t \in Steps : t # s => status'[t] = status[t]
      /\ status[s] \in {"wait", "glob", "run", "serving"} /\ "cc" \in Steps
  BY DiskFacts
<1> QED BY <1>1 DEF Made, StillMade

\* The disks a step makes, finds, converts and removes are made of this build's config.
MadePart ==
    /\ \A n \in RawNames : Made(fs.raw[n])
    /\ \A k \in Conversions \union {"parts"} : Made(fs.out[k])
    /\ \A k \in Conversions : status[k] \in {"glob", "run"} => held[k] \in RawNames
    /\ status["efi"] = "run" => "partitions" \notin cfg.disks

LEMMA MadesKept ==
    ASSUME PipeAll, NEW s, NEW how, Changes(s, how) PROVE MadePart'
<1>1. /\ s \in Steps /\ cfg' = cfg /\ cfg \in Config
      /\ ~Cleaned /\ status'[s] = how /\ \A t \in Steps : t # s => status'[t] = status[t]
      /\ status[s] \in {"wait", "glob", "run", "serving"}
      /\ {"efi", "bios", "gce", "vhd", "maas", "cc", "dump"} \subseteq Steps
      /\ Conversions = {"gce", "vhd", "maas"} /\ RawNames = {"this", "other"}
      /\ fs.raw \in [RawNames -> DiskContents] /\ fs.out \in [Conversions \union {"parts"} -> DiskContents]
      /\ held \in [Conversions -> RawNames \union {"none"}]
  BY DiskFacts
<1>2. MadePart
  BY DEF PipeAll, DisksInv, MadePart
<1>3. /\ \A n \in RawNames : StillMade(fs.raw[n])
      /\ \A k \in Conversions \union {"parts"} : StillMade(fs.out[k])
  BY <1>2, MadeStays DEF MadePart
<1>4. StillMade(NoDisk) /\ StillMade(BlankDisk)
  BY DEF StillMade, NoDisk, BlankDisk
<1>5. SUFFICES /\ \A n \in RawNames : StillMade(fs'.raw[n])
               /\ \A k \in Conversions \union {"parts"} : StillMade(fs'.out[k])
               /\ \A k \in Conversions : status'[k] \in {"glob", "run"} => held'[k] \in RawNames
               /\ status'["efi"] = "run" => "partitions" \notin cfg.disks
  BY <1>1 DEF MadePart, Made, StillMade
<1>6. CASE DisksStay(s, how)
  BY <1>1, <1>2, <1>3, <1>6 DEF DisksStay, MadePart
<1>7. CASE DiskMade(s, how)
  <2>1. PICK made : /\ made = [boot |-> s, cc |-> fs.cc, whole |-> fs.root[tmpRootFs(cfg, "early")] = "full"]
                    /\ IF s = "efi" /\ "partitions" \in cfg.disks
                       THEN how = "ok" /\ fs'.raw = fs.raw /\ fs'.out = [fs.out EXCEPT !["parts"] = made]
                       ELSE how = "run" /\ fs'.raw = [fs.raw EXCEPT !["this"] = made] /\ fs'.out = fs.out
    BY <1>7 DEF DiskMade
  <2>2. s \in {"efi", "bios"} /\ held' = held /\ how \in {"ok", "run"} /\ made.boot = s /\ made.cc = fs.cc
    BY <1>7, <2>1 DEF DiskMade
  <2>3. status'["cc"] \in {"ok", "err"}
    <3>1. GraphGood'
      BY MovesKeepGraph DEF PipeAll, Changes
    <3>2. {status'["efi"], status'["bios"]} \intersect Begun # {}
      BY <1>1, <2>2 DEF Begun
    <3> QED BY <3>1, <3>2 DEF GraphGood, GraphInv, Begun
  <2>4. status'["cc"] = "ok" => fs.cc = cfg'.cloud
    BY <1>1, <2>2 DEF PipeAll, SourcesInv
  <2>5. StillMade(made)
    BY <2>2, <2>3, <2>4 DEF StillMade
  <2> HIDE <2>3, <2>4
  <2>6. \A n \in RawNames : StillMade(fs'.raw[n])
    BY <1>1, <1>3, <2>1, <2>5
  <2>7. \A k \in Conversions \union {"parts"} : StillMade(fs'.out[k])
    BY <1>1, <1>3, <2>1, <2>5
  <2>8. \A k \in Conversions : status'[k] \in {"glob", "run"} => held'[k] \in RawNames
    BY <1>1, <1>2, <2>2 DEF MadePart
  <2>9. status'["efi"] = "run" => "partitions" \notin cfg.disks
    BY <1>1, <1>2, <2>1, <2>2 DEF MadePart
  <2> QED BY <2>6, <2>7, <2>8, <2>9
<1>8. CASE DiskFinished(s, how)
  <2>1. /\ s \in {"efi", "bios"} /\ status[s] = "run" /\ held' = held /\ fs'.out = fs.out /\ how \in {"ok", "err"}
        /\ \E d : fs'.raw = [fs.raw EXCEPT !["this"] = d] /\ StillMade(d)
    <3>1. CASE how = "err" /\ fs'.raw = [fs.raw EXCEPT !["this"] = NoDisk]
      BY <1>4, <1>8, <3>1 DEF DiskFinished
    <3>2. CASE how = "ok" /\ fs'.raw = [fs.raw EXCEPT !["this"].whole = fs.raw["this"].whole /\ fs.raw["this"].boot = s]
      <4> DEFINE w == fs.raw["this"].whole /\ fs.raw["this"].boot = s
                 d == [fs.raw["this"] EXCEPT !.whole = w]
      <4>1. d.boot = fs.raw["this"].boot /\ d.cc = fs.raw["this"].cc
        BY <1>1 DEF DiskContents
      <4>2. StillMade(d)
        BY <1>1, <1>3, <4>1 DEF StillMade
      <4>3. fs'.raw = [fs.raw EXCEPT !["this"] = d]
        BY <3>2
      <4> HIDE DEF d
      <4> QED BY <1>8, <3>2, <4>2, <4>3 DEF DiskFinished
    <3> QED BY <1>8, <3>1, <3>2 DEF DiskFinished
  <2> QED BY <1>1, <1>2, <1>3, <2>1 DEF MadePart
<1>9. CASE DiskFound(s, how)
  <2>1. /\ s \in Conversions /\ how = "glob" /\ fs'.raw = fs.raw /\ fs'.out = fs.out
        /\ \E n \in RawNames : held' = [held EXCEPT ![s] = n]
    BY <1>9 DEF DiskFound
  <2> QED BY <1>1, <1>2, <1>3, <2>1 DEF MadePart
<1>10. CASE DiskGrown(s, how)
  <2>1. /\ s = "gce" /\ how = "run" /\ held' = held /\ fs'.out = fs.out /\ status["gce"] = "glob"
        /\ fs'.raw = fs.raw \/ fs'.raw = [fs.raw EXCEPT ![held["gce"]] = BlankDisk]
    BY <1>10 DEF DiskGrown
  <2>2. held["gce"] \in RawNames
    BY <1>1, <1>2, <2>1 DEF MadePart
  <2> QED BY <1>1, <1>2, <1>3, <1>4, <2>1, <2>2 DEF MadePart
<1>11. CASE DiskConverted(s, how)
  <2>1. /\ s \in Conversions /\ status[s] \in {"glob", "run"} /\ how \in {"run", "ok"} /\ held' = held
        /\ fs'.out = [fs.out EXCEPT ![s] = fs.raw[held[s]]]
        /\ fs'.raw = fs.raw \/ fs'.raw = [fs.raw EXCEPT ![held[s]] = NoDisk]
    BY <1>11 DEF DiskConverted, Found
  <2>2. held[s] \in RawNames
    BY <1>2, <2>1 DEF MadePart
  <2>3. StillMade(fs.raw[held[s]])
    BY <1>3, <2>2
  <2> QED BY <1>1, <1>2, <1>3, <1>4, <2>1, <2>2, <2>3 DEF MadePart
<1>12. CASE DiskCompressed(s, how)
  <2>1. PICK whole : fs'.out = [fs.out EXCEPT !["maas"].whole = whole]
    BY <1>12 DEF DiskCompressed
  <2>2. s = "maas" /\ how = "ok" /\ held' = held /\ fs'.raw = fs.raw
    BY <1>12 DEF DiskCompressed
  <2> DEFINE d == [fs.out["maas"] EXCEPT !.whole = whole]
  <2>3. d.boot = fs.out["maas"].boot /\ d.cc = fs.out["maas"].cc
    BY <1>1 DEF DiskContents
  <2>4. StillMade(d)
    BY <1>1, <1>3, <2>3 DEF StillMade
  <2>5. fs'.out = [fs.out EXCEPT !["maas"] = d]
    BY <2>1
  <2> HIDE DEF d
  <2> QED BY <1>1, <1>2, <1>3, <2>2, <2>4, <2>5 DEF MadePart
<1> QED BY <1>6, <1>7, <1>8, <1>9, <1>10, <1>11, <1>12 DEF Changes, DiskMoves

\* kairos-<name>.raw, where one step at a time uses it.
UsePart ==
    /\ status["efi"] = "ok" /\ "partitions" \in cfg.disks => IsWhole(fs.out["parts"], "efi")
    /\ status["bios"] \in {"run", "ok"} => IsWhole(fs.raw["this"], "bios")
    /\ status["efi"] \in {"run", "ok"} /\ MakesRaw(cfg) =>
         \/ IsWhole(fs.raw["this"], "efi")
         \/ fs.raw["this"] = NoDisk /\ "ok" \in {status["gce"], status["vhd"]}
    /\ \A k \in {"gce", "vhd"} : status[k] \in {"glob", "run", "ok"} => fs.raw["other"] = NoDisk
    /\ \A k \in Conversions : /\ status[k] \in {"glob", "run"} => held[k] = "this"
                              /\ status[k] = "ok" => IsWhole(fs.out[k], "efi")
    /\ status["maas"] = "run" => IsWhole(fs.out["maas"], "efi")

LEMMA DiskParts == DisksInv <=> MadePart /\ (OneUseOfRaw(cfg) => UsePart)
BY DEF DisksInv, MadePart, UsePart

\* A conversion that is enabled has kairos-<name>.raw for itself.
LEMMA ConvertsAlone ==
    ASSUME GraphGood, OneUseOfRaw(cfg), result \notin {"new", "rejected"},
           NEW k \in Conversions, k \in Registered(cfg), k \in Enabled(cfg)
    PROVE  /\ "partitions" \notin cfg.disks /\ MakesRaw(cfg) /\ "bios" \notin cfg.disks /\ k \in cfg.disks
           /\ "efi" \in Registered(cfg) /\ "efi" \in Enabled(cfg) /\ Deps(cfg)[k] = {"efi"}
           /\ ~({"gce", "vhd"} \subseteq cfg.disks) /\ ~({"vhd", "maas"} \subseteq cfg.disks)
<1>1. k \in cfg.disks /\ k \in {"gce", "vhd", "maas"}
  BY EnabledOf DEF Conversions
<1>2. Registered(cfg) = Steps
  BY <1>1 DEF Registered
<1>3. cfg.caller # "build-iso"
  BY <1>1, <1>2 DEF Registered, Steps
<1>4. "partitions" \notin cfg.disks
  BY <1>1, <1>3 DEF GraphGood, GraphInv, Validate, OneUseOfRaw
<1>5. MakesRaw(cfg)
  BY <1>1, <1>4 DEF MakesRaw
<1>6. "efi" \in Registered(cfg)
  BY <1>2 DEF Steps
<1>7. "efi" \in Enabled(cfg)
  BY <1>5, <1>6, EnabledOf DEF MakesRaw
<1>8. Deps(cfg)[k] = {"efi"}
  BY <1>1, DepsOf DEF GraphGood
<1> QED BY <1>1, <1>4, <1>5, <1>6, <1>7, <1>8 DEF OneUseOfRaw

\* The unpacked rootfs a raw disk step finds is whole.
LEMMA RootWhole ==
    ASSUME PipeAll, NEW s, NEW how, Changes(s, how), DiskMade(s, how)
    PROVE  fs.root[tmpRootFs(cfg, "early")] = "full"
<1> DEFINE early == tmpRootFs(cfg, "early")
           late == tmpRootFs(cfg, "late")
<1>1. fs.root[early] \in {"partial", "full"} /\ s \in {"efi", "bios"} /\ how # "err"
  BY DEF DiskMade
<1>2. early \in {"set", "early", "late"}
  BY NamesOf DEF Places
<1>3. early = late
  BY <1>1, <1>2 DEF PipeAll, PipeGood, CleanInv
<1>4. /\ s \in Registered(cfg) /\ cfg \in Config /\ ~Cleaned
      /\ how # "err" => \A d \in Deps(cfg)[s] : d \in Enabled(cfg) => status[d] = "ok"
  BY ImageFacts
<1>5. /\ fs.root[late] \in {"partial", "full"} => status["dump"] \in {"run", "ok", "err"}
      /\ status["dump"] = "ok" => fs.root[late] = "full"
  BY <1>4 DEF PipeAll, SourcesInv
<1>6. Deps(cfg)[s] = {"dump"}
  BY <1>1, <1>4, DepsOf
<1>7. "dump" \in Enabled(cfg)
  BY <1>1, <1>3, <1>5 DEF PipeAll, GraphGood, GraphInv, Steps
<1> QED BY <1>1, <1>3, <1>4, <1>5, <1>6, <1>7

LEMMA UsesKept ==
    ASSUME PipeAll, NEW s, NEW how, Changes(s, how), OneUseOfRaw(cfg) PROVE UsePart'
<1>1. /\ s \in Steps /\ s \in Registered(cfg) /\ s \in Enabled(cfg) /\ cfg' = cfg /\ cfg \in Config
      /\ status'[s] = how /\ \A t \in Steps : t # s => status'[t] = status[t]
      /\ status[s] \in {"wait", "glob", "run", "serving"}
      /\ result \notin {"new", "rejected"}
      /\ \A t \in Steps : status[t] \notin {"unregistered", "off"} => t \in Registered(cfg) /\ t \in Enabled(cfg)
      /\ {"efi", "bios", "gce", "vhd", "maas", "cc", "dump"} \subseteq Steps
      /\ Conversions = {"gce", "vhd", "maas"} /\ RawNames = {"this", "other"}
      /\ fs.raw \in [RawNames -> DiskContents] /\ fs.out \in [Conversions \union {"parts"} -> DiskContents]
      /\ held \in [Conversions -> RawNames \union {"none"}]
  BY DiskFacts
<1>2. UsePart /\ MadePart
  BY DiskParts DEF PipeAll
<1>3. \A b \in {"efi", "bios"} : ~IsWhole(NoDisk, b)
  BY DEF IsWhole, NoDisk
\* Which steps are enabled together.
<1>4. status["bios"] \notin {"unregistered", "off"} => "bios" \in cfg.disks
  BY <1>1, EnabledOf
<1>5. status["efi"] \notin {"unregistered", "off"} /\ "partitions" \notin cfg.disks => MakesRaw(cfg)
  BY <1>1, EnabledOf DEF MakesRaw
<1>6. ~("bios" \in cfg.disks /\ MakesRaw(cfg))
  BY DEF OneUseOfRaw
<1>7. ASSUME NEW k \in Conversions, status[k] \notin {"unregistered", "off"}
      PROVE  /\ "partitions" \notin cfg.disks /\ MakesRaw(cfg) /\ "bios" \notin cfg.disks /\ k \in cfg.disks
             /\ "efi" \in Enabled(cfg) /\ Deps(cfg)[k] = {"efi"} /\ k \in Registered(cfg)
             /\ ~({"gce", "vhd"} \subseteq cfg.disks) /\ ~({"vhd", "maas"} \subseteq cfg.disks)
  BY <1>1, <1>7, ConvertsAlone DEF PipeAll
\* A conversion that has begun has a disk that is made.
<1>8. ASSUME NEW k \in Conversions, status[k] \in Begun PROVE status["efi"] = "ok"
  <2>1. Deps(cfg)[k] = {"efi"} /\ k \in Registered(cfg) /\ "efi" \in Enabled(cfg)
    BY <1>7, <1>8 DEF Begun
  <2>2. status["efi"] \in {"ok", "off"}
    BY <1>8, <2>1 DEF PipeAll, GraphGood, GraphInv, Begun
  <2>3. status["efi"] # "off"
    BY <1>1, <2>1 DEF PipeAll, GraphGood, GraphInv, Outcomes
  <2> QED BY <2>2, <2>3
<1>9. ASSUME NEW k \in Conversions, s = k, how # "err" PROVE status["efi"] = "ok"
  <2>1. Deps(cfg)[k] = {"efi"} /\ "efi" \in Enabled(cfg)
    BY <1>1, <1>7, <1>9
  <2> QED BY <1>9, <2>1, ImageFacts
<1>10. CASE DisksStay(s, how)
  <2>1. fs'.raw = fs.raw /\ fs'.out = fs.out /\ held' = held /\ (s \in {"efi", "bios"} \union Conversions => how = "err")
    BY <1>10 DEF DisksStay
  <2>2. /\ status'["efi"] # status["efi"] => status'["efi"] = "err"
        /\ status'["bios"] # status["bios"] => status'["bios"] = "err"
        /\ \A k \in Conversions : status'[k] # status[k] => status'[k] = "err" /\ status[k] # "ok"
    BY <1>1, <2>1
  <2> QED BY <1>1, <1>2, <2>1, <2>2 DEF UsePart
<1>11. CASE DiskMade(s, how)
  <2>1. PICK made : /\ made = [boot |-> s, cc |-> fs.cc, whole |-> fs.root[tmpRootFs(cfg, "early")] = "full"]
                    /\ IF s = "efi" /\ "partitions" \in cfg.disks
                       THEN how = "ok" /\ fs'.raw = fs.raw /\ fs'.out = [fs.out EXCEPT !["parts"] = made]
                       ELSE how = "run" /\ fs'.raw = [fs.raw EXCEPT !["this"] = made] /\ fs'.out = fs.out
    BY <1>11 DEF DiskMade
  <2>2. s \in {"efi", "bios"} /\ held' = held /\ fs.root[tmpRootFs(cfg, "early")] = "full" /\ status[s] = "wait"
    BY <1>11, RootWhole DEF DiskMade, Starts, Ready
  <2>3. IsWhole(made, s)
    BY <2>1, <2>2 DEF IsWhole
  <2>4. \A k \in Conversions : status'[k] = status[k]
    BY <1>1, <2>2
  <2>5. CASE s = "efi" /\ "partitions" \in cfg.disks
    <3>1. ~MakesRaw(cfg)
      BY <2>5 DEF MakesRaw
    <3>2. fs'.raw = fs.raw /\ fs'.out["parts"] = made /\ \A k \in Conversions : fs'.out[k] = fs.out[k]
      BY <1>1, <2>1, <2>5
    <3>3. status'["bios"] = status["bios"]
      BY <1>1, <2>5
    <3> QED BY <1>1, <1>2, <2>2, <2>3, <2>4, <2>5, <3>1, <3>2, <3>3 DEF UsePart
  <2>6. CASE s = "efi" /\ "partitions" \notin cfg.disks
    <3>1. fs'.raw["this"] = made /\ fs'.raw["other"] = fs.raw["other"] /\ fs'.out = fs.out /\ how = "run"
      BY <1>1, <2>1, <2>6
    <3>2. status'["bios"] = status["bios"] /\ status["bios"] \in {"unregistered", "off"}
      BY <1>1, <1>4, <1>5, <1>6, <2>2, <2>6
    <3> QED BY <1>1, <1>2, <2>2, <2>3, <2>4, <2>6, <3>1, <3>2 DEF UsePart
  <2>7. CASE s = "bios"
    <3>1. fs'.raw["this"] = made /\ fs'.raw["other"] = fs.raw["other"] /\ fs'.out = fs.out /\ how = "run"
      BY <1>1, <2>1, <2>7
    <3>2. status'["efi"] = status["efi"] /\ ~MakesRaw(cfg)
      BY <1>1, <1>4, <1>6, <2>2, <2>7
    <3> QED BY <1>1, <1>2, <2>2, <2>3, <2>4, <2>7, <3>1, <3>2 DEF UsePart
  <2> QED BY <2>2, <2>5, <2>6, <2>7
<1>12. CASE DiskFinished(s, how)
  <2>1. /\ s \in {"efi", "bios"} /\ status[s] = "run" /\ held' = held /\ fs'.out = fs.out /\ how \in {"ok", "err"}
        /\ fs'.raw["other"] = fs.raw["other"]
        /\ how = "ok" /\ IsWhole(fs.raw["this"], s) => IsWhole(fs'.raw["this"], s)
    <3>1. CASE how = "err" /\ fs'.raw = [fs.raw EXCEPT !["this"] = NoDisk]
      BY <1>1, <1>12, <3>1 DEF DiskFinished
    <3>2. CASE how = "ok" /\ fs'.raw = [fs.raw EXCEPT !["this"].whole = fs.raw["this"].whole /\ fs.raw["this"].boot = s]
      <4> DEFINE w == fs.raw["this"].whole /\ fs.raw["this"].boot = s
                 d == [fs.raw["this"] EXCEPT !.whole = w]
      <4>1. d.boot = fs.raw["this"].boot /\ d.whole = w
        BY <1>1 DEF DiskContents
      <4>2. IsWhole(fs.raw["this"], s) => IsWhole(d, s)
        BY <4>1 DEF IsWhole
      <4>3. fs'.raw = [fs.raw EXCEPT !["this"] = d]
        BY <3>2
      <4> HIDE DEF d
      <4> QED BY <1>1, <1>12, <3>2, <4>2, <4>3 DEF DiskFinished
    <3> QED BY <1>12, <3>1, <3>2 DEF DiskFinished
  <2>2. \A k \in Conversions : status'[k] = status[k]
    BY <1>1, <2>1
  <2>3. CASE s = "efi"
    <3>1. "partitions" \notin cfg.disks /\ MakesRaw(cfg)
      BY <1>2, <1>5, <2>1, <2>3 DEF MadePart
    <3>2. status'["bios"] = status["bios"] /\ status["bios"] \in {"unregistered", "off"}
      BY <1>1, <1>4, <1>6, <2>3, <3>1
    <3>3. "ok" \notin {status["gce"], status["vhd"]}
      BY <1>1, <1>8, <2>1, <2>3 DEF Begun
    <3>4. how = "ok" => IsWhole(fs'.raw["this"], "efi")
      BY <1>2, <2>1, <2>3, <3>1, <3>3 DEF UsePart
    <3> QED BY <1>1, <1>2, <2>1, <2>2, <2>3, <3>1, <3>2, <3>4 DEF UsePart
  <2>4. CASE s = "bios"
    <3>1. status'["efi"] = status["efi"] /\ ~MakesRaw(cfg)
      BY <1>1, <1>4, <1>6, <2>1, <2>4
    <3>2. how = "ok" => IsWhole(fs'.raw["this"], "bios")
      BY <1>2, <2>1, <2>4 DEF UsePart
    <3> QED BY <1>1, <1>2, <2>1, <2>2, <2>4, <3>1, <3>2 DEF UsePart
  <2> QED BY <2>1, <2>3, <2>4
<1>13. CASE DiskFound(s, how)
  <2>1. PICK n \in RawNames : /\ fs.raw[n] # NoDisk /\ \A m \in RawNames : fs.raw[m] # NoDisk => m = n
                              /\ held' = [held EXCEPT ![s] = n]
    BY <1>13 DEF DiskFound
  <2>2. s \in Conversions /\ how = "glob" /\ fs'.raw = fs.raw /\ fs'.out = fs.out /\ status[s] = "wait"
    BY <1>13 DEF DiskFound, Starts, Ready
  <2>3. MakesRaw(cfg) /\ status["efi"] = "ok"
    BY <1>7, <1>9, <2>2
  <2>4. fs.raw["this"] # NoDisk
    <3>1. ASSUME fs.raw["this"] = NoDisk PROVE FALSE
      <4>1. "ok" \in {status["gce"], status["vhd"]}
        BY <1>2, <1>3, <2>3, <3>1 DEF UsePart
      <4>2. fs.raw["other"] = NoDisk
        BY <1>2, <4>1 DEF UsePart
      <4> QED BY <1>1, <2>1, <3>1, <4>2
    <3> QED BY <3>1
  <2>5. n = "this" /\ fs.raw["other"] = NoDisk
    BY <1>1, <2>1, <2>4
  <2>6. held'[s] = "this" /\ \A k \in Conversions : k # s => held'[k] = held[k]
    BY <1>1, <2>1, <2>2, <2>5
  <2>7. status'["efi"] = status["efi"] /\ status'["bios"] = status["bios"]
    BY <1>1, <2>2
  <2>8. \A k \in Conversions : status'[k] = IF k = s THEN "glob" ELSE status[k]
    BY <1>1, <2>2
  <2> QED BY <1>1, <1>2, <2>2, <2>3, <2>5, <2>6, <2>7, <2>8 DEF UsePart
<1>14. CASE DiskGrown(s, how)
  <2>1. /\ s = "gce" /\ how = "run" /\ held' = held /\ fs'.out = fs.out /\ status["gce"] = "glob"
        /\ fs'.raw = fs.raw \/ fs.raw[held["gce"]] = NoDisk
    BY <1>14 DEF DiskGrown, Found
  <2>2. held["gce"] = "this" /\ MakesRaw(cfg) /\ status["efi"] = "ok"
    BY <1>1, <1>2, <1>7, <1>8, <2>1 DEF UsePart, Begun
  <2>3. status["vhd"] \in {"unregistered", "off"}
    <3>1. "gce" \in cfg.disks /\ ~({"gce", "vhd"} \subseteq cfg.disks)
      BY <1>1, <1>7, <2>1
    <3>2. status["vhd"] \notin {"unregistered", "off"} => "vhd" \in cfg.disks
      BY <1>1, <1>7
    <3> QED BY <3>1, <3>2
  <2>4. fs'.raw = fs.raw
    BY <1>2, <1>3, <2>1, <2>2, <2>3 DEF UsePart
  <2>5. \A k \in Conversions : status'[k] = IF k = "gce" THEN "run" ELSE status[k]
    BY <1>1, <2>1
  <2>6. status'["efi"] = status["efi"] /\ status'["bios"] = status["bios"]
    BY <1>1, <2>1
  <2> QED BY <1>1, <1>2, <2>1, <2>2, <2>4, <2>5, <2>6 DEF UsePart
<1>15. CASE DiskConverted(s, how)
  <2>1. /\ s \in Conversions /\ status[s] \in {"glob", "run"} /\ held' = held
        /\ how = (IF s = "maas" THEN "run" ELSE "ok")
        /\ fs.raw[held[s]] # NoDisk /\ fs'.out = [fs.out EXCEPT ![s] = fs.raw[held[s]]]
        /\ IF s = "maas" THEN fs'.raw = fs.raw ELSE fs'.raw = [fs.raw EXCEPT ![held[s]] = NoDisk]
    BY <1>15 DEF DiskConverted, Found
  <2>2. /\ held[s] = "this" /\ MakesRaw(cfg) /\ status["efi"] = "ok" /\ "bios" \notin cfg.disks
        /\ "partitions" \notin cfg.disks
    BY <1>2, <1>7, <1>8, <2>1 DEF UsePart, Begun
  <2>3. IsWhole(fs.raw["this"], "efi")
    BY <1>2, <2>1, <2>2 DEF UsePart
  <2>4. fs'.out[s] = fs.raw["this"] /\ \A k \in Conversions : k # s => fs'.out[k] = fs.out[k]
    BY <1>1, <2>1, <2>2
  <2>5. /\ fs'.raw["other"] = fs.raw["other"]
        /\ IF s = "maas" THEN fs'.raw["this"] = fs.raw["this"] ELSE fs'.raw["this"] = NoDisk
    BY <1>1, <2>1, <2>2
  <2>6. status'["efi"] = status["efi"] /\ status'["bios"] \in {"unregistered", "off"}
    BY <1>1, <1>4, <2>1, <2>2
  <2>7. \A k \in Conversions : status'[k] = IF k = s THEN how ELSE status[k]
    BY <1>1, <2>1
  <2>8. /\ \A k \in {"gce", "vhd"} : status'[k] \in {"glob", "run", "ok"} => fs'.raw["other"] = NoDisk
    BY <1>1, <1>2, <2>1, <2>5, <2>7 DEF UsePart
  <2>9. s # "maas" => "ok" \in {status'["gce"], status'["vhd"]}
    BY <1>1, <2>1, <2>7
  <2>10. \A k \in Conversions : /\ status'[k] \in {"glob", "run"} => held'[k] = "this"
                                /\ status'[k] = "ok" => IsWhole(fs'.out[k], "efi")
                                /\ k = "maas" /\ status'[k] = "run" => IsWhole(fs'.out[k], "efi")
    BY <1>2, <2>1, <2>3, <2>4, <2>7 DEF UsePart
  <2> QED BY <1>1, <2>2, <2>3, <2>5, <2>6, <2>8, <2>9, <2>10 DEF UsePart
<1>16. CASE DiskCompressed(s, how)
  <2>1. s = "maas" /\ status["maas"] = "run" /\ how = "ok" /\ held' = held /\ fs'.raw = fs.raw
    BY <1>16 DEF DiskCompressed
  <2>2. PICK whole : /\ status["vhd"] \notin {"ok", "err"} => whole = fs.out["maas"].whole
                     /\ fs'.out = [fs.out EXCEPT !["maas"].whole = whole]
    BY <1>16 DEF DiskCompressed
  <2>3. status["vhd"] \notin {"ok", "err"}
    BY <1>1, <1>7, <2>1
  <2>4. IsWhole(fs.out["maas"], "efi")
    BY <1>2, <2>1 DEF UsePart
  <2>5. IsWhole(fs'.out["maas"], "efi") /\ \A k \in Conversions \union {"parts"} : k # "maas" => fs'.out[k] = fs.out[k]
    <3> DEFINE made == [fs.out["maas"] EXCEPT !.whole = whole]
    <3>1. fs.out["maas"] \in DiskContents
      BY <1>1
    <3>2. made.whole = fs.out["maas"].whole /\ made.boot = fs.out["maas"].boot
      BY <2>2, <2>3, <3>1 DEF DiskContents
    <3>3. fs'.out = [fs.out EXCEPT !["maas"] = made]
      BY <2>2
    <3> HIDE DEF made
    <3>4. fs'.out["maas"] = made /\ \A k \in Conversions \union {"parts"} : k # "maas" => fs'.out[k] = fs.out[k]
      BY <1>1, <3>3
    <3> QED BY <2>4, <3>2, <3>4 DEF IsWhole
  <2>6. /\ status'["efi"] = status["efi"] /\ status'["bios"] = status["bios"]
        /\ status'["gce"] = status["gce"] /\ status'["vhd"] = status["vhd"] /\ status'["maas"] = "ok"
    BY <1>1, <2>1
  <2> QED BY <1>1, <1>2, <2>1, <2>5, <2>6 DEF UsePart
<1> QED BY <1>10, <1>11, <1>12, <1>13, <1>14, <1>15, <1>16 DEF Changes, DiskMoves

LEMMA DisksKept ==
    ASSUME PipeAll, NEW s, NEW how, Changes(s, how) PROVE DisksInv'
<1>1. MadePart' /\ cfg' = cfg
  BY MadesKept, DiskFacts
<1>2. OneUseOfRaw(cfg)' => UsePart'
  BY <1>1, UsesKept
<1> QED BY <1>1, <1>2, DiskParts DEF MadePart, UsePart, DisksInv, OneUseOfRaw

(***************************************************************************)
(* A graph of steps from its start to its end.                             *)
(***************************************************************************)
LEMMA PipeMovesOn ==
    ASSUME PipeAll, NEW s, NEW how, Changes(s, how), PipeGood' PROVE PipeAll'
<1>1. GraphGood'
  BY MovesKeepGraph DEF PipeAll, Changes
<1>2. Typed'
  BY TypesKept DEF PipeAll, Typed, PipeGood, DisksInv
<1>3. ImageInv'
  BY IsosKept, NetKept, ImageParts DEF ImageInv, IsoPart, NetPart
<1> QED BY <1>1, <1>2, <1>3, SourcesKept, DisksKept DEF PipeAll

\* Registration begins no step, and nothing was made before it.
LEMMA PipeRegisters ==
    ASSUME PipeAll, RegisterAll, PipeGood' PROVE PipeAll'
<1>1. cfg' = cfg /\ fs' = fs /\ held' = held /\ result = "new" /\ result' \in {"rejected", "running"} /\ cfg \in Config
  BY DEF RegisterAll, PipeAll, GraphGood
<1>2. GraphGood'
  BY GraphRegistered DEF PipeAll
<1>3. /\ \A t \in Steps : status[t] = "unregistered"
      /\ \A t \in Steps : status'[t] \in {"unregistered", "off", "wait"}
      /\ status' \in [Steps -> {"unregistered", "off", "wait", "glob", "run", "ok", "err", "serving"}]
  <2>1. \A t \in Steps : status[t] = "unregistered"
    BY <1>1 DEF PipeAll, GraphGood, GraphInv
  <2>2. CASE status' = status
    BY <2>1, <2>2 DEF PipeAll, Typed, PipeTypeOK
  <2>3. CASE status' = [t \in Steps |-> IF t \notin Registered(cfg) THEN "unregistered"
                                        ELSE IF t \in Enabled(cfg) THEN "wait" ELSE "off"]
    BY <2>1, <2>3
  <2> QED BY <2>2, <2>3 DEF RegisterAll
<1>4. {"genISO", "download", "inject", "extract", "cc", "dump", "efi", "bios", "gce", "vhd", "maas"} \subseteq Steps
      /\ Conversions = {"gce", "vhd", "maas"}
  BY DEF Steps, Conversions
<1>5. Typed'
  BY <1>1, <1>3 DEF PipeAll, Typed, PipeTypeOK
<1>6. SourcesInv'
  <2>1. fs.root[tmpRootFs(cfg, "late")] \notin {"partial", "full"}
    BY <1>1, <1>3, <1>4 DEF PipeAll, SourcesInv, Cleaned
  <2> QED BY <1>1, <1>3, <1>4, <2>1 DEF SourcesInv, Cleaned, tmpRootFs
<1>7. ImageInv'
  <2>1. \A n \in ISONames : fs.iso[n].src # "new"
    BY <1>3, <1>4 DEF PipeAll, ImageInv
  <2>2. fromImage(cfg) /\ "kairos.iso" \notin cfg.oldISO => fs.iso["kairos.iso"] = NoISO
    BY DEF PipeAll, ImageInv
  <2>3. status'["genISO"] # "ok" /\ status'["download"] # "ok" /\ status'["extract"] # "ok"
    BY <1>3, <1>4
  <2> QED BY <1>1, <2>1, <2>2, <2>3 DEF ImageInv, fromImage
<1>8. DisksInv'
  <2>1. /\ \A n \in RawNames : fs.raw[n].boot \notin {"efi", "bios"}
        /\ \A k \in Conversions \union {"parts"} : fs.out[k].boot \notin {"efi", "bios"}
    BY <1>3, <1>4 DEF PipeAll, DisksInv, Made
  <2>2. MadePart'
    BY <1>1, <1>3, <1>4, <2>1 DEF MadePart, Made
  <2>3. UsePart'
    BY <1>3, <1>4 DEF UsePart
  <2> QED BY <2>2, <2>3, DiskParts DEF DisksInv, MadePart, UsePart
<1> QED BY <1>2, <1>5, <1>6, <1>7, <1>8 DEF PipeAll

\* The end of a build touches no image.
LEMMA ImagesStay ==
    ASSUME PipeAll, cfg' = cfg, status' = status, held' = held,
           fs'.iso = fs.iso, fs'.raw = fs.raw, fs'.out = fs.out,
           Cleaned' \/ (fs' = fs /\ ~Cleaned /\ ~Cleaned'), Cleaned' => cfg.caller # "web"
    PROVE  SourcesInv' /\ ImageInv' /\ DisksInv'
<1>1. SourcesInv'
  BY DEF PipeAll, SourcesInv, tmpRootFs
<1>2. getIsoFile' = getIsoFile
  BY SameIsoFile
<1>3. IsoPart'
  BY <1>2, ImageParts DEF PipeAll, IsoPart, fromImage
<1>4. NetPart'
  BY ImageParts DEF PipeAll, NetPart, NamedKairos, fromImage
<1>5. MadePart' /\ (OneUseOfRaw(cfg)' => UsePart')
  BY DiskParts DEF PipeAll, MadePart, UsePart, Made, MakesRaw, OneUseOfRaw
<1> QED BY <1>1, <1>3, <1>4, <1>5 DEF ImageInv, IsoPart, NetPart, DisksInv, MadePart, UsePart, OneUseOfRaw

LEMMA PipeEnds ==
    ASSUME PipeAll, PipeGood',
           \/ CollectErrors \/ CleanTmpDirs
           \/ status["gce"] = "run" /\ result' = "crashed" /\ UNCHANGED <<cfg, dag, status, fs, held>>
    PROVE  PipeAll'
<1>1. /\ cfg' = cfg /\ status' = status /\ dag' = dag /\ held' = held /\ cfg \in Config
      /\ result' \in {"failed", "ok", "crashed", "cleaned_ok", "cleaned_failed"}
  BY DEF CollectErrors, CleanTmpDirs, PipeAll, GraphGood
<1>2. /\ fs.root \in [Places -> {"absent", "empty", "partial", "full"}] /\ fs.cc \in {"none", "old", "empty", "new"}
      /\ fs.net \in [src : {"none", "old", "partial", "new"}, prefix : {"kairos", "named"}]
      /\ tmpRootFs(cfg, "late") \in Places /\ IsFs(fs) /\ IsFs(fs')
  BY NamesOf DEF PipeAll, Typed, PipeTypeOK, Places, PipeGood
<1>3. CASE CleanTmpDirs
  <2> DEFINE dir == tmpRootFs(cfg, "late")
  <2>1. /\ fs' = [fs EXCEPT !.root[dir] = "absent", !.net.src = "none", !.cc = "none"]
        /\ result \in {"failed", "ok"} /\ cfg.caller # "web" /\ result' \in {"cleaned_ok", "cleaned_failed"}
    BY <1>3 DEF CleanTmpDirs
  <2> HIDE DEF dir
  <2>2. /\ fs'.root = [fs.root EXCEPT ![dir] = "absent"] /\ fs'.net = [fs.net EXCEPT !.src = "none"] /\ fs'.cc = "none"
        /\ fs'.iso = fs.iso /\ fs'.raw = fs.raw /\ fs'.out = fs.out
    BY <1>2, <2>1 DEF IsFs
  <2>3. fs'.root \in [Places -> {"absent", "empty", "partial", "full"}]
        /\ fs'.net \in [src : {"none", "old", "partial", "new"}, prefix : {"kairos", "named"}]
    BY <1>2, <2>2
  <2>4. Typed'
    BY <1>1, <1>2, <2>1, <2>2, <2>3 DEF PipeAll, Typed, PipeTypeOK, Places
  <2>5. GraphGood'
    BY <1>1, <1>3, GraphEnds DEF PipeAll
  <2>6. Cleaned'
    BY <2>1 DEF Cleaned
  <2> QED BY <1>1, <2>1, <2>2, <2>4, <2>5, <2>6, ImagesStay DEF PipeAll
<1>4. CASE CollectErrors
  <2>1. fs' = fs /\ result = "running" /\ result' \in {"failed", "ok"}
    BY <1>4 DEF CollectErrors
  <2>2. Typed'
    BY <1>1, <2>1 DEF PipeAll, Typed, PipeTypeOK
  <2>3. GraphGood'
    BY <1>4, GraphCollected DEF PipeAll
  <2>4. ~Cleaned /\ ~Cleaned'
    BY <2>1 DEF Cleaned
  <2> QED BY <1>1, <2>1, <2>2, <2>3, <2>4, ImagesStay DEF PipeAll
<1>5. CASE status["gce"] = "run" /\ result' = "crashed" /\ UNCHANGED <<cfg, dag, status, fs, held>>
  <2>1. result \notin {"new", "rejected", "failed", "ok", "cleaned_ok", "cleaned_failed"}
    <3>1. "gce" \in Steps
      BY DEF Steps
    <3> QED BY <1>5, <3>1 DEF PipeAll, GraphGood, GraphInv, Settled, Pending
  <2>2. Typed'
    BY <1>1, <1>5 DEF PipeAll, Typed, PipeTypeOK
  <2>3. GraphGood'
    BY <1>5, <2>1, GraphEnds DEF PipeAll
  <2>4. ~Cleaned /\ ~Cleaned'
    BY <1>5, <2>1 DEF Cleaned
  <2> QED BY <1>1, <1>5, <2>2, <2>3, <2>4, ImagesStay DEF PipeAll
<1> QED BY <1>3, <1>4, <1>5

LEMMA PipeAllStep ==
    ASSUME PipeAll, [PipeNext]_pipeVars PROVE PipeAll'
<1>1. PipeGood'
  BY PipeStep DEF PipeAll
<1>2. CASE UNCHANGED pipeVars
  <2>1. cfg' = cfg /\ dag' = dag /\ status' = status /\ fs' = fs /\ held' = held /\ result' = result
    BY <1>2 DEF pipeVars
  <2>2. Typed' /\ (Cleaned' <=> Cleaned)
    BY <2>1 DEF PipeAll, Typed, PipeTypeOK, Cleaned
  <2>3. GraphGood'
    BY <2>1 DEF PipeAll, GraphGood, GraphInv, Settled
  <2>4. SourcesInv' /\ ImageInv' /\ DisksInv'
    BY <2>1, <2>2, ImagesStay DEF PipeAll, SourcesInv
  <2> QED BY <1>1, <2>2, <2>3, <2>4 DEF PipeAll
<1>3. CASE PipeNext
  BY <1>1, <1>3, PipeMoves, PipeMovesOn, PipeRegisters, PipeEnds DEF PipeAll
<1> QED BY <1>2, <1>3

LEMMA PipeAllStarts ==
    ASSUME NEW configs \in SUBSET Config, NEW view \in {"new", "rejected"}, PipeInit(configs, view) PROVE PipeAll
<1>1. /\ cfg \in Config /\ result = view /\ status = [s \in Steps |-> "unregistered"]
      /\ held = [k \in Conversions |-> "none"]
      /\ fs = [root |-> [d \in {"set", "early", "late"} |-> "absent"], cc |-> cfg.oldCC,
               iso |-> [n \in ISONames |-> IF n \in cfg.oldISO THEN [src |-> "old", cc |-> "old"] ELSE NoISO],
               raw |-> [n \in RawNames |-> IF n \in cfg.oldRaw
                                           THEN [boot |-> "old", cc |-> "old", whole |-> TRUE] ELSE NoDisk],
               out |-> [k \in Conversions \union {"parts"} |-> NoDisk],
               net |-> [src |-> "none", prefix |-> "kairos"]]
  BY DEF PipeInit
<1>2. /\ fs.root = [d \in Places |-> "absent"] /\ fs.cc = cfg.oldCC
      /\ fs.iso = [n \in ISONames |-> IF n \in cfg.oldISO THEN [src |-> "old", cc |-> "old"] ELSE NoISO]
      /\ fs.raw = [n \in RawNames |-> IF n \in cfg.oldRaw
                                      THEN [boot |-> "old", cc |-> "old", whole |-> TRUE] ELSE NoDisk]
      /\ fs.out = [k \in Conversions \union {"parts"} |-> NoDisk]
      /\ fs.net = [src |-> "none", prefix |-> "kairos"]
  BY <1>1 DEF Places
<1>3. PipeGood
  BY PipeStarts
<1>4. cfg.oldCC \in {"none", "old"}
  BY <1>1 DEF Config
<1>5. /\ fs.iso \in [ISONames -> ISOContents] /\ fs.raw \in [RawNames -> DiskContents]
      /\ fs.out \in [Conversions \union {"parts"} -> DiskContents]
  <2>1. [src |-> "old", cc |-> "old"] \in ISOContents /\ NoISO \in ISOContents
    BY DEF ISOContents, NoISO
  <2>2. [boot |-> "old", cc |-> "old", whole |-> TRUE] \in DiskContents /\ NoDisk \in DiskContents
    BY DEF DiskContents, NoDisk
  <2> QED BY <1>2, <2>1, <2>2
<1>6. Typed
  BY <1>1, <1>2, <1>3, <1>4, <1>5 DEF Typed, PipeTypeOK, PipeGood, Places
<1>7. GraphGood
  <2>1. \A s \in Steps : status[s] = "unregistered"
    BY <1>1
  <2>2. \A s \in Registered(cfg) : status[s] \notin Begun
    BY <2>1, StepsOf DEF Begun
  <2>3. status["efi"] \notin Begun /\ status["bios"] \notin Begun
    BY <2>1 DEF Begun, Steps
  <2> QED BY <1>1, <1>3, <2>1, <2>2, <2>3 DEF GraphGood, GraphInv, PipeGood
<1>8. {"genISO", "download", "inject", "extract", "cc", "dump", "efi", "bios", "gce", "vhd", "maas"} \subseteq Steps
      /\ Conversions = {"gce", "vhd", "maas"}
  BY DEF Steps, Conversions
<1>9. SourcesInv
  BY <1>1, <1>2, <1>8, NamesOf DEF SourcesInv, Cleaned
<1>10. ImageInv
  <2>1. \A n \in ISONames : fs.iso[n].src # "new"
    BY <1>2 DEF NoISO
  <2>2. "kairos.iso" \notin cfg.oldISO => fs.iso["kairos.iso"] = NoISO
    BY <1>2 DEF ISONames
  <2> QED BY <1>1, <1>8, <2>1, <2>2 DEF ImageInv
<1>11. DisksInv
  <2>1. /\ \A n \in RawNames : fs.raw[n].boot \notin {"efi", "bios"}
        /\ \A k \in Conversions \union {"parts"} : fs.out[k].boot \notin {"efi", "bios"}
    BY <1>2 DEF NoDisk
  <2>2. \A s \in Steps : status[s] = "unregistered"
    BY <1>1
  <2>3. MadePart
    BY <1>8, <2>1, <2>2 DEF MadePart, Made
  <2>4. UsePart
    BY <1>8, <2>2 DEF UsePart
  <2> QED BY <2>3, <2>4, DiskParts
<1> QED BY <1>3, <1>6, <1>7, <1>9, <1>10, <1>11 DEF PipeAll

(***************************************************************************)
(* What a build that succeeded has made, and what its servers serve.       *)
(***************************************************************************)
\* Once a build has succeeded, every step it asked for has.
LEMMA AllDone ==
    ASSUME GraphGood, result \in {"ok", "cleaned_ok"}
    PROVE  /\ \A s \in Enabled(cfg) : s \in Steps /\ status[s] \in {"ok", "serving"}
           /\ \A s \in Enabled(cfg) \ Background : status[s] = "ok"
<1>1. Enabled(cfg) \subseteq Steps
  BY StepsOf
<1>2. ASSUME NEW s \in Enabled(cfg)
      PROVE  status[s] \in {"wait"} \union Outcomes(s) /\ status[s] # "err" /\ status[s] \notin Pending
  BY <1>1, StepsOf DEF GraphGood, GraphInv, Settled
<1>3. ASSUME NEW s \in Enabled(cfg) PROVE status[s] \in {"ok", "serving"}
  BY <1>2 DEF Outcomes, Pending
<1>4. ASSUME NEW s \in Enabled(cfg) \ Background PROVE status[s] = "ok"
  BY <1>2 DEF Outcomes, Pending
<1> QED BY <1>1, <1>3, <1>4

\* A server that is up rests on steps that have succeeded.
LEMMA ServerRests ==
    ASSUME PipeAll, NEW s \in Background, status[s] = "serving"
    PROVE  /\ s \in Registered(cfg) /\ s \in Enabled(cfg) /\ Registered(cfg) = Steps /\ ~Cleaned
           /\ \A d \in Deps(cfg)[s] : d \in Enabled(cfg) => status[d] = "ok"
<1>1. s \in Steps
  BY DEF Background, Steps
<1>2. s \in Registered(cfg) /\ s \in Enabled(cfg)
  BY <1>1 DEF PipeAll, GraphGood, GraphInv
<1>3. Registered(cfg) = Steps
  BY <1>2 DEF Registered, Background
<1>4. \A d \in Deps(cfg)[s] : status[d] \in {"ok", "off"}
  BY <1>2 DEF PipeAll, GraphGood, GraphInv, Begun
<1>5. \A d \in Deps(cfg)[s] : d \in Enabled(cfg) => status[d] = "ok"
  BY <1>2, <1>4, RestsOn DEF PipeAll
<1>6. ~Cleaned
  BY <1>1 DEF PipeAll, GraphGood, GraphInv, SourcesInv, Cleaned
<1> QED BY <1>2, <1>3, <1>5, <1>6

LEMMA Delivered ==
    ASSUME PipeAll, result \in {"ok", "cleaned_ok"} PROVE DeliversWhatWasAsked /\ ConfigIsThisBuilds
<1>1. /\ \A s \in Enabled(cfg) \ Background : status[s] = "ok"
      /\ \A s \in Enabled(cfg) : s \in Steps
      /\ cfg \in Config /\ Enabled(cfg) \subseteq Registered(cfg)
  BY AllDone, StepsOf DEF PipeAll, GraphGood
<1>2. {"genISO", "download", "inject", "efi", "bios", "gce", "vhd", "maas", "cc"} \intersect Background = {}
      /\ Conversions = {"gce", "vhd", "maas"} /\ {"genISO", "download", "inject", "efi", "bios", "gce", "vhd", "maas", "cc"} \subseteq Steps
  BY DEF Background, Conversions, Steps
<1>3. \A s \in Steps : status[s] = "ok" => s \in Registered(cfg) /\ s \in Enabled(cfg)
  BY DEF PipeAll, GraphGood, GraphInv
<1>4. IsoPart /\ MadePart /\ (OneUseOfRaw(cfg) => UsePart)
  BY ImageParts, DiskParts DEF PipeAll
\* A build with disks has registered the steps that make them.
<1>5. cfg.disks # {} => Registered(cfg) = Steps
  BY <1>1 DEF Config, Registered
<1>6. ASSUME OneUseOfRaw(cfg)
      PROVE  /\ \A k \in Conversions \intersect cfg.disks : IsWhole(fs.out[k], "efi")
             /\ "partitions" \in cfg.disks => IsWhole(fs.out["parts"], "efi")
             /\ "bios" \in cfg.disks => IsWhole(fs.raw["this"], "bios")
             /\ cfg.disks = {"efi"} => IsWhole(fs.raw["this"], "efi")
  <2>1. ASSUME NEW k \in Conversions \intersect cfg.disks PROVE IsWhole(fs.out[k], "efi")
    <3>1. k \in Registered(cfg)
      BY <1>2, <1>5, <2>1
    <3>2. k \in Enabled(cfg)
      BY <2>1, <3>1, EnabledOf
    <3> QED BY <1>1, <1>2, <1>4, <1>6, <2>1, <3>2 DEF UsePart
  <2>2. ASSUME "partitions" \in cfg.disks PROVE IsWhole(fs.out["parts"], "efi")
    <3>1. "efi" \in Registered(cfg)
      BY <1>2, <1>5, <2>2
    <3>2. "efi" \in Enabled(cfg)
      BY <2>2, <3>1, EnabledOf
    <3> QED BY <1>1, <1>2, <1>4, <1>6, <2>2, <3>2 DEF UsePart
  <2>3. ASSUME "bios" \in cfg.disks PROVE IsWhole(fs.raw["this"], "bios")
    <3>1. "bios" \in Registered(cfg)
      BY <1>2, <1>5, <2>3
    <3>2. "bios" \in Enabled(cfg)
      BY <2>3, <3>1, EnabledOf
    <3> QED BY <1>1, <1>2, <1>4, <1>6, <3>2 DEF UsePart
  <2>4. ASSUME cfg.disks = {"efi"} PROVE IsWhole(fs.raw["this"], "efi")
    <3>1. "efi" \in Registered(cfg)
      BY <1>2, <1>5, <2>4
    <3>2. "efi" \in Enabled(cfg)
      BY <2>4, <3>1, EnabledOf
    <3>3. "gce" \notin Enabled(cfg) /\ "vhd" \notin Enabled(cfg)
      BY <1>1, <1>2, <2>4, EnabledOf
    <3>4. MakesRaw(cfg)
      BY <2>4 DEF MakesRaw
    <3> QED BY <1>1, <1>2, <1>3, <1>4, <1>6, <3>2, <3>3, <3>4 DEF UsePart
  <2> QED BY <2>1, <2>2, <2>3, <2>4
<1>7. /\ "genISO" \in Enabled(cfg) => fs.iso["named.iso"].src = "new"
      /\ "download" \in Enabled(cfg) => fs.iso[getIsoFile].src = "new"
  BY <1>1, <1>2, <1>4 DEF IsoPart
<1>8. DeliversWhatWasAsked
  BY <1>6, <1>7 DEF DeliversWhatWasAsked, IsWhole
<1>9. ASSUME NEW n \in ISONames, fs.iso[n].src = "new"
      PROVE  fs.iso[n].cc \in {cfg.cloud} \union (IF cfg.cloud = "empty" THEN {"none"} ELSE {})
  <2>1. CASE status["genISO"] = "ok" /\ n = "named.iso"
    BY <1>4, <2>1 DEF IsoPart
  <2>2. CASE status["download"] = "ok" /\ n = getIsoFile
    <3>1. cfg.cloud \in {"empty", "new"}
      BY <1>1, NamesOf
    <3>2. CASE cfg.cloud = "empty"
      BY <1>4, <2>2, <3>2 DEF IsoPart
    <3>3. CASE cfg.cloud = "new"
      <4>1. "download" \in Registered(cfg) /\ "download" \in Enabled(cfg)
        BY <1>2, <1>3, <2>2
      <4>2. "inject" \in Registered(cfg)
        BY <1>2, <4>1 DEF Registered
      <4>3. "inject" \in Enabled(cfg)
        BY <4>1, <4>2, EnabledOf
      <4>4. status["inject"] = "ok"
        BY <1>1, <1>2, <4>3
      <4> QED BY <1>4, <2>2, <3>3, <4>4 DEF IsoPart
    <3> QED BY <3>1, <3>2, <3>3
  <2> QED BY <1>4, <1>9, <2>1, <2>2 DEF IsoPart
<1>10. ASSUME NEW d, Made(d), d.boot \in {"efi", "bios"} PROVE d.cc = cfg.cloud
  <2>1. "cc" \in Enabled(cfg)
    BY StepsOf
  <2> QED BY <1>1, <1>2, <1>10, <2>1 DEF Made
<1>11. \A d \in {fs.raw[n] : n \in RawNames} \union {fs.out[k] : k \in Conversions \union {"parts"}} :
          d.boot \in {"efi", "bios"} => d.cc = cfg.cloud
  BY <1>4, <1>10 DEF MadePart
<1>12. ConfigIsThisBuilds
  BY <1>9, <1>11 DEF ConfigIsThisBuilds
<1> QED BY <1>8, <1>12

LEMMA Served ==
    ASSUME PipeAll PROVE ServersServeThisBuild
<1>0. cfg \in Config /\ cfg.image \in BOOLEAN /\ cfg.cloud \in {"empty", "new"} /\ IsoPart /\ NetPart
  BY NamesOf, ImageParts DEF PipeAll, GraphGood
<1>1. ASSUME status["http"] = "serving", ~rawDiskIsSet(cfg)
      PROVE  LET served == IF fromImage(cfg) THEN fs.iso["named.iso"] ELSE fs.iso[getIsoFile]
             IN  served.src = "new" /\ (cfg.cloud = "new" => served.cc = "new")
  <2>1. /\ "http" \in Registered(cfg) /\ "http" \in Enabled(cfg) /\ Registered(cfg) = Steps
        /\ \A d \in Deps(cfg)["http"] : d \in Enabled(cfg) => status[d] = "ok"
    BY <1>1, ServerRests DEF Background
  <2>2. cfg.disks = {} /\ "iso" \notin cfg.off /\ {"genISO", "download", "inject"} \subseteq Registered(cfg)
    BY <1>1, <2>1, EnabledOf DEF rawDiskIsSet, Steps
  <2>3. CASE cfg.image
    <3>1. "genISO" \in Enabled(cfg) /\ "genISO" \in Deps(cfg)["http"]
      BY <1>0, <2>1, <2>2, <2>3, EnabledOf, DepsOf
    <3>2. status["genISO"] = "ok"
      BY <2>1, <3>1
    <3>3. fs.iso["named.iso"] = [src |-> "new", cc |-> cfg.cloud]
      BY <1>0, <3>2 DEF IsoPart
    <3> QED BY <2>3, <3>3 DEF fromImage
  <2>4. CASE ~cfg.image
    <3>1. /\ "download" \in Enabled(cfg) /\ "inject" \in Enabled(cfg)
          /\ "download" \in Deps(cfg)["http"] /\ "inject" \in Deps(cfg)["http"]
      BY <1>0, <2>1, <2>2, <2>4, EnabledOf, DepsOf
    <3>2. status["download"] = "ok" /\ status["inject"] = "ok"
      BY <2>1, <3>1
    <3>3. fs.iso[getIsoFile].src = "new" /\ (cfg.cloud = "new" => fs.iso[getIsoFile].cc = "new")
      BY <1>0, <3>2 DEF IsoPart
    <3> QED BY <2>4, <3>3 DEF fromImage
  <2> QED BY <1>0, <2>3, <2>4
<1>2. ASSUME status["pixie"] = "serving", ~rawDiskIsSet(cfg)
      PROVE  fs.cc = cfg.cloud /\ (NamedKairos(cfg) => fs.net = [src |-> "new", prefix |-> "kairos"])
  <2>1. /\ "pixie" \in Registered(cfg) /\ "pixie" \in Enabled(cfg) /\ Registered(cfg) = Steps /\ ~Cleaned
        /\ \A d \in Deps(cfg)["pixie"] : d \in Enabled(cfg) => status[d] = "ok"
    BY <1>2, ServerRests DEF Background
  <2>2. Deps(cfg)["pixie"] = {"extract", "cc"} /\ "extract" \in Registered(cfg)
    BY <1>0, <2>1, DepsOf DEF Steps
  <2>3. "extract" \in Enabled(cfg) /\ "cc" \in Enabled(cfg)
    BY <1>2, <2>1, <2>2, EnabledOf, StepsOf DEF rawDiskIsSet
  <2>4. status["extract"] = "ok" /\ status["cc"] = "ok"
    BY <2>1, <2>2, <2>3
  <2>5. fs.cc = cfg.cloud
    BY <2>1, <2>4 DEF PipeAll, SourcesInv
  <2> QED BY <1>0, <2>1, <2>4, <2>5 DEF NetPart
<1> QED BY <1>1, <1>2 DEF ServersServeThisBuild

LEMMA OutputsFollow ==
    ASSUME PipeAll PROVE OutputsAreThisBuilds
<1>1. DeliversWhatWasAsked /\ ConfigIsThisBuilds
  BY Delivered DEF DeliversWhatWasAsked, ConfigIsThisBuilds
<1> QED BY <1>1, Served DEF OutputsAreThisBuilds

(***************************************************************************)
(* What the builders borrow of their machine.                              *)
(***************************************************************************)
LEMMA LoopsTakeTurns ==
    ASSUME [Next]_vars PROVE [RawNext]_<<raw, loop>> /\ [PipeNext]_pipeVars
BY DEF Next, vars, builders, pipeVars

LEMMA LoopsStart ==
    ASSUME Init PROVE LoopGood
<1>1. PICK jobs \in {RawJobs, {None}} : RawInit(jobs)
  BY DEF Init
<1> QED BY <1>1, RawStarts

LEMMA GraphStarts ==
    ASSUME Init PROVE PipeAll
<1>1. PICK configs \in {Refused, Configs}, view \in {"new", "rejected"} : PipeInit(configs, view)
  BY DEF Init, NoPipeline
<1>2. Refused \subseteq Config
  BY DEF Refused, Configured, Config, ISONames, RawNames
<1>3. configs \in SUBSET Config
  BY <1>2, PipeAssumption
<1> QED BY <1>1, <1>3, PipeAllStarts

LEMMA RawTyped ==
    ASSUME LoopGood, RawSound PROVE RawTypeOK
<1>1. DOMAIN raw = Builds /\ loop \in [Loops -> Builds \union {"host", "free"}]
  BY DEF LoopGood, LoopInv
<1>2. ASSUME NEW b \in Builds
      PROVE  /\ raw[b].pc \in Pcs
             /\ raw[b].job \in {j[b] : j \in RawJobs} \union {NoJob}
             /\ raw[b].loop \in Loops \union {NoLoop}
             /\ raw[b].res \in Results
             /\ raw[b].image \in Nat /\ raw[b].state \in Nat
             /\ raw[b].disk.size % Sector = 0
  <2>1. SoundAt(b, raw[b])
    BY DEF RawSound
  <2>2. CASE raw[b].job = NoJob
    <3>1. 0 % Sector = 0
      BY UnitAssumption
    <3> QED BY <2>1, <2>2, <3>1 DEF SoundAt, NoBuild, NoFile, Pcs, Results
  <2>3. CASE raw[b].job # NoJob
    BY <2>1, <2>3 DEF SoundAt, BuildInv, PartInv, TableInv
  <2> QED BY <2>1, <2>2, <2>3 DEF SoundAt
<1> QED BY <1>1, <1>2 DEF RawTypeOK

LEMMA SoundStarts ==
    ASSUME Init PROVE LoopGood /\ RawSound
<1>1. PICK jobs \in {RawJobs, {None}} : RawInit(jobs)
  BY DEF Init
<1>2. \A j \in jobs, b \in Builds : j[b] = NoJob \/ j \in RawJobs
  BY <1>1 DEF None, One
<1> QED BY <1>1, <1>2, LoopsStart, RawSoundStarts

\* A raw disk build that is attached to a loop device finds its own disk behind it, however
\* many builds run on the host and whatever the host does with its devices
\* (installGrubToDisk in rawDiskGeneration.go).
THEOREM LoopDevicesAreMine == Spec => []LoopDeviceIsMine
<1>1. Init => LoopGood
  BY LoopsStart
<1>2. LoopGood /\ [Next]_vars => LoopGood'
  BY LoopsTakeTurns, RawStep
<1>3. LoopGood => LoopDeviceIsMine
  BY DEF LoopGood, LoopInv, LoopDeviceIsMine
<1> QED BY <1>1, <1>2, <1>3, PTL DEF Spec

\* Whatever fails, a builder gives back what it borrows: its loop device (unless kpartx or
\* losetup refuse), its working directories, and, for a command, the unpacked rootfs, the
\* netboot files and the cloud config in its destination (CleanTmpDirs and the deferred
\* removals of iso.go, uki.go and rawDiskGeneration.go).
THEOREM BuildersCleanUp == Spec => []CleansUp
<1> DEFINE IsoGood == IsoTypeOK /\ IsoInv /\ IsoTidy
           Good == LoopGood /\ IsoGood /\ UkiGood /\ PipeGood
<1>1. Init => Good
  <2> SUFFICES ASSUME Init PROVE Good
    OBVIOUS
  <2>1. LoopGood
    BY LoopsStart
  <2>2. IsoGood
    <3>1. PICK jobs \in {{NoIsoJob}, IsoJobs} : IsoInit(jobs)
      BY DEF Init
    <3> QED BY <3>1, IsoStarts
  <2>3. UkiGood
    <3>1. PICK jobs \in {{NoUkiJob}, UkiJobs} : UkiInit(jobs)
      BY DEF Init
    <3> QED BY <3>1, UkiStarts
  <2>4. PipeGood
    <3>1. PICK configs \in {Refused, Configs}, view \in {"new", "rejected"} : PipeInit(configs, view)
      BY DEF Init, NoPipeline
    <3> QED BY <3>1, PipeStarts
  <2> QED BY <2>1, <2>2, <2>3, <2>4
<1>2. Good /\ [Next]_vars => Good'
  BY LoopsTakeTurns, BuildersTakeTurns, RawStep, IsoStep, UkiStep, PipeStep
<1>3. Good => CleansUp
  <2> SUFFICES ASSUME Good PROVE CleansUp
    OBVIOUS
  <2>1. LoopDeviceReturned
    BY DEF LoopGood, LoopInv, LoopDeviceReturned
  <2>2. WorkingDirsRemoved
    BY DEF IsoTidy, UkiGood, UkiInv, UkiTidy, WorkingDirsRemoved
  <2>3. NothingLeftBehind
    BY DEF PipeGood, CleanInv
  <2> QED BY <2>1, <2>2, <2>3 DEF CleansUp
<1> QED BY <1>1, <1>2, <1>3, PTL DEF Spec

\* A raw disk that Build reports as made is what it should be (rawDiskGeneration.go,
\* rawDiskOutput.go): it has a table, unless a board's firmware was written over it, that
\* gives each partition the bytes its image was copied to, whatever the sizes of the rootfs
\* and of the partitions; it boots, where there is a loader of its architecture, and can
\* reset itself; a disk converted for Azure or GCE has a valid size and geometry.
THEOREM RawDisksAreRight == Spec => []RawDiskIsRight
<1> DEFINE Good == LoopGood /\ RawSound
<1>1. Init => Good
  BY SoundStarts
<1>2. Good /\ [Next]_vars => Good'
  BY LoopsTakeTurns, RawStep, RawSoundStep DEF LoopGood
<1>3. Good => RawDiskIsRight
  BY DisksFollow
<1> QED BY <1>1, <1>2, <1>3, PTL DEF Spec

\* A build of the graph of steps that reports success has made what its configuration asks
\* for, whole, with this build's cloud config, and its servers serve that and nothing else
\* (deployer/, pkg/ops): for every configuration, whatever fails, in whichever order the
\* goroutines of a layer run.
THEOREM OutputsAreRight == Spec => []OutputsAreThisBuilds
<1>1. Init => PipeAll
  BY GraphStarts
<1>2. PipeAll /\ [Next]_vars => PipeAll'
  BY LoopsTakeTurns, PipeAllStep
<1>3. PipeAll => OutputsAreThisBuilds
  BY OutputsFollow
<1> QED BY <1>1, <1>2, <1>3, PTL DEF Spec

\* The builders' variables have their types.
THEOREM BuildersTypeCorrect == Spec => []TypeOK
<1> DEFINE IsoGood == IsoTypeOK /\ IsoInv /\ IsoTidy
           Good == LoopGood /\ RawSound /\ IsoGood /\ UkiGood /\ PipeAll
<1>1. Init => Good
  <2> SUFFICES ASSUME Init PROVE Good
    OBVIOUS
  <2>1. LoopGood /\ RawSound /\ PipeAll
    BY SoundStarts, GraphStarts
  <2>2. IsoGood
    <3>1. PICK jobs \in {{NoIsoJob}, IsoJobs} : IsoInit(jobs)
      BY DEF Init
    <3> QED BY <3>1, IsoStarts
  <2>3. UkiGood
    <3>1. PICK jobs \in {{NoUkiJob}, UkiJobs} : UkiInit(jobs)
      BY DEF Init
    <3> QED BY <3>1, UkiStarts
  <2> QED BY <2>1, <2>2, <2>3
<1>2. Good /\ [Next]_vars => Good'
  <2> SUFFICES ASSUME Good, [Next]_vars PROVE Good'
    OBVIOUS
  <2>1. LoopGood' /\ RawSound' /\ PipeAll'
    BY LoopsTakeTurns, RawStep, RawSoundStep, PipeAllStep DEF LoopGood
  <2>2. IsoGood' /\ UkiGood'
    BY BuildersTakeTurns, IsoStep, UkiStep
  <2> QED BY <2>1, <2>2
<1>3. Good => TypeOK
  BY RawTyped DEF TypeOK, UkiGood, PipeAll, Typed
<1> QED BY <1>1, <1>2, <1>3, PTL DEF Spec
=============================================================================
