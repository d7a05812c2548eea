---------------------------- MODULE DiskFormats ----------------------------
(***************************************************************************)
(* Sizes and layouts of disk images: partition tables, sector rounding,    *)
(* and the size rules of the Azure and GCE formats (pkg/ops).  Sizes count *)
(* units of which a sector has Sector; the code's unit is the byte.        *)
(***************************************************************************)
EXTENDS Integers, Sequences, FiniteSetsExt

CONSTANTS
    Sector,     \* units in a sector
    MB          \* units in a megabyte

ASSUME UnitAssumption == /\ Sector \in Nat \ {0}
                         /\ MB = 2048 * Sector

GB == 1024 * MB

roundToNearestSector(size) ==
    IF size % Sector = 0 THEN size ELSE size + Sector - (size % Sector)

getSectorEndFromSize(start, size) == (size \div Sector) + start - 1

\* The size of recovery.img, in MB; 0 is the refusal of a configured size
\* that is smaller than what it must hold.
recoveryImageSize(source, configured) ==
    CASE configured > 0 /\ configured < source  -> 0
      [] configured > 0 /\ configured >= source -> configured
      [] OTHER                                  -> source + 200

recoveryPartitionSize(image) == 2 * image + 150

\* Slip: each partition starts on the last sector of the one before it.
tableOverlapping(parts) ==
    LET End[i \in 0 .. Len(parts)] ==
          IF i = 0 THEN 2048
          ELSE getSectorEndFromSize(End[i - 1], roundToNearestSector(parts[i].size))
    IN  [i \in 1 .. Len(parts) |->
           [name |-> parts[i].name, start |-> End[i - 1], end |-> End[i]]]

\* The partitions of the table createDiskImage writes: the first at sector
\* 2048, each of the others behind its predecessor.
partitionTable(parts) ==
    LET End[i \in 0 .. Len(parts)] ==
          IF i = 0 THEN 2047
          ELSE getSectorEndFromSize(End[i - 1] + 1, roundToNearestSector(parts[i].size))
    IN  [i \in 1 .. Len(parts) |->
           [name |-> parts[i].name, start |-> End[i - 1] + 1, end |-> End[i]]]

\* Where a file lies in the concatenation of others, and how long that is.
Concatenated(parts) ==
    LET Offset[i \in 0 .. Len(parts)] ==
          IF i = 0 THEN 0 ELSE Offset[i - 1] + parts[i].size
    IN  [at |-> [i \in 1 .. Len(parts) |-> Offset[i - 1]], size |-> Offset[Len(parts)]]

\* The size an Azure disk is grown to, before its footer of one sector.
azureSize(size) == ((size + MB - 1) \div MB) * MB

\* The size a GCE disk is grown to.
gceSize(size) == ((size \div GB) + 1) * GB

\* The geometry of the VHD footer: the first track length whose cylinders fit.
chsCalculation(sectors) ==
    LET total == Min({sectors, 65535 * 16 * 255})
        Geometry(h, t) ==
          [cylinders |-> (total \div t) \div h, heads |-> h, track |-> t]
        cth17 == total \div 17
        heads == Max({4, (cth17 + 1023) \div 1024})
    IN  IF total >= 65535 * 16 * 63 THEN Geometry(16, 255)
        ELSE IF cth17 < heads * 1024 /\ heads <= 16 THEN Geometry(heads, 17)
        ELSE IF total \div 31 < 16 * 1024 THEN Geometry(16, 31)
        ELSE Geometry(16, 63)

\* The fields of the footer that describe the disk.
newVHDFixed(size) ==
    [size |-> size, geometry |-> chsCalculation(size \div Sector)]
=============================================================================
