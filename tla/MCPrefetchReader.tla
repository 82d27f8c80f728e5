--------------------------- MODULE MCPrefetchReader ---------------------------
(***************************************************************************)
(* Small files for PrefetchReader: up to three records of two or three     *)
(* bytes behind a two-byte header, groups of two records, every way to cut *)
(* the stream into at most three data blocks (empty ones included), grid   *)
(* blocks after each group and after the last record of a spatial file,    *)
(* and at most one fault: a corrupt block, a short last block, or a        *)
(* missing tail.  One file has two full groups: a caller can then go on    *)
(* after an error in the second.                                           *)
(***************************************************************************)
EXTENDS PrefetchReader, SmallFiles

RecordLengths == {<<>>, <<2>>, <<3>>, <<2, 3>>, <<3, 2, 2>>, <<2, 2, 3>>}

SoundFiles ==
  UNION {FilesWith(lens, spatial, TRUE) : lens \in RecordLengths, spatial \in BOOLEAN}
  \cup FilesWith(<<2, 2>>, FALSE, FALSE)
  \cup {FileOf(<<2, 2, 2, 2>>, TRUE, TRUE, <<>>)}

AllFiles == UNION {Damage(f) : f \in SoundFiles}

MCFiles == {f \in AllFiles : GridDetectable(f)}

(* Files with a spatial index, whatever their first blocks look like.      *)
MCSpatialFiles == {f \in SoundFiles : f.spatial}

(* Enough for the counterexamples that need a damaged file.                *)
MCDamagedFiles ==
  {f \in MCFiles : NumRecords(f) = 2 /\ ~f.spatial
                   /\ \E b \in 1 .. NumBlocks(f) : f.fault[b] # "none"}

=============================================================================
