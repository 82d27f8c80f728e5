----------------------------- MODULE MCBulkReader -----------------------------
(***************************************************************************)
(* Records up to the chunk budget, which is what keeps a sound file's      *)
(* carried bytes below it; longer ones are MCLongFiles.  GarbageLen is     *)
(* longer than any of the files: bytes that are no record give a length    *)
(* that leads out of the file.                                             *)
(***************************************************************************)
EXTENDS BulkReader, SmallFiles

OneCut(lens, spatial) ==
  {FileOf(lens, spatial, TRUE, <<c>>) : c \in 1 .. lens[1] + lens[2]}

SoundFiles ==
  UNION {FilesWith(lens, spatial, TRUE) :
           lens \in {<<>>, <<3>>, <<2, 3>>}, spatial \in BOOLEAN}
  \cup UNION {OneCut(lens, spatial) :
           lens \in {<<6, 2>>, <<3, 2, 2>>}, spatial \in BOOLEAN}
  \cup FilesWith(<<2, 2>>, FALSE, FALSE)
  \cup {FileOf(<<2, 2, 2, 2, 2>>, TRUE, TRUE, <<>>)}

MCFiles == UNION {Damage(f) : f \in SoundFiles}

(* What the theorems about the rows and about sound files suppose holds of *)
(* each of these files.                                                    *)
ASSUME FilesTold == \A f \in MCFiles : GridTold(f) /\ CarryFits(f)

MCLongFiles == FilesWith(<<7>>, FALSE, TRUE)
=============================================================================
