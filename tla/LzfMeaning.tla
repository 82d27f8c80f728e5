------------------------------ MODULE LzfMeaning ------------------------------
(***************************************************************************)
(* What a sequence of LZF tokens stands for, told from the format and not  *)
(* from lzf_decompress: the reference that compress() is checked against.  *)
(***************************************************************************)
EXTENDS Lzf

(* What compressed bytes mean, from the format: the bytes told by tokens   *)
(* from position p on, given the bytes told so far.                        *)
RECURSIVE Meaning(_, _, _)
Meaning(o, p, told) ==
  IF p > Len(o) THEN told
  ELSE IF o[p] < MAX_LIT
    THEN Meaning(o, p + o[p] + 2, told \o SubSeq(o, p + 1, p + o[p] + 1))
    ELSE LET long == o[p] \div MAX_LIT = ESCAPE
             len == o[p] \div MAX_LIT + (IF long THEN o[p + 1] ELSE 0) + 2
             last == IF long THEN p + 2 ELSE p + 1
             back == (o[p] % MAX_LIT) * ByteValues + o[last] + 1
             longer[n \in 0..len] ==
               IF n = 0 THEN told
               ELSE Append(longer[n - 1], longer[n - 1][Len(told) + n - back])
         IN Meaning(o, last + 1, longer[len])

(* Whenever compress() is between two bytes of its input, what it has     *)
(* written, with the open literal run closed, stands for exactly the bytes *)
(* it has passed: matches of any length and distance, references that      *)
(* overlap their own output, full runs and empty runs included.            *)
OutputMeansInput ==
  pc = "compress" /\ in_len > 4 =>
    Meaning(CloseRun(out, lit, lit_start), 1, <<>>) = SubSeq(input, 1, ip)
=============================================================================
