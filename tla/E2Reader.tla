------------------------------ MODULE E2Reader ------------------------------
(***************************************************************************)
(* The block stream of an E2 file and E2Reader's walk over it: reading     *)
(* blocks, framing records, probing the first record block for the date    *)
(* flag and the integer base, and resolving references to blob blocks.     *)
(*                                                                         *)
(* A file is [fields, blocks]; a block is [kind, fault, recs, count, data] *)
(*                                                                         *)
(*   kind    "record", "blob", "index" (spatial index), "end" (the zero    *)
(*           byte), "unknown"                                              *)
(*   fault   "none", "bad" (marker or compressed bytes wrong), "huge" (its *)
(*           size exceeds MAX_BLOCK_SIZE), "cut" (the file ends inside it) *)
(*   recs    the records of a record block, count the number it declares   *)
(*   data    the bytes of a blob block                                     *)
(*                                                                         *)
(* A block's number stands for its file offset.                            *)
(***************************************************************************)
EXTENDS E2Record, FiniteSetsExt

BlockType ==
  [kind : {"record", "blob", "index", "end", "unknown"},
   fault : {"none", "bad", "huge", "cut"},
   recs : Seq(Seq(Nat)), count : Nat, data : Seq(Nat)]

CONSTANT SampleSize   (* records the base is judged by, 128 in the code    *)

ASSUME SampleAssumption == SampleSize \in Nat

(* E2Reader::open.                                                         *)
OpenReader ==
  [pos |-> 1, blobs |-> {}, last_blob |-> 0, at |-> 0, spans |-> <<>>, idx |-> 0,
   flag |-> FALSE, base |-> 6, detected |-> FALSE, exhausted |-> FALSE]

check_verified_types(file) == \A i \in DOMAIN file.fields : is_e2_verified_type(file.fields[i])

-----------------------------------------------------------------------------
(* read_block, the stream standing at a block: the outcomes [got, at,      *)
(* next] of reading the first block that is not passed over.  After a size *)
(* or a type that makes no sense the stream stands inside the block, and   *)
(* may be taken up by whatever of the rest looks like a block.             *)
Skipped(b) == b.kind = "index" /\ b.fault \notin {"huge", "cut"}

Landing(file, p) ==
  Min({q \in p..Len(file.blocks) + 1 : q <= Len(file.blocks) => ~Skipped(file.blocks[q])})

read_block(file, from) ==
  LET p == Landing(file, from)
      b == file.blocks[p]
      end == Len(file.blocks) + 1
      To(got, next) == [got |-> got, at |-> p, next |-> next]
  IN IF p = end THEN {To("none", p)}
     ELSE IF b.kind = "end" THEN {To("none", p + 1)}
     ELSE IF b.kind = "unknown" \/ b.fault = "huge" THEN {To("error", q) : q \in (p + 1)..end}
     ELSE IF b.fault = "cut" THEN {To("error", end)}
     ELSE IF b.fault = "bad" THEN {To("error", p + 1)}
     ELSE {To(b.kind, p + 1)}

(* Where the walk of count_records stops, and what it adds up.             *)
StreamEnd(file) ==
  Min({p \in DOMAIN file.blocks : file.blocks[p].kind = "end"} \cup {Len(file.blocks) + 1})

Readable(file, p) ==
  LET b == file.blocks[p]
  IN b.kind # "unknown" /\ b.fault \notin (IF b.kind = "index" THEN {"huge", "cut"}
                                           ELSE {"huge", "cut", "bad"})

RecordBlocks(file) ==
  {p \in 1..(StreamEnd(file) - 1) : file.blocks[p].kind = "record"}

Sums(counts) ==
  LET upto[n \in 0..Len(counts)] == IF n = 0 THEN 0 ELSE upto[n - 1] + counts[n]
  IN upto

Total(counts) == Sums(counts)[Len(counts)]

Declared(file) ==
  [p \in 1..(StreamEnd(file) - 1) |->
     IF p \in RecordBlocks(file) THEN file.blocks[p].count ELSE 0]

count_records(file) ==
  IF \E p \in 1..(StreamEnd(file) - 1) : ~Readable(file, p) THEN [ok |-> FALSE, total |-> 0]
  ELSE [ok |-> TRUE, total |-> Total(Declared(file))]

(* A block that declares more records than it holds is refused; bytes      *)
(* after the declared ones are not looked at.                              *)
CanFrame(b) == b.count <= Len(b.recs)
frame_record_spans(b) == SubSeq(b.recs, 1, b.count)

-----------------------------------------------------------------------------
(* The probe of the first record block                                     *)

detect_date_flag(fields, rec, base) ==
  /\ "Date" \in ToSet(fields)
  /\ try_decode_consumed(fields, rec, TRUE, base)
       > try_decode_consumed(fields, rec, FALSE, base)

score(fields, spans, flag, base) ==
  LET Consumed(k) == try_decode_consumed(fields, spans[k], flag, base)
      sample == 1..Min({SampleSize, Len(spans)})
  IN <<Cardinality({k \in sample : Consumed(k) = Len(spans[k])}),
       MapThenSumSet(Consumed, sample)>>

Better(a, b) == a[1] > b[1] \/ (a[1] = b[1] /\ a[2] > b[2])

detect_integer_base(fields, spans, flag) ==
  IF "Int32" \in ToSet(fields)
       /\ Better(score(fields, spans, flag, 5), score(fields, spans, flag, 6))
    THEN 5 ELSE 6

Probed_Once(fields, spans, r) ==
  IF r.detected THEN r
  ELSE [r EXCEPT !.detected = TRUE, !.base = detect_integer_base(fields, spans, FALSE)]

Probed(fields, spans, r) ==
  LET Flag(base) == spans # <<>> /\ detect_date_flag(fields, spans[1], base)
      With(base) == [r EXCEPT !.detected = TRUE, !.base = base, !.flag = Flag(base)]
  IN IF r.detected THEN r ELSE With(detect_integer_base(fields, spans, Flag(6)))

-----------------------------------------------------------------------------
(* One turn of advance_to_record_block's loop: what is new of the reader   *)
(* after the outcome o of read_block, and whether it is an error.          *)
TakeBlob_FirstOnly(r, p) ==
  [r EXCEPT !.blobs = @ \cup {p}, !.last_blob = IF @ = 0 THEN p ELSE @]

TakeBlob(r, p) == [r EXCEPT !.blobs = @ \cup {p}, !.last_blob = p]

TakeRecords(file, r, p, spans) ==
  [Probed(file.fields, spans, r) EXCEPT !.at = p, !.spans = spans, !.idx = 0]

advance_to_record_block(file, r, o) ==
  LET moved == [r EXCEPT !.pos = o.next]
  IN CASE o.got = "none"  -> [ok |-> TRUE, r |-> [moved EXCEPT !.exhausted = TRUE]]
       [] o.got = "error" -> [ok |-> FALSE, r |-> moved]
       [] o.got = "blob"  -> [ok |-> TRUE, r |-> TakeBlob(moved, o.at)]
       [] o.got = "record" ->
            IF CanFrame(file.blocks[o.at])
              THEN [ok |-> TRUE, r |-> TakeRecords(file, moved, o.at,
                                                   frame_record_spans(file.blocks[o.at]))]
              ELSE [ok |-> FALSE, r |-> moved]

-----------------------------------------------------------------------------
(* decode_record: the values, with references replaced by what they refer  *)
(* to.                                                                     *)
Resolved(file, r, v) ==
  LET slice == SubSeq(file.blocks[r.last_blob].data, v[2] + 1, v[2] + v[3])
  IN CASE v[1] = "slice" -> IF r.last_blob # 0 /\ v[2] + v[3] <= Len(file.blocks[r.last_blob].data)
                              THEN Decoded(<<"bytes", slice>>, 0) ELSE Failed
       [] v[1] = "whole" -> IF v[2] \in r.blobs
                              THEN Decoded(<<"bytes", file.blocks[v[2]].data>>, 0) ELSE Failed
       [] OTHER -> Decoded(v, 0)

WithBlobs(file, r, verdict) ==
  IF verdict.kind # "ok" THEN verdict
  ELSE LET values == [i \in DOMAIN verdict.values |-> Resolved(file, r, verdict.values[i])]
       IN IF \E i \in DOMAIN values : ~values[i].ok THEN Verdict("unresolved", <<>>)
          ELSE Verdict("ok", [i \in DOMAIN values |-> values[i].v])

decode_record(file, r, rec) ==
  WithBlobs(file, r, decode_record_values(file.fields, rec, r.flag, r.base))
=============================================================================
