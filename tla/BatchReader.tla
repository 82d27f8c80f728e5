----------------------------- MODULE BatchReader -----------------------------
(***************************************************************************)
(* Reading a file in batches: the Python class _YxdbBatchReader over the   *)
(* next_batch of the E1 and of the E2 reader, and E2's into_dataframe,     *)
(* which is the same loop with no caller in between.                       *)
(*                                                                         *)
(* The caller asks for batches until one is None; after an error it may    *)
(* ask again or give up.  An E1 file is [recs]: of each record its header  *)
(* announces, recs says that it is there ("ok") or that the file ends      *)
(* before it ("cut"); what the block framing of an E1 file adds is in      *)
(* PrefetchReader.  An E2 file is a file of E2Reader.                      *)
(***************************************************************************)
EXTENDS E2Reader

CONSTANTS
  Requests, (* sets of [source, options]: a file, [format, file], and how  *)
            (* it is read, [batch_size, n_rows, columns]: n_rows is -1 for *)
            (* no limit, columns "all", "none" (an empty list), "unknown"  *)
  MaxCalls  (* bound: calls a caller makes                                 *)

(* The bindings refuse a batch size of 0, and a header that names a type   *)
(* of field which is none of these.                                        *)
ASSUME RequestAssumption ==
  \A family \in Requests : \A r \in family :
    /\ r.options \in [batch_size : Nat \ {0}, n_rows : Nat \cup {-1},
                      columns : {"all", "none", "unknown"}]
    /\ \/ r.source.format = "E1" /\ r.source.file.recs \in Seq({"ok", "cut"})
       \/ /\ r.source.format = "E2"
          /\ r.source.file.fields \in Seq(FieldTypes)
          /\ r.source.file.blocks \in Seq(BlockType)

VARIABLES
  source,      (* the file opened                                          *)
  options,
  reader,      (* the E2 reader, or the E1 reader's current_record         *)
  rows_read,
  state,       (* "idle", "reading", "done"                                *)
  want,        (* records the call in progress may still take              *)
  got,         (* rows it has decoded                                      *)
  out          (* what the calls returned: [kind, rows]                    *)

vars == <<source, options, reader, rows_read, state, want, got, out>>

file == source.file
E1 == source.format = "E1"

Init ==
  /\ \E family \in Requests : \E r \in family :
       source = r.source /\ options = r.options
  /\ reader = IF E1 THEN 0 ELSE OpenReader
  /\ rows_read = 0
  /\ state = "idle"
  /\ want = 0
  /\ got = <<>>
  /\ out = <<>>

-----------------------------------------------------------------------------
Return(kind, rows) ==
  /\ state' = IF kind = "none" THEN "done" ELSE "idle"
  /\ out' = Append(out, [kind |-> kind, rows |-> rows])
  /\ got' = <<>>
  /\ want' = 0

(* n_rows, and how much of it is left.                                     *)
Remaining == IF options.n_rows = -1 THEN options.batch_size
             ELSE Max({0, options.n_rows - rows_read})

EffectiveBatch_Whole == IF Remaining = 0 THEN 0 ELSE options.batch_size

EffectiveBatch == Min({options.batch_size, Remaining})

(* An E1 reader at its end answers before it looks at the columns.         *)
AtEnd == EffectiveBatch = 0 \/ (E1 /\ reader >= Len(file.recs))

Refused == options.columns = "unknown" \/ (~E1 /\ ~check_verified_types(file))

(* __next__ up to the first record of next_batch.                          *)
Call ==
  /\ state = "idle" /\ Len(out) < MaxCalls
  /\ \/ AtEnd /\ Return("none", <<>>)
     \/ ~AtEnd /\ Refused /\ Return("error", <<>>)
     \/ /\ ~AtEnd /\ ~Refused
        /\ state' = "reading"
        /\ want' = IF E1 THEN Min({EffectiveBatch, Len(file.recs) - reader})
                   ELSE EffectiveBatch
        /\ UNCHANGED <<got, out>>
  /\ UNCHANGED <<source, options, reader, rows_read>>

(* The end of next_batch and of __next__: a frame has no height without    *)
(* columns.                                                                *)
Height == IF options.columns = "none" THEN 0 ELSE Len(got)

Finish ==
  /\ state = "reading"
  /\ Len(got) = want \/ (~E1 /\ reader.exhausted /\ reader.idx = Len(reader.spans))
  /\ IF got = <<>> THEN Return("none", <<>>)
     ELSE Return("frame", IF options.columns = "none" THEN <<>> ELSE got)
  /\ rows_read' = rows_read + Height
  /\ UNCHANGED <<source, options, reader>>

(* next_record, and push_from_record, which never fails.  The record is    *)
(* counted before its bytes are read.                                      *)
E1Record ==
  /\ state = "reading" /\ E1 /\ Len(got) < want
  /\ reader' = reader + 1
  /\ \/ /\ file.recs[reader + 1] = "ok"
        /\ got' = Append(got, [at |-> 0, n |-> reader + 1, v |-> <<>>])
        /\ UNCHANGED <<state, want, out>>
     \/ /\ file.recs[reader + 1] # "ok"
        /\ Return("error", <<>>)
  /\ UNCHANGED <<source, options, rows_read>>

E2Block ==
  /\ state = "reading" /\ ~E1 /\ Len(got) < want
  /\ reader.idx = Len(reader.spans) /\ ~reader.exhausted
  /\ \E o \in read_block(file, reader.pos) :
       \E a \in {advance_to_record_block(file, reader, o)} :
         /\ reader' = a.r
         /\ \/ a.ok /\ UNCHANGED <<state, want, got, out>>
            \/ ~a.ok /\ Return("error", <<>>)
  /\ UNCHANGED <<source, options, rows_read>>

(* A record that does not decode is passed over all the same.              *)
Passed_OnlyIfDecoded(r, verdict) == IF verdict.kind = "ok" THEN [r EXCEPT !.idx = @ + 1] ELSE r

Passed(r, verdict) == [r EXCEPT !.idx = @ + 1]

E2Decode ==
  /\ state = "reading" /\ ~E1 /\ Len(got) < want
  /\ reader.idx < Len(reader.spans)
  /\ \E verdict \in {decode_record(file, reader, reader.spans[reader.idx + 1])} :
       /\ reader' = Passed(reader, verdict)
       /\ \/ /\ verdict.kind = "ok"
             /\ got' = Append(got, [at |-> reader.at, n |-> reader.idx + 1,
                                    v |-> verdict.values])
             /\ UNCHANGED <<state, want, out>>
          \/ /\ verdict.kind # "ok"
             /\ Return("error", <<>>)
  /\ UNCHANGED <<source, options, rows_read>>

(* The caller stops at an error: a for loop, into_dataframe_projected's ?. *)
GiveUp ==
  /\ state = "idle" /\ out # <<>> /\ Last(out).kind = "error"
  /\ state' = "done"
  /\ UNCHANGED <<source, options, reader, rows_read, want, got, out>>

Terminated == state = "done" /\ UNCHANGED vars

Next == Call \/ E1Record \/ E2Block \/ E2Decode \/ Finish \/ GiveUp \/ Terminated

Spec == Init /\ [][Next]_vars

-----------------------------------------------------------------------------
(* What the rows should be                                                 *)

Errors == {k \in DOMAIN out : out[k].kind = "error"}

Rows(results) == FlattenSeq([k \in DOMAIN results |-> results[k].rows])

FirstError == IF Errors = {} THEN Len(out) + 1 ELSE Min(Errors)

(* Row (p, n) comes before row (q, m).                                     *)
Before(a, b) == a.at < b.at \/ (a.at = b.at /\ a.n < b.n)

(* The records of an E2 file in file order.                                *)
RecordsOf(f) ==
  FlattenSeq([p \in 1..(StreamEnd(f) - 1) |->
    IF f.blocks[p].kind = "record"
      THEN [n \in 1..f.blocks[p].count |-> [at |-> p, n |-> n]] ELSE <<>>])

(* The blob block a slice in block p is relative to: the last one before   *)
(* it, whatever the reader has seen.                                       *)
BlobBefore(f, p) == {q \in 1..(p - 1) : f.blocks[q].kind = "blob"}

Meant(f, p, v) ==
  CASE v[1] = "slice" ->
         <<"bytes", SubSeq(f.blocks[Max(BlobBefore(f, p))].data, v[2] + 1, v[2] + v[3])>>
    [] v[1] = "whole" -> <<"bytes", f.blocks[v[2]].data>>
    [] OTHER -> v

ReadsAs(f, row, flag) ==
  \E values \in Framings(f.fields, f.blocks[row.at].recs[row.n], flag) :
    row.v = [i \in DOMAIN values |-> Meant(f, row.at, values[i])]

Positions(rows) == [k \in DOMAIN rows |-> [at |-> rows[k].at, n |-> rows[k].n]]

AllRecords ==
  IF E1 THEN [n \in DOMAIN file.recs |-> [at |-> 0, n |-> n]] ELSE RecordsOf(file)

(* A batch holds the records that follow those of the batches before it:   *)
(* up to the first error nothing is left out, and after it, when the rows  *)
(* decoded by the failed call are gone, no row comes twice or out of       *)
(* order.  Every row up to the first error reads the bytes of its record,  *)
(* with a slice taken from the blob block that precedes the record.        *)
RowsAreExact ==
  LET rows == Rows(out)
      sure == Rows(SubSeq(out, 1, FirstError - 1))
  IN /\ \A k \in 1..(Len(rows) - 1) : Before(rows[k], rows[k + 1])
     /\ Positions(sure) = SubSeq(AllRecords, 1, Len(sure))
     /\ ~E1 => \A k \in DOMAIN sure : ReadsAs(file, sure[k], reader.flag)

(* None without an error before it means that the file is at its end, or   *)
(* that exactly n_rows rows were returned; and then count_records, which   *)
(* decodes nothing, counts the rows that decoding found.                   *)
EndMeansAll ==
  (out # <<>> /\ Last(out).kind = "none" /\ Errors = {} /\ options.columns = "all") =>
    \/ Len(Rows(out)) = options.n_rows
    \/ IF E1 THEN Len(Rows(out)) = Len(file.recs)
       ELSE count_records(file) = [ok |-> TRUE, total |-> Len(Rows(out))]

(* A record that reads in one way only, under the date flag f its file was *)
(* written with, and whose references can be resolved.                     *)
SoundRecord(f, row, flag) ==
  LET all == Framings(f.fields, f.blocks[row.at].recs[row.n], flag)
  IN /\ Cardinality(all) = 1
     /\ \A values \in all : \A i \in DOMAIN values :
          LET v == values[i]
          IN /\ v[1] = "slice" =>
                  /\ BlobBefore(f, row.at) # {}
                  /\ v[2] + v[3] <= Len(f.blocks[Max(BlobBefore(f, row.at))].data)
             /\ v[1] = "whole" => v[2] \in BlobBefore(f, row.at)
             /\ v # NotANumber

(* The probe can tell the flag: no Int32, whose width it must guess, comes *)
(* before the first date, and the first record block has a record.         *)
Conclusive(f) ==
  /\ \A i \in DOMAIN f.fields : f.fields[i] = "Date" =>
       \/ \A j \in 1..(i - 1) : f.fields[j] # "Int32"
       \/ \E j \in 1..(i - 1) : f.fields[j] = "Date"
  /\ RecordBlocks(f) # {} => f.blocks[Min(RecordBlocks(f))].count > 0

SoundFile(f) ==
  /\ check_verified_types(f)
  /\ "Int32" \in ToSet(f.fields) => Len(f.fields) <= MAX_AMBIGUITY_FIELDS
  /\ count_records(f).ok
  /\ \A p \in RecordBlocks(f) : CanFrame(f.blocks[p])
  /\ Conclusive(f)
  /\ \E flag \in BOOLEAN : \A k \in DOMAIN RecordsOf(f) : SoundRecord(f, RecordsOf(f)[k], flag)

(* A file whose records can each be read in exactly one way is read: the   *)
(* probe finds the date flag, and no choice of base and no order of blob   *)
(* and record blocks makes a batch fail.  This is so while the search      *)
(* stays within its limit of states, which the records of a run do ("Real  *)
(* records need at most a few hundred"); it is not so of every record.     *)
SoundFilesAreRead ==
  (state = "idle" /\ ~E1 /\ Errors # {} /\ options.columns # "unknown") => ~SoundFile(file)

(* The record about to be decoded gets the verdict it deserves, whatever   *)
(* base the probe prefers: values only if it reads in one way, "ambiguous" *)
(* only if it has an Int32 and reads in two, "misfit" only if it does not  *)
(* read at all.  A NaN, Float or Double, is unequal to itself and can make *)
(* one reading look like two.                                              *)
AtRecord == state = "reading" /\ ~E1 /\ Len(got) < want /\ reader.idx < Len(reader.spans)

VerdictsAreRight ==
  AtRecord =>
    LET rec == reader.spans[reader.idx + 1]
    IN \A base \in {5, 6} :
         VerdictIsRight(decode_record_values(file.fields, rec, reader.flag, base),
                        file.fields, rec, reader.flag)

(* The iteration ends, also for a caller that asks again after every       *)
(* error: a frame holds a record and an error passes over the block or the *)
(* record that caused it, so the calls before None are not more than the   *)
(* file has of both.  Only a request that can never be served is refused   *)
(* for ever.                                                               *)
Held(f) == [p \in DOMAIN f.blocks |-> Len(f.blocks[p].recs)]

Work ==
  IF E1 THEN Len(file.recs)
  ELSE Len(file.blocks) + Total(Held(file))

IterationEnds == Cardinality({k \in DOMAIN out : out[k].kind # "none"}) <= Work \/ Refused
=============================================================================
