----------------------------- MODULE RecordStream -----------------------------
(***************************************************************************)
(* What a streaming reader promises its caller: each call returns the next *)
(* record of the file, whole and in order, then the end; a damaged file    *)
(* may answer with an error instead, and says nothing more after it.  Every *)
(* call returns.  How blocks, threads and channels achieve this is the     *)
(* business of the module that implements this one.                        *)
(***************************************************************************)
EXTENDS Integers

VARIABLES
  total,      (* records of the file                                       *)
  damaged,    (* the file is not what its header says                      *)
  rows,       (* records delivered so far                                  *)
  row,        (* the record in the caller's hands, 0 for none              *)
  outcome,    (* how the last call ended                                   *)
  busy,       (* a call is in progress                                     *)
  open        (* the reader has not been dropped                           *)

vars == <<total, damaged, rows, row, outcome, busy, open>>

Init ==
  /\ total \in Nat
  /\ damaged \in BOOLEAN
  /\ rows = 0
  /\ row = 0
  /\ outcome = "none"
  /\ busy = FALSE
  /\ open = TRUE

(* The caller asks for the next record while there is one.                 *)
Call ==
  /\ open /\ ~busy
  /\ outcome # "error"
  /\ rows < total
  /\ busy' = TRUE
  /\ row' = 0
  /\ UNCHANGED <<total, damaged, rows, outcome, open>>

ReturnRow ==
  /\ busy
  /\ rows' = rows + 1
  /\ row' = rows + 1
  /\ outcome' = "row"
  /\ busy' = FALSE
  /\ UNCHANGED <<total, damaged, open>>

(* Every record has been delivered: the call answers at once.              *)
CallAtEnd ==
  /\ open /\ ~busy
  /\ outcome # "error"
  /\ rows = total
  /\ outcome' = "end"
  /\ row' = 0
  /\ UNCHANGED <<total, damaged, rows, busy, open>>

ReturnError ==
  /\ busy
  /\ damaged
  /\ outcome' = "error"
  /\ busy' = FALSE
  /\ UNCHANGED <<total, damaged, rows, row, open>>

Close ==
  /\ open /\ ~busy
  /\ open' = FALSE
  /\ row' = 0
  /\ UNCHANGED <<total, damaged, rows, outcome, busy>>

Return == ReturnRow \/ ReturnError

Next == Call \/ CallAtEnd \/ Return \/ Close

Spec == Init /\ [][Next]_vars /\ WF_vars(Return)
=============================================================================
