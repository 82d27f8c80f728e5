-------------------------- MODULE MCPipelinedWriter --------------------------
(***************************************************************************)
(* DataFrames of up to five rows; a row of eighteen bytes spans six blocks *)
(* of three, one more than the two channels and the compress thread can    *)
(* hold between them.                                                      *)
(***************************************************************************)
EXTENDS FrameWriter

Good(n) == [len |-> n, bad |-> FALSE]
Bad(n)  == [len |-> n, bad |-> TRUE]

MCRowSeqs ==
  {<<>>}
  \cup {[i \in 1 .. 3 |-> Good(f[i])] : f \in [1 .. 3 -> {1, 3, 4}]}
  \cup {<<Good(1), Good(2), Good(2), Good(1), Good(3)>>,
        <<Good(3), Good(3), Good(3), Good(3), Good(3)>>,
        <<Good(18)>>, <<Good(2), Good(18), Good(1)>>,
        <<Good(18), Good(1), Good(9)>>,
        <<Bad(1)>>, <<Good(7), Bad(1)>>, <<Good(7), Good(4), Bad(2)>>}
=============================================================================
