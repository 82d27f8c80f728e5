-------------------------------- MODULE MCLzf --------------------------------
(***************************************************************************)
(* Every block of two byte values up to ShortLen bytes, and longer blocks  *)
(* made of a few runs, long enough for the longest match, the largest      *)
(* distance, and one more of each.                                         *)
(***************************************************************************)
EXTENDS LzfMeaning

CONSTANTS ShortLen

Run(b, n) == [k \in 1..n |-> b]

Filler(n) == [k \in 1..n |-> 2 + ((k * k) % 6)]

MCInputs ==
  UNION {[1..n -> 0..1] : n \in 3..ShortLen}
    \cup {Run(7, 1) \o Run(0, n) \o Run(1, 1) : n \in (MAX_REF - 1)..(MAX_REF + 4)}
    \cup {Run(7, 1) \o <<0, 1, 0>> \o Filler(n) \o <<0, 1, 0>> \o Run(0, k) :
            n \in (MAX_OFF - 5)..(MAX_OFF - 1), k \in 0..2}
=============================================================================
