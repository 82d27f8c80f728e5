----------------------------- MODULE NaturalSets -----------------------------
(***************************************************************************)
(* Induction over sets of natural numbers.  "Every nonempty set of natural *)
(* numbers has a least element" takes no operator parameter, so unlike the *)
(* library's induction rules it can be cited where something must hold of  *)
(* every element of a list: of each record of a file, each block of a      *)
(* layout, each byte of a copy.                                            *)
(*                                                                         *)
(* With it two things are shown of functions defined by recursion, which   *)
(* TLA+ defines by a CHOOSE: that a function with the steps the definition *)
(* gives exists, so that the chosen one has them, and that its values are  *)
(* of the type the steps lead to.  FlattenSeq, the module SequencesExt's   *)
(* operator, is a recursion of this kind.                                  *)
(***************************************************************************)
EXTENDS Integers, SequencesExt, SequenceTheorems, WellFoundedInduction, TLAPS

(* Every nonempty set of natural numbers has a least element.              *)
THEOREM LeastElement ==
  ASSUME NEW T, T \subseteq Nat, T # {}
  PROVE  \E x \in T : \A y \in T : x <= y
<1> DEFINE R == OpToRel(<, Nat)
<1>1. IsWellFoundedOn(R, Nat)
  BY NatLessThanWellFounded
<1>2. \A x, y \in Nat : y < x => <<y, x>> \in R
  BY DEF OpToRel
<1> HIDE DEF R
<1>3. PICK x \in T : \A y \in T : ~ (<<y, x>> \in R)
  BY <1>1, WFMin
<1>4. \A y \in T : ~ (y < x)
  BY <1>2, <1>3
<1> QED
  BY <1>4

(* A set that holds 0 and the successor of each of its elements holds them *)
(* all.                                                                    *)
THEOREM SetInduction ==
  ASSUME NEW S, 0 \in S, \A n \in Nat : n \in S => n + 1 \in S
  PROVE  \A n \in Nat : n \in S
<1> SUFFICES ASSUME Nat \ S # {} PROVE FALSE
  OBVIOUS
<1>1. PICK x \in Nat \ S : \A y \in Nat \ S : x <= y
  BY LeastElement
<1>2. x # 0 /\ x - 1 \in Nat /\ x - 1 \notin Nat \ S
  BY <1>1
<1> QED
  BY <1>1, <1>2

(* A set that holds n whenever it holds every number below n holds them    *)
(* all.                                                                    *)
THEOREM SetStrongInduction ==
  ASSUME NEW S,
         \A n \in Nat : (\A m \in 0 .. n - 1 : m \in S) => n \in S
  PROVE  \A n \in Nat : n \in S
<1> SUFFICES ASSUME Nat \ S # {} PROVE FALSE
  OBVIOUS
<1>1. PICK x \in Nat \ S : \A y \in Nat \ S : x <= y
  BY LeastElement
<1>2. \A m \in 0 .. x - 1 : m \in S
  BY <1>1
<1> QED
  BY <1>1, <1>2

(* A function given by its value at 0 and by how each value follows from   *)
(* the one before exists: so recursive functions have the values their     *)
(* definitions say.                                                        *)
Steps(D, n) == [1 .. n -> [D -> D]]

Recurs(f, D, n, base, g) ==
  f \in [0 .. n -> D] /\ f[0] = base /\ \A i \in 1 .. n : f[i] = g[i][f[i - 1]]

LEMMA RecursionExists ==
  ASSUME NEW D, NEW n \in Nat, NEW base \in D, NEW g \in Steps(D, n)
  PROVE  \E f : Recurs(f, D, n, base, g)
<1>0. g \in [1 .. n -> [D -> D]]
  BY DEF Steps
<1> DEFINE Upto(f, k) ==
             /\ f \in [0 .. k -> D] /\ f[0] = base
             /\ \A i \in 1 .. k : f[i] = g[i][f[i - 1]]
           S == {k \in Nat : k <= n => \E f : Upto(f, k)}
<1>1. 0 \in S
  <2> DEFINE f == [i \in 0 .. 0 |-> base]
  <2>1. Upto(f, 0)
    OBVIOUS
  <2> HIDE DEF f, Upto
  <2> QED BY <2>1
<1>2. ASSUME NEW k \in Nat, k \in S PROVE k + 1 \in S
  <2> SUFFICES ASSUME k + 1 <= n PROVE \E f : Upto(f, k + 1)
    OBVIOUS
  <2>1. PICK f : Upto(f, k)
    BY <1>2
  <2> DEFINE h == [i \in 0 .. k + 1 |-> IF i = k + 1 THEN g[k + 1][f[k]] ELSE f[i]]
  <2>2. /\ k + 1 \in 1 .. n /\ k \in 0 .. k /\ f[k] \in D
    BY <2>1
  <2>3. g[k + 1][f[k]] \in D
    BY <1>0, <2>2
  <2>4. h \in [0 .. k + 1 -> D]
    BY <2>1, <2>3
  <2>5. h[0] = base
    BY <2>1
  <2>6. ASSUME NEW i \in 1 .. k + 1 PROVE h[i] = g[i][h[i - 1]]
    <3>1. CASE i = k + 1
      BY <3>1
    <3>2. CASE i # k + 1
      <4>1. i \in 1 .. k /\ i - 1 \in 0 .. k /\ i - 1 # k + 1
        BY <3>2
      <4>2. h[i] = f[i] /\ h[i - 1] = f[i - 1]
        BY <4>1, <3>2
      <4> HIDE DEF h
      <4> QED BY <2>1, <4>1, <4>2
    <3> QED BY <3>1, <3>2
  <2> HIDE DEF h
  <2>7. Upto(h, k + 1)
    BY <2>4, <2>5, <2>6
  <2> HIDE DEF Upto
  <2> QED BY <2>7
<1>3. n \in S
  <2> HIDE DEF S
  <2> QED BY <1>1, <1>2, SetInduction
<1> QED BY <1>3 DEF Recurs

(* ... and its values are where the steps lead.                            *)
LEMMA RecursionTyped ==
  ASSUME NEW D, NEW n \in Nat, NEW f, f[0] \in D,
         \A i \in 1 .. n : f[i - 1] \in D => f[i] \in D
  PROVE  \A i \in 0 .. n : f[i] \in D
<1> DEFINE S == {k \in Nat : k <= n => f[k] \in D}
<1>1. 0 \in S
  OBVIOUS
<1>2. ASSUME NEW k \in Nat, k \in S PROVE k + 1 \in S
  <2> SUFFICES ASSUME k + 1 <= n PROVE f[k + 1] \in D
    OBVIOUS
  <2>1. k + 1 \in 1 .. n /\ (k + 1) - 1 = k /\ f[k] \in D
    BY <1>2
  <2> QED BY <2>1
<1>3. \A k \in Nat : k \in S
  <2> HIDE DEF S
  <2> QED BY <1>1, <1>2, SetInduction
<1> QED BY <1>3

-----------------------------------------------------------------------------
(* Sequences put end to end.                                               *)

FlatChain(seqs, f) ==
  f = [i \in 1 .. Len(seqs) |-> IF i = 1 THEN seqs[i] ELSE f[i - 1] \o seqs[i]]

(* What FlattenSeq makes of the first 1, 2, ... sequences.                 *)
Flattened(seqs) == CHOOSE f : FlatChain(seqs, f)

(* Each is the one before it with one more sequence behind it ...          *)
LEMMA FlattenedSteps ==
  ASSUME NEW Q, NEW seqs \in Seq(Seq(Q))
  PROVE  \A i \in 1 .. Len(seqs) :
           /\ Flattened(seqs)[i] =
                (IF i = 1 THEN seqs[i] ELSE Flattened(seqs)[i - 1] \o seqs[i])
           /\ Flattened(seqs)[i] \in Seq(Q)
<1> DEFINE Value(f, i) == IF i = 1 THEN seqs[i] ELSE f[i - 1] \o seqs[i]
           Upto(f, k) == f = [i \in 1 .. k |-> Value(f, i)]
           S == {k \in Nat : \E f : Upto(f, k)}
<1>1. 0 \in S
  <2> DEFINE f == [i \in 1 .. 0 |-> 0]
  <2>1. Upto(f, 0)
    OBVIOUS
  <2> HIDE DEF f, Upto
  <2> QED BY <2>1
<1>2. ASSUME NEW k \in Nat, k \in S PROVE k + 1 \in S
  <2>1. PICK f : Upto(f, k)
    BY <1>2
  <2> DEFINE g == [i \in 1 .. k + 1 |-> IF i = k + 1 THEN Value(f, k + 1) ELSE f[i]]
  <2>2. ASSUME NEW i \in 1 .. k + 1 PROVE g[i] = Value(g, i)
    <3>1. Value(g, i) = Value(f, i)
      <4>1. CASE i = 1
        BY <4>1
      <4>2. CASE i # 1
        <5>1. i - 1 \in 1 .. k + 1 /\ i - 1 # k + 1
          BY <4>2
        <5>2. g[i - 1] = f[i - 1]
          BY <5>1
        <5> HIDE DEF g
        <5> QED BY <4>2, <5>2
      <4> QED BY <4>1, <4>2
    <3>2. g[i] = Value(f, i)
      <4>1. CASE i = k + 1
        BY <4>1
      <4>2. CASE i # k + 1
        <5>1. i \in 1 .. k /\ g[i] = f[i]
          BY <4>2
        <5> HIDE DEF Value, g
        <5> QED BY <2>1, <5>1
      <4> QED BY <4>1, <4>2
    <3> QED BY <3>1, <3>2
  <2>3. Upto(g, k + 1)
    <3>1. g = [i \in 1 .. k + 1 |-> g[i]]
      OBVIOUS
    <3> HIDE DEF g, Value
    <3> QED BY <2>2, <3>1
  <2> HIDE DEF g, Upto
  <2> QED BY <2>3
<1>3. Len(seqs) \in Nat /\ \A i \in 1 .. Len(seqs) : seqs[i] \in Seq(Q)
  BY ElementOfSeq
<1>4. Len(seqs) \in S
  <2> HIDE DEF S
  <2> QED BY <1>1, <1>2, <1>3, SetInduction
<1> DEFINE F == Flattened(seqs)
<1>5. Upto(F, Len(seqs))
  <2>1. \A f : FlatChain(seqs, f) <=> Upto(f, Len(seqs))
    BY DEF FlatChain
  <2>2. PICK f : FlatChain(seqs, f)
    <3> HIDE DEF Upto
    <3> QED BY <1>4, <2>1
  <2>3. FlatChain(seqs, F)
    BY <2>2 DEF Flattened
  <2> QED BY <2>1, <2>3
<1> HIDE DEF F
<1>6. ASSUME NEW i \in 1 .. Len(seqs) PROVE F[i] = Value(F, i)
  <2> HIDE DEF Value
  <2> QED BY <1>5
<1> DEFINE T == {k \in Nat : k + 1 <= Len(seqs) => F[k + 1] \in Seq(Q)}
<1>7. 0 \in T
  BY <1>3, <1>6
<1>8. ASSUME NEW k \in Nat, k \in T PROVE k + 1 \in T
  <2> SUFFICES ASSUME (k + 1) + 1 <= Len(seqs) PROVE F[(k + 1) + 1] \in Seq(Q)
    OBVIOUS
  <2>1. /\ (k + 1) + 1 \in 1 .. Len(seqs) /\ ((k + 1) + 1) - 1 = k + 1
        /\ (k + 1) + 1 # 1 /\ k + 1 <= Len(seqs)
    BY <1>3
  <2>2. F[(k + 1) + 1] = F[k + 1] \o seqs[(k + 1) + 1]
    BY <1>6, <2>1
  <2>3. F[k + 1] \in Seq(Q) /\ seqs[(k + 1) + 1] \in Seq(Q)
    BY <1>3, <1>8, <2>1
  <2> QED BY <2>2, <2>3, ConcatProperties
<1>9. \A k \in Nat : k \in T
  <2> HIDE DEF T
  <2> QED BY <1>7, <1>8, SetInduction
<1>10. ASSUME NEW i \in 1 .. Len(seqs) PROVE F[i] \in Seq(Q)
  <2>1. i - 1 \in Nat /\ (i - 1) + 1 = i /\ i <= Len(seqs)
    BY <1>3
  <2>2. (i - 1) \in T
    BY <1>9, <2>1
  <2> QED BY <2>1, <2>2
<1> QED BY <1>6, <1>10 DEF F

(* ... and the last of them is FlattenSeq's.                               *)
LEMMA FlattenIsLast ==
  ASSUME NEW Q, NEW seqs \in Seq(Seq(Q))
  PROVE  FlattenSeq(seqs) = (IF Len(seqs) = 0 THEN <<>> ELSE Flattened(seqs)[Len(seqs)])
<1>1. Len(seqs) = 0 => seqs = <<>>
  BY EmptySeq
<1> QED BY <1>1 DEF FlattenSeq, Flattened, FlatChain

(* One more sequence comes behind the others.                              *)
LEMMA FlattenAppend ==
  ASSUME NEW Q, NEW seqs \in Seq(Seq(Q)), NEW s \in Seq(Q)
  PROVE  /\ FlattenSeq(seqs) \in Seq(Q)
         /\ Append(seqs, s) \in Seq(Seq(Q))
         /\ FlattenSeq(Append(seqs, s)) = FlattenSeq(seqs) \o s
<1> DEFINE t == Append(seqs, s)
           n == Len(seqs)
           F == Flattened(seqs)
           G == Flattened(t)
<1>1. /\ t \in Seq(Seq(Q)) /\ n \in Nat /\ Len(t) = n + 1 /\ t[n + 1] = s
      /\ \A i \in 1 .. n : t[i] = seqs[i]
  BY AppendProperties
<1> HIDE DEF t
<1>2. /\ \A i \in 1 .. n : F[i] = (IF i = 1 THEN seqs[i] ELSE F[i - 1] \o seqs[i])
                           /\ F[i] \in Seq(Q)
      /\ \A i \in 1 .. n + 1 : G[i] = (IF i = 1 THEN t[i] ELSE G[i - 1] \o t[i])
  BY <1>1, FlattenedSteps, ZenonT(60)
<1>3. /\ FlattenSeq(seqs) = (IF n = 0 THEN <<>> ELSE F[n])
      /\ FlattenSeq(t) = G[n + 1]
  BY <1>1, FlattenIsLast
<1> HIDE DEF F, G
<1>4. FlattenSeq(seqs) \in Seq(Q)
  BY <1>1, <1>2, <1>3
<1> DEFINE S == {k \in Nat : k + 1 <= n => G[k + 1] = F[k + 1]}
<1>5. 0 \in S
  BY <1>1, <1>2
<1>6. ASSUME NEW k \in Nat, k \in S PROVE k + 1 \in S
  <2> SUFFICES ASSUME (k + 1) + 1 <= n PROVE G[(k + 1) + 1] = F[(k + 1) + 1]
    OBVIOUS
  <2>1. /\ (k + 1) + 1 \in 1 .. n /\ (k + 1) + 1 \in 1 .. n + 1
        /\ ((k + 1) + 1) - 1 = k + 1 /\ (k + 1) + 1 # 1 /\ k + 1 <= n
    BY <1>1
  <2>2. /\ G[(k + 1) + 1] = G[k + 1] \o t[(k + 1) + 1]
        /\ F[(k + 1) + 1] = F[k + 1] \o seqs[(k + 1) + 1]
    BY <1>2, <2>1
  <2> QED BY <1>1, <1>6, <2>1, <2>2
<1>7. \A k \in Nat : k \in S
  <2> HIDE DEF S
  <2> QED BY <1>5, <1>6, SetInduction
<1>8. G[n + 1] = FlattenSeq(seqs) \o s
  <2>1. CASE n = 0
    <3>1. G[n + 1] = s
      BY <1>1, <1>2, <2>1
    <3> QED BY <1>3, <2>1, <3>1, ConcatEmptySeq
  <2>2. CASE n # 0
    <3>1. /\ n + 1 \in 1 .. n + 1 /\ n + 1 # 1 /\ (n + 1) - 1 = n
          /\ n - 1 \in Nat /\ (n - 1) + 1 = n
      BY <1>1, <2>2
    <3>2. G[n + 1] = G[n] \o s
      BY <1>1, <1>2, <3>1
    <3>3. (n - 1) \in S
      BY <1>7, <3>1
    <3>4. G[n] = F[n]
      BY <3>1, <3>3
    <3> QED BY <1>3, <2>2, <3>2, <3>4
  <2> QED BY <2>1, <2>2
<1> QED BY <1>1, <1>3, <1>4, <1>8 DEF t

(* No sequences put end to end.                                            *)
LEMMA FlattenEmpty == FlattenSeq(<<>>) = <<>>
BY DEF FlattenSeq

=============================================================================
