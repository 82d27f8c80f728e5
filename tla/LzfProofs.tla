------------------------------ MODULE LzfProofs ------------------------------
(***************************************************************************)
(* The LZF codec gives every block back: for every byte width, longest     *)
(* run, hash table and block, and whatever the hash finds.                 *)
(*                                                                         *)
(* Between the two halves stands what the compressed bytes tell, stated    *)
(* without recursion: there is a set of marks, pairs of a position in the  *)
(* compressed bytes and one in the block, such that a token leads from     *)
(* each mark to another until both ends are reached.                       *)
(***************************************************************************)
EXTENDS Lzf, NaturalSets, SequenceTheorems

Byte == 0 .. ByteValues - 1

-----------------------------------------------------------------------------
(* Arithmetic.                                                             *)

LEMMA Division ==
  \A a \in Nat, b \in Nat \ {0} :
    /\ a \div b \in Nat /\ a % b \in 0 .. b - 1
    /\ a = (a \div b) * b + (a % b)
OBVIOUS

LEMMA ProductRises ==
  ASSUME NEW a \in Nat, NEW c \in Nat, NEW b \in Nat, a <= c
  PROVE  a * b \in Nat /\ c * b \in Nat /\ a * b <= c * b
<1>1. c - a \in Nat
  OBVIOUS
<1>2. (c - a) * b \in Nat /\ c * b = a * b + (c - a) * b
      /\ a * b \in Nat /\ c * b \in Nat
  BY <1>1
<1> DEFINE p == a * b
           q == c * b
           d == (c - a) * b
<1>3. p \in Nat /\ q \in Nat /\ d \in Nat /\ q = p + d
  BY <1>2
<1> HIDE DEF p, q, d
<1>4. p <= q
  BY <1>3
<1> QED
  BY <1>3, <1>4 DEF p, q

(* Quotient and remainder are what their equation says.                    *)
LEMMA DivisionIsUnique ==
  ASSUME NEW k \in Nat, NEW b \in Nat \ {0}, NEW r \in 0 .. b - 1
  PROVE  (k * b + r) \div b = k /\ (k * b + r) % b = r
<1> DEFINE a == k * b + r
           j == a \div b
           s == a % b
<1>1. a \in Nat
  OBVIOUS
<1> HIDE DEF a
<1>2. j \in Nat /\ s \in 0 .. b - 1 /\ a = j * b + s
  BY <1>1, Division
<1> HIDE DEF j, s
<1> DEFINE x == k * b
           y == j * b
<1>3. x \in Nat /\ y \in Nat /\ x + r = y + s
  BY <1>2 DEF a
<1>4. k + 1 <= j => x + b <= y
  <2>1. k + 1 <= j => (k + 1) * b <= j * b
    BY <1>2, ProductRises
  <2>2. (k + 1) * b = x + b
    OBVIOUS
  <2> QED
    BY <2>1, <2>2
<1>5. j + 1 <= k => y + b <= x
  <2>1. j + 1 <= k => (j + 1) * b <= k * b
    BY <1>2, ProductRises
  <2>2. (j + 1) * b = y + b
    BY <1>2
  <2> QED
    BY <2>1, <2>2
<1> HIDE DEF x, y
<1>6. ~(k + 1 <= j) /\ ~(j + 1 <= k)
  BY <1>2, <1>3, <1>4, <1>5
<1>7. j = k
  BY <1>2, <1>6
<1>8. x = y
  BY <1>7 DEF x, y
<1>9. s = r
  BY <1>2, <1>3, <1>8
<1> QED
  BY <1>7, <1>9 DEF a, j, s

(* Stepping back one period does not change the phase.                     *)
LEMMA PhaseRepeats ==
  ASSUME NEW d \in Nat \ {0}, NEW m \in Nat, d <= m
  PROVE  (m - d) % d = m % d
<1>1. m - d \in Nat
  OBVIOUS
<1> DEFINE k == (m - d) \div d
           r == (m - d) % d
<1>2. k \in Nat /\ r \in 0 .. d - 1 /\ m - d = k * d + r
  BY <1>1, Division
<1> HIDE DEF k, r
<1>3. m = (k + 1) * d + r
  <2>1. (k + 1) * d = k * d + d /\ k * d \in Nat
    BY <1>2
  <2> DEFINE x == k * d
             y == (k + 1) * d
  <2>2. y = x + d /\ x \in Nat /\ m - d = x + r
    BY <1>2, <2>1
  <2> HIDE DEF x, y
  <2>3. m = y + r
    BY <1>2, <2>2
  <2> QED
    BY <2>3 DEF y
<1>4. k + 1 \in Nat
  BY <1>2
<1>5. m % d = r
  BY <1>2, <1>3, <1>4, DivisionIsUnique
<1> QED
  BY <1>5 DEF r

-----------------------------------------------------------------------------
(* The limits.                                                             *)
LEMMA Limits ==
  /\ MAX_LIT \in Nat \ {0} /\ ByteValues \in Nat \ {0} /\ ESCAPE \in Nat \ {0}
  /\ ByteValues = ESCAPE * MAX_LIT + MAX_LIT /\ MAX_LIT < ByteValues
  /\ MAX_REF \in Nat /\ MAX_REF - 2 = ByteValues - 1 + ESCAPE /\ MAX_REF >= 3
  /\ MAX_OFF \in Nat /\ MAX_OFF = MAX_LIT * ByteValues
<1> DEFINE e == ByteValues \div MAX_LIT
<1>1. /\ MAX_LIT \in Nat \ {0} /\ ByteValues \in Nat /\ e > 1
      /\ ByteValues % MAX_LIT = 0
  BY LimitsAssumption
<1>2. e \in Nat /\ ByteValues = e * MAX_LIT + (ByteValues % MAX_LIT)
  BY <1>1, Division
<1> HIDE DEF e
<1>3. ESCAPE = e - 1 /\ ESCAPE \in Nat \ {0} /\ e = ESCAPE + 1
  BY <1>1, <1>2 DEF ESCAPE, e
<1> DEFINE p == ESCAPE * MAX_LIT
<1>4. e * MAX_LIT = p + MAX_LIT /\ p \in Nat
  BY <1>1, <1>3
<1>5. ByteValues = e * MAX_LIT
  <2> DEFINE x == e * MAX_LIT
  <2>1. x \in Nat /\ ByteValues = x + (ByteValues % MAX_LIT)
    BY <1>1, <1>2
  <2> HIDE DEF x
  <2>2. ByteValues = x
    BY <1>1, <2>1
  <2> QED
    BY <2>2 DEF x
<1>6. 1 * MAX_LIT <= p
  BY <1>1, <1>3, ProductRises
<1> HIDE DEF p
<1>7. ByteValues = p + MAX_LIT /\ MAX_LIT < ByteValues /\ ByteValues \in Nat \ {0}
  BY <1>1, <1>4, <1>5, <1>6
<1>8. MAX_REF \in Nat /\ MAX_REF - 2 = ByteValues - 1 + ESCAPE /\ MAX_REF >= 3
  BY <1>1, <1>3, <1>7 DEF MAX_REF
<1>9. MAX_OFF \in Nat /\ MAX_OFF = MAX_LIT * ByteValues
  BY <1>1 DEF MAX_OFF
<1> QED
  BY <1>1, <1>3, <1>7, <1>8, <1>9 DEF p

(* A back reference decodes to the offset and length code it was made of,  *)
(* and each of its parts is a byte.                                        *)
LEMMA TokenDecodes ==
  ASSUME NEW off \in 0 .. MAX_OFF - 1, NEW code \in 1 .. MAX_REF - 2
  PROVE  LET t == Token(off, code)
             used == Len(t)
         IN /\ t \in Seq(Byte) /\ used = (IF code < ESCAPE THEN 2 ELSE 3)
            /\ t[1] >= MAX_LIT
            /\ (t[1] \div MAX_LIT = ESCAPE) <=> code >= ESCAPE
            /\ code = IF code >= ESCAPE THEN ESCAPE + t[2] ELSE t[1] \div MAX_LIT
            /\ off = (t[1] % MAX_LIT) * ByteValues + t[used]
<1> DEFINE high == off \div ByteValues
           low == off % ByteValues
           c == IF code < ESCAPE THEN code ELSE ESCAPE
           first == c * MAX_LIT + high
<1>1. off \in Nat /\ code \in Nat /\ c \in 1 .. ESCAPE /\ c \in Nat
  BY Limits
<1>2. /\ high \in Nat /\ low \in 0 .. ByteValues - 1
      /\ off = high * ByteValues + low
  BY <1>1, Limits, Division
<1> HIDE DEF high, low, c
<1>3. high \in 0 .. MAX_LIT - 1
  <2> SUFFICES ASSUME MAX_LIT <= high PROVE FALSE
    BY <1>2, Limits
  <2> DEFINE x == high * ByteValues
             y == MAX_LIT * ByteValues
  <2>1. x \in Nat /\ y \in Nat /\ y <= x
    BY <1>2, Limits, ProductRises
  <2>2. off = x + low /\ MAX_OFF = y
    BY <1>2, Limits
  <2> HIDE DEF x, y
  <2>3. off < y
    BY <2>1, <2>2
  <2> QED
    BY <1>1, <1>2, <2>1, <2>2, <2>3, Limits
<1>4. first \div MAX_LIT = c /\ first % MAX_LIT = high
  BY <1>1, <1>3, Limits, DivisionIsUnique
<1>5. first \in Byte /\ first >= MAX_LIT
  <2> DEFINE x == c * MAX_LIT
             y == ESCAPE * MAX_LIT
  <2>1. x \in Nat /\ y \in Nat /\ x <= y
    BY <1>1, Limits, ProductRises
  <2>2. 1 * MAX_LIT <= x
    BY <1>1, Limits, ProductRises
  <2>3. ByteValues = y + MAX_LIT /\ MAX_LIT \in Nat
    BY Limits
  <2> HIDE DEF x, y
  <2>4. x + high \in Byte /\ x + high >= MAX_LIT
    BY <1>3, <2>1, <2>2, <2>3 DEF Byte
  <2> QED
    BY <2>4 DEF x
<1> HIDE DEF first
<1>6. CASE code < ESCAPE
  <2>1. Token(off, code) = <<first, low>>
    BY <1>6 DEF Token, first, high, low, c
  <2>2. <<first, low>> \in Seq(Byte)
    BY <1>2, <1>5 DEF Byte
  <2>3. c = code /\ ~(code >= ESCAPE) /\ c # ESCAPE
    BY <1>1, <1>6, Limits DEF c
  <2> DEFINE t == <<first, low>>
  <2>4. Len(t) = 2 /\ t[1] = first /\ t[2] = low
    OBVIOUS
  <2> HIDE DEF t
  <2>5. off = (t[1] % MAX_LIT) * ByteValues + t[2]
    BY <1>2, <1>4, <2>4
  <2>6. t[1] \div MAX_LIT = code
    BY <1>4, <2>3, <2>4
  <2>7. t \in Seq(Byte) /\ Token(off, code) = t
    BY <2>1, <2>2 DEF t
  <2>8. t[1] >= MAX_LIT /\ t[1] \div MAX_LIT # ESCAPE
    BY <1>5, <2>3, <2>4, <2>6
  <2> QED
    BY <1>6, <2>3, <2>4, <2>5, <2>6, <2>7, <2>8
<1>7. CASE ~(code < ESCAPE)
  <2> DEFINE more == code - ESCAPE
  <2>1. more \in 0 .. ByteValues - 1 /\ code = ESCAPE + more /\ code >= ESCAPE
    BY <1>1, <1>7, Limits
  <2> HIDE DEF more
  <2>2. more % ByteValues = more
    <3>1. 0 * ByteValues + more = more
      BY <2>1, Limits
    <3> QED
      BY <2>1, <3>1, Limits, DivisionIsUnique
  <2>3. c = ESCAPE
    BY <1>7 DEF c
  <2>4. Token(off, code) = <<first, more, low>>
    BY <1>7, <2>2, <2>3 DEF Token, first, high, low, more
  <2>5. <<first, more, low>> \in Seq(Byte)
    BY <1>2, <1>5, <2>1 DEF Byte
  <2> DEFINE t == <<first, more, low>>
  <2>6. Len(t) = 3 /\ t[1] = first /\ t[2] = more /\ t[3] = low
    OBVIOUS
  <2> HIDE DEF t
  <2>7. off = (t[1] % MAX_LIT) * ByteValues + t[3]
    BY <1>2, <1>4, <2>6
  <2>8. t[1] \div MAX_LIT = ESCAPE
    BY <1>4, <2>3, <2>6
  <2>9. t \in Seq(Byte) /\ Token(off, code) = t
    BY <2>4, <2>5 DEF t
  <2>10. t[1] >= MAX_LIT /\ code = ESCAPE + t[2]
    BY <1>5, <2>1, <2>6
  <2> QED
    BY <1>7, <2>1, <2>6, <2>7, <2>8, <2>9, <2>10
<1> QED
  BY <1>6, <1>7

-----------------------------------------------------------------------------
(* What compressed bytes tell.                                             *)

(* The bytes of o after position p, up to r, are a run of literals that    *)
(* tells what follows position q in block i, up to s.                      *)
LiteralsTell(i, o, p, q, r, s) ==
  /\ s - q \in 1 .. MAX_LIT /\ r = p + 1 + (s - q)
  /\ o[p + 1] = s - q - 1
  /\ \A k \in 1 .. s - q : o[p + 1 + k] = i[q + k]

(* They are a reference to bytes already told.                             *)
ReferenceTells(i, o, p, q, r, s) ==
  \E back \in 1 .. MAX_OFF :
    LET token == Token(back - 1, s - q - 2)
    IN /\ back <= q /\ s - q \in 3 .. MAX_REF
       /\ r = p + Len(token)
       /\ \A k \in 1 .. Len(token) : o[p + k] = token[k]
       /\ \A k \in 1 .. s - q : i[q + k] = i[q + k - back]

TokenTells(i, o, p, q, r, s) ==
  LiteralsTell(i, o, p, q, r, s) \/ ReferenceTells(i, o, p, q, r, s)

(* From position p on, o tells block i from position q on, until both come *)
(* to their ends.                                                          *)
Tells(i, o, p, q, end, n) ==
  \E marks \in SUBSET (Nat \X Nat) :
    /\ <<p, q>> \in marks
    /\ \A a, b \in Nat :
         <<a, b>> \in marks =>
           \/ a = end /\ b = n
           \/ \E r \in a + 1 .. end, s \in b .. n :
                <<r, s>> \in marks /\ TokenTells(i, o, a, b, r, s)

(* A token is told by its own bytes only.                                  *)
LEMMA TokenStands ==
  ASSUME NEW i, NEW o, NEW u,
         NEW p \in Nat, NEW q \in Nat, NEW r \in Nat, NEW s \in Nat,
         TokenTells(i, o, p, q, r, s),
         \A k \in p + 1 .. r : u[k] = o[k]
  PROVE  TokenTells(i, u, p, q, r, s)
<1>1. CASE LiteralsTell(i, o, p, q, r, s)
  <2>1. p + 1 \in p + 1 .. r /\ \A k \in 1 .. s - q : p + 1 + k \in p + 1 .. r
    BY <1>1 DEF LiteralsTell
  <2> QED
    BY <1>1, <2>1 DEF LiteralsTell, TokenTells
<1>2. CASE ReferenceTells(i, o, p, q, r, s)
  <2>1. PICK back \in 1 .. MAX_OFF :
          LET token == Token(back - 1, s - q - 2)
          IN /\ back <= q /\ s - q \in 3 .. MAX_REF
             /\ r = p + Len(token)
             /\ \A k \in 1 .. Len(token) : o[p + k] = token[k]
             /\ \A k \in 1 .. s - q : i[q + k] = i[q + k - back]
    BY <1>2 DEF ReferenceTells
  <2> DEFINE token == Token(back - 1, s - q - 2)
  <2>2. Len(token) \in Nat
    BY <2>1, Limits, TokenDecodes
  <2> HIDE DEF token
  <2>3. \A k \in 1 .. Len(token) : p + k \in p + 1 .. r
    BY <2>1, <2>2 DEF token
  <2>4. \A k \in 1 .. Len(token) : u[p + k] = token[k]
    BY <2>1, <2>3 DEF token
  <2> QED
    BY <2>1, <2>4 DEF token, ReferenceTells, TokenTells
<1> QED
  BY <1>1, <1>2 DEF TokenTells

(* Nothing written tells nothing.                                          *)
LEMMA TellsNothing ==
  ASSUME NEW i, NEW o, NEW p \in Nat, NEW q \in Nat
  PROVE  Tells(i, o, p, q, p, q)
<1> DEFINE marks == {<<p, q>>}
<1>1. marks \in SUBSET (Nat \X Nat) /\ <<p, q>> \in marks
  OBVIOUS
<1>2. \A a, b \in Nat : <<a, b>> \in marks => a = p /\ b = q
  OBVIOUS
<1> HIDE DEF marks
<1> QED
  BY <1>1, <1>2 DEF Tells

(* One more token tells more, whatever follows it.                         *)
LEMMA TellsMore ==
  ASSUME NEW i, NEW o, NEW u, NEW p \in Nat, NEW q \in Nat,
         NEW end \in Nat, NEW n \in Nat, NEW r \in Nat, NEW s \in Nat,
         Tells(i, o, p, q, end, n), \A k \in 1 .. end : u[k] = o[k],
         end < r, n <= s, TokenTells(i, u, end, n, r, s)
  PROVE  Tells(i, u, p, q, r, s)
<1>1. PICK marks \in SUBSET (Nat \X Nat) :
        /\ <<p, q>> \in marks
        /\ \A a, b \in Nat :
             <<a, b>> \in marks =>
               \/ a = end /\ b = n
               \/ \E x \in a + 1 .. end, y \in b .. n :
                    <<x, y>> \in marks /\ TokenTells(i, o, a, b, x, y)
  BY DEF Tells
<1> DEFINE all == marks \cup {<<r, s>>}
<1>2. all \in SUBSET (Nat \X Nat) /\ <<p, q>> \in all /\ <<r, s>> \in all
  BY <1>1
<1>3. ASSUME NEW a \in Nat, NEW b \in Nat, <<a, b>> \in all
      PROVE  \/ a = r /\ b = s
             \/ \E x \in a + 1 .. r, y \in b .. s :
                  <<x, y>> \in all /\ TokenTells(i, u, a, b, x, y)
  <2>1. CASE <<a, b>> = <<r, s>>
    BY <2>1
  <2>2. CASE a = end /\ b = n
    BY <1>2, <2>2
  <2>3. CASE \E x \in a + 1 .. end, y \in b .. n :
               <<x, y>> \in marks /\ TokenTells(i, o, a, b, x, y)
    <3>1. PICK x \in a + 1 .. end, y \in b .. n :
                 <<x, y>> \in marks /\ TokenTells(i, o, a, b, x, y)
      BY <2>3
    <3>2. TokenTells(i, u, a, b, x, y)
      BY <3>1, TokenStands
    <3>3. x \in a + 1 .. r /\ y \in b .. s /\ <<x, y>> \in all
      BY <3>1
    <3> QED
      BY <3>2, <3>3
  <2> QED
    BY <1>1, <1>3, <2>1, <2>2, <2>3
<1> HIDE DEF all
<1> QED
  BY <1>2, <1>3 DEF Tells

(* Only the bytes told count.                                              *)
LEMMA TellsStands ==
  ASSUME NEW i, NEW o, NEW u, NEW p \in Nat, NEW q \in Nat,
         NEW end \in Nat, NEW n \in Nat,
         Tells(i, o, p, q, end, n), \A k \in 1 .. end : u[k] = o[k]
  PROVE  Tells(i, u, p, q, end, n)
<1>1. PICK marks \in SUBSET (Nat \X Nat) :
        /\ <<p, q>> \in marks
        /\ \A a, b \in Nat :
             <<a, b>> \in marks =>
               \/ a = end /\ b = n
               \/ \E x \in a + 1 .. end, y \in b .. n :
                    <<x, y>> \in marks /\ TokenTells(i, o, a, b, x, y)
  BY DEF Tells
<1>2. ASSUME NEW a \in Nat, NEW b \in Nat, NEW x \in a + 1 .. end, NEW y \in b .. n,
             TokenTells(i, o, a, b, x, y)
      PROVE  TokenTells(i, u, a, b, x, y)
  BY <1>2, TokenStands
<1>3. ASSUME NEW a \in Nat, NEW b \in Nat, <<a, b>> \in marks
      PROVE  \/ a = end /\ b = n
             \/ \E x \in a + 1 .. end, y \in b .. n :
                  <<x, y>> \in marks /\ TokenTells(i, u, a, b, x, y)
  BY <1>1, <1>2, <1>3
<1> QED
  BY <1>1, <1>3 DEF Tells

(* Reading goes from token to token.                                       *)
LEMMA TellsNext ==
  ASSUME NEW i, NEW o, NEW p \in Nat, NEW q \in Nat,
         NEW end \in Nat, NEW n \in Nat,
         Tells(i, o, p, q, end, n)
  PROVE  \/ p = end /\ q = n
         \/ \E r \in p + 1 .. end, s \in q .. n :
              TokenTells(i, o, p, q, r, s) /\ Tells(i, o, r, s, end, n)
<1>1. PICK marks \in SUBSET (Nat \X Nat) :
        /\ <<p, q>> \in marks
        /\ \A a, b \in Nat :
             <<a, b>> \in marks =>
               \/ a = end /\ b = n
               \/ \E x \in a + 1 .. end, y \in b .. n :
                    <<x, y>> \in marks /\ TokenTells(i, o, a, b, x, y)
  BY DEF Tells
<1>2. \A x, y : <<x, y>> \in marks => Tells(i, o, x, y, end, n)
  BY <1>1 DEF Tells
<1> QED
  BY <1>1, <1>2

-----------------------------------------------------------------------------
(* What compress() writes.                                                 *)

(* o tells block i up to position at - n, and ends with a reserved byte    *)
(* and the n literals up to position at.                                   *)
Running(i, o, n, start, at) ==
  /\ o \in Seq(Byte) /\ start \in Nat /\ at \in Nat
  /\ n \in 0 .. MAX_LIT /\ n <= at
  /\ Len(o) = start + 1 + n
  /\ Tells(i, o, 0, 0, start, at - n)
  /\ \A k \in 1 .. n : o[start + 1 + k] = i[at - n + k]

(* Everything written is told, up to position at.                          *)
Told(i, o, at) == o \in Seq(Byte) /\ Tells(i, o, 0, 0, Len(o), at)

LEMMA RunCloses ==
  ASSUME NEW i, NEW o, NEW n, NEW start, NEW at, Running(i, o, n, start, at)
  PROVE  Told(i, CloseRun(o, n, start), at)
<1>1. /\ o \in Seq(Byte) /\ start \in Nat /\ at \in Nat /\ n \in Nat
      /\ Len(o) \in Nat /\ Len(o) = start + 1 + n /\ at - n \in Nat
      /\ n <= MAX_LIT /\ MAX_LIT \in Nat /\ MAX_LIT < ByteValues
      /\ ByteValues \in Nat
  BY Limits, LenProperties DEF Running
<1>2. CASE n > 0
  <2> DEFINE c == [o EXCEPT ![start + 1] = n - 1]
  <2>1. CloseRun(o, n, start) = c
    BY <1>2 DEF CloseRun
  <2>2. n - 1 \in Byte /\ start + 1 \in 1 .. Len(o)
    BY <1>1, <1>2 DEF Byte
  <2>3. /\ c \in Seq(Byte) /\ Len(c) = Len(o)
        /\ \A j \in 1 .. Len(o) : c[j] = IF j = start + 1 THEN n - 1 ELSE o[j]
    BY <1>1, <2>2, ExceptSeq
  <2> HIDE DEF c
  <2>4. \A k \in 1 .. start : c[k] = o[k]
    BY <1>1, <2>3
  <2>5. TokenTells(i, c, start, at - n, Len(c), at)
    <3>1. at - (at - n) = n /\ Len(c) = start + 1 + n
      BY <1>1, <2>3
    <3>2. c[start + 1] = n - 1
      BY <2>2, <2>3
    <3>3. \A k \in 1 .. n : c[start + 1 + k] = i[at - n + k]
      <4>1. \A k \in 1 .. n : start + 1 + k \in 1 .. Len(o)
                              /\ start + 1 + k # start + 1
        BY <1>1
      <4> QED
        BY <2>3, <4>1 DEF Running
    <3>4. n \in 1 .. MAX_LIT
      BY <1>1, <1>2
    <3> QED
      BY <3>1, <3>2, <3>3, <3>4 DEF TokenTells, LiteralsTell
  <2>6. start < Len(c) /\ at - n <= at /\ Len(c) \in Nat
    BY <1>1, <2>3
  <2>7. Tells(i, o, 0, 0, start, at - n)
    BY DEF Running
  <2>8. Tells(i, c, 0, 0, Len(c), at)
    BY <1>1, <2>4, <2>5, <2>6, <2>7, TellsMore
  <2> QED
    BY <2>1, <2>3, <2>8 DEF Told
<1>3. CASE n = 0
  <2> DEFINE c == SubSeq(o, 1, Len(o) - 1)
  <2>1. CloseRun(o, n, start) = c
    BY <1>1, <1>3 DEF CloseRun
  <2>2. Len(o) - 1 = start /\ at - n = at
    BY <1>1, <1>3
  <2>3. \A j \in 1 .. start : o[j] \in Byte
    BY <1>1, <1>3, ElementOfSeq
  <2>4. c \in Seq(Byte) /\ Len(c) = start /\ \A k \in 1 .. start : c[k] = o[k]
    <3>1. /\ c \in Seq(Byte) /\ Len(c) = (IF 1 <= start THEN start - 1 + 1 ELSE 0)
          /\ \A k \in 1 .. start - 1 + 1 : c[k] = o[1 + k - 1]
      BY <1>1, <2>2, <2>3, SubSeqProperties
    <3> HIDE DEF c
    <3> QED
      BY <1>1, <3>1
  <2> HIDE DEF c
  <2>5. Tells(i, o, 0, 0, start, at)
    BY <2>2 DEF Running
  <2>6. Tells(i, c, 0, 0, start, at)
    BY <1>1, <2>4, <2>5, TellsStands
  <2> QED
    BY <2>1, <2>4, <2>6 DEF Told
<1> QED
  BY <1>1, <1>2, <1>3

LEMMA RunOpens ==
  ASSUME NEW i, NEW c, NEW at \in Nat, Told(i, c, at)
  PROVE  Running(i, Append(c, 0), 0, Len(c), at)
<1> DEFINE o == Append(c, 0)
<1>1. c \in Seq(Byte) /\ Len(c) \in Nat /\ 0 \in Byte /\ 0 \in 0 .. MAX_LIT
  BY Limits, LenProperties DEF Told, Byte
<1>2. o \in Seq(Byte) /\ Len(o) = Len(c) + 1 /\ \A k \in 1 .. Len(c) : o[k] = c[k]
  BY <1>1, AppendProperties
<1> HIDE DEF o
<1>3. Tells(i, o, 0, 0, Len(c), at)
  BY <1>1, <1>2, TellsStands DEF Told
<1>4. at - 0 = at /\ 0 <= at /\ Len(o) = Len(c) + 1 + 0
  BY <1>1, <1>2
<1>5. Running(i, o, 0, Len(c), at)
  BY <1>1, <1>2, <1>3, <1>4 DEF Running
<1> QED
  BY <1>5 DEF o

LEMMA RunGrows ==
  ASSUME NEW i, NEW o, NEW n, NEW start, NEW at,
         Running(i, o, n, start, at), n < MAX_LIT, i[at + 1] \in Byte
  PROVE  Running(i, Append(o, i[at + 1]), n + 1, start, at + 1)
<1> DEFINE u == Append(o, i[at + 1])
<1>1. /\ o \in Seq(Byte) /\ start \in Nat /\ at \in Nat /\ n \in Nat
      /\ Len(o) \in Nat /\ Len(o) = start + 1 + n /\ n <= at
      /\ MAX_LIT \in Nat
  BY Limits, LenProperties DEF Running
<1>2. /\ u \in Seq(Byte) /\ Len(u) = Len(o) + 1 /\ u[Len(o) + 1] = i[at + 1]
      /\ \A k \in 1 .. Len(o) : u[k] = o[k]
  BY <1>1, AppendProperties
<1> HIDE DEF u
<1>3. /\ (at + 1) - (n + 1) = at - n /\ at - n \in Nat
      /\ n + 1 \in 0 .. MAX_LIT /\ n + 1 <= at + 1
      /\ Len(u) = start + 1 + (n + 1)
  BY <1>1, <1>2
<1>4. Tells(i, u, 0, 0, start, at - n)
  <2>1. \A k \in 1 .. start : u[k] = o[k]
    BY <1>1, <1>2
  <2> QED
    BY <1>1, <1>3, <2>1, TellsStands DEF Running
<1>5. ASSUME NEW k \in 1 .. n + 1
      PROVE  u[start + 1 + k] = i[(at + 1) - (n + 1) + k]
  <2>1. CASE k = n + 1
    <3>1. start + 1 + k = Len(o) + 1 /\ (at + 1) - (n + 1) + k = at + 1
      BY <1>1, <2>1
    <3> QED
      BY <1>2, <3>1
  <2>2. CASE k # n + 1
    <3>1. k \in 1 .. n /\ start + 1 + k \in 1 .. Len(o)
          /\ (at + 1) - (n + 1) + k = at - n + k
      BY <1>1, <2>2
    <3> QED
      BY <1>2, <3>1 DEF Running
  <2> QED
    BY <2>1, <2>2
<1>6. Running(i, u, n + 1, start, at + 1)
  BY <1>1, <1>2, <1>3, <1>4, <1>5 DEF Running
<1> QED
  BY <1>6 DEF u

LEMMA ReferenceAppends ==
  ASSUME NEW i, NEW c, NEW at \in Nat, Told(i, c, at),
         NEW back \in 1 .. MAX_OFF, back <= at, NEW n \in 3 .. MAX_REF,
         \A k \in 1 .. n : i[at + k] = i[at + k - back]
  PROVE  Told(i, c \o Token(back - 1, n - 2), at + n)
<1> DEFINE t == Token(back - 1, n - 2)
           w == c \o t
<1>1. /\ c \in Seq(Byte) /\ Len(c) \in Nat /\ MAX_REF \in Nat /\ MAX_OFF \in Nat
      /\ back \in Nat /\ n \in Nat
  BY Limits, LenProperties DEF Told
<1>2. t \in Seq(Byte) /\ Len(t) \in {2, 3}
  <2>1. back - 1 \in 0 .. MAX_OFF - 1 /\ n - 2 \in 1 .. MAX_REF - 2
    BY <1>1
  <2> QED
    BY <2>1, TokenDecodes
<1> HIDE DEF t
<1>3. /\ w \in Seq(Byte) /\ Len(w) = Len(c) + Len(t)
      /\ \A k \in 1 .. Len(c) + Len(t) :
           w[k] = IF k <= Len(c) THEN c[k] ELSE t[k - Len(c)]
  BY <1>1, <1>2, ConcatProperties
<1> HIDE DEF w
<1>4. \A k \in 1 .. Len(c) : w[k] = c[k]
  BY <1>1, <1>2, <1>3
<1>5. ASSUME NEW k \in 1 .. Len(t) PROVE w[Len(c) + k] = t[k]
  <2>1. Len(c) + k \in 1 .. Len(c) + Len(t) /\ ~(Len(c) + k <= Len(c))
        /\ (Len(c) + k) - Len(c) = k
    BY <1>1, <1>2
  <2> QED
    BY <1>3, <2>1
<1>6. TokenTells(i, w, Len(c), at, Len(w), at + n)
  <2>1. (at + n) - at = n
    BY <1>1
  <2>2. ReferenceTells(i, w, Len(c), at, Len(w), at + n)
    BY <1>3, <1>5, <2>1 DEF ReferenceTells, t
  <2> QED
    BY <2>2 DEF TokenTells
<1>7. Len(c) < Len(w) /\ at <= at + n /\ at + n \in Nat /\ Len(w) \in Nat
  <2>1. Len(w) = Len(c) + 2 \/ Len(w) = Len(c) + 3
    BY <1>2, <1>3
  <2>2. at <= at + n /\ at + n \in Nat
    BY <1>1
  <2> QED
    BY <1>1, <2>1, <2>2
<1>8. Tells(i, w, 0, 0, Len(w), at + n)
  BY <1>1, <1>4, <1>6, <1>7, TellsMore DEF Told
<1>9. Told(i, w, at + n)
  BY <1>3, <1>8 DEF Told
<1> QED
  BY <1>9 DEF w, t

-----------------------------------------------------------------------------
(* The invariant.                                                          *)

Typed ==
  /\ input \in Seq(Byte)
  /\ pc \in {"compress", "decompress", "raw", "ok", "error"}
  /\ ip \in 0 .. in_len /\ lit \in 0 .. MAX_LIT - 1 /\ lit_start \in Nat
  /\ out \in Seq(Byte) /\ buf \in Seq(Byte)
  /\ hval \in Nat /\ hash_table \in [0 .. HASH_SIZE - 1 -> Nat]
  /\ cap \in Nat /\ dp \in Nat

(* The run that is open tells the block up to ip.                          *)
Written ==
  /\ Running(input, out, lit, lit_start, ip)
  /\ dp = 0 /\ buf = <<>>

(* What is decompressed is a prefix of the block, and the rest of the      *)
(* compressed bytes tells the rest of it.                                  *)
Reading ==
  /\ dp < Len(out)
  /\ Len(buf) \in 0 .. in_len /\ Len(buf) <= cap
  /\ \A k \in 1 .. Len(buf) : buf[k] = input[k]
  /\ Tells(input, out, dp, Len(buf), Len(out), in_len)

LzfInv ==
  /\ Typed
  /\ pc = "compress" => Written
  /\ pc = "decompress" => Reading
  /\ pc = "raw" => buf = <<>>
  /\ pc = "ok" => buf = input /\ in_len <= cap
  /\ pc = "error" => cap < in_len /\ Len(buf) <= cap

LEMMA ByteAt ==
  ASSUME Typed, NEW k \in 0 .. in_len - 1
  PROVE  At(k) \in Byte /\ At(k) \in Nat
<1>1. in_len \in Nat /\ k + 1 \in 1 .. Len(input)
  BY LenProperties DEF Typed, in_len
<1>2. input[k + 1] \in Byte
  BY <1>1, ElementOfSeq DEF Typed
<1> QED
  BY <1>2 DEF At, Byte

LEMMA RollIsNat ==
  ASSUME NEW h \in Nat, NEW b \in Nat
  PROVE  Roll(h, b) \in Nat
<1> DEFINE w == ByteValues * ByteValues * ByteValues
           a == h * ByteValues + b
<1>1. w \in Nat \ {0}
  <2>1. ByteValues \in Nat \ {0}
    BY Limits
  <2>2. ByteValues * ByteValues \in Nat \ {0}
    BY <2>1
  <2> DEFINE x == ByteValues * ByteValues
  <2> HIDE DEF x
  <2>3. x * ByteValues \in Nat \ {0}
    BY <2>1, <2>2 DEF x
  <2> QED
    BY <2>3 DEF x
<1>2. a \in Nat
  BY Limits
<1> HIDE DEF w, a
<1>3. a % w \in Nat
  BY <1>1, <1>2
<1> QED
  BY <1>3 DEF Roll, w, a

LEMMA HashIndex ==
  ASSUME NEW h \in Nat
  PROVE  hash_idx(h) \in 0 .. HASH_SIZE - 1
<1> DEFINE a == (h \div ByteValues) - h * 5
<1>1. HASH_SIZE \in Nat \ {0} /\ ByteValues \in Nat \ {0}
  BY Limits, LimitsAssumption
<1>2. a \in Int
  BY <1>1
<1> HIDE DEF a
<1>3. a % HASH_SIZE \in 0 .. HASH_SIZE - 1
  BY <1>1, <1>2
<1> QED
  BY <1>3 DEF hash_idx, a

LEMMA LzfInvInit == Init => LzfInv
<1> SUFFICES ASSUME Init PROVE LzfInv
  OBVIOUS
<1>1. input \in Seq(Byte)
  BY InputsAssumption DEF Init, Byte
<1>2. in_len \in Nat
  BY <1>1, LenProperties DEF in_len
<1>3. 0 \in Byte /\ 0 \in 0 .. MAX_LIT - 1 /\ 0 \in 0 .. MAX_LIT /\ HASH_SIZE \in Nat \ {0}
  BY Limits, LimitsAssumption DEF Byte
<1>4. hval \in Nat
  <2>1. CASE in_len > 4
    <3>1. 1 \in 1 .. Len(input) /\ 2 \in 1 .. Len(input)
      BY <1>2, <2>1 DEF in_len
    <3>2. At(0) \in Byte /\ At(1) \in Byte
      BY <1>1, <3>1, ElementOfSeq DEF At
    <3>3. At(0) \in Nat /\ At(1) \in Nat
      BY <3>2 DEF Byte
    <3> DEFINE x == At(0) * ByteValues
    <3>4. x \in Nat
      BY <3>3, Limits
    <3> HIDE DEF x
    <3>5. x + At(1) \in Nat
      BY <3>3, <3>4
    <3> QED
      BY <2>1, <3>5 DEF Init, x
  <2>2. CASE ~(in_len > 4)
    BY <2>2 DEF Init
  <2> QED
    BY <2>1, <2>2
<1>5. out = <<0>> /\ out \in Seq(Byte) /\ Len(out) = 1
  BY <1>3 DEF Init
<1>6. Typed
  BY <1>1, <1>2, <1>3, <1>4, <1>5 DEF Init, Typed
<1>7. Written
  <2>1. Tells(input, out, 0, 0, 0, 0)
    BY TellsNothing
  <2> QED
    BY <1>3, <1>5, <2>1 DEF Init, Written, Running
<1> QED
  BY <1>6, <1>7 DEF Init, LzfInv

-----------------------------------------------------------------------------
(* compress().                                                             *)

LEMMA EmitsLiteral ==
  ASSUME LzfInv, pc = "compress", ip < in_len, EmitLiteral,
         hval' \in Nat, hash_table' \in [0 .. HASH_SIZE - 1 -> Nat]
  PROVE  LzfInv'
<1> DEFINE b == At(ip)
           grown == Append(out, b)
<1>1. /\ Typed /\ Running(input, out, lit, lit_start, ip)
      /\ in_len \in Nat /\ ip \in Nat /\ lit \in Nat /\ MAX_LIT \in Nat \ {0}
      /\ lit < MAX_LIT
  BY Limits, LenProperties DEF LzfInv, Written, Typed, in_len
<1>2. b \in Byte /\ b = input[ip + 1]
  BY <1>1, ByteAt DEF At
<1>3. Running(input, grown, lit + 1, lit_start, ip + 1)
  BY <1>1, <1>2, RunGrows
<1>4. /\ ip' = ip + 1 /\ ip + 1 \in 0 .. in_len
      /\ UNCHANGED <<input, pc, cap, dp, buf>> /\ in_len' = in_len
  BY <1>1 DEF EmitLiteral, decompressVars, in_len
<1> HIDE DEF b
<1>5. /\ Running(input, out', lit', lit_start', ip + 1)
      /\ lit' \in 0 .. MAX_LIT - 1
  <2>1. CASE lit + 1 = MAX_LIT
    <3> DEFINE c == CloseRun(grown, MAX_LIT, lit_start)
    <3>1. out' = Append(c, 0) /\ lit' = 0 /\ lit_start' = Len(grown)
      BY <2>1 DEF EmitLiteral, b
    <3>2. Told(input, c, ip + 1)
      BY <1>3, <2>1, RunCloses
    <3>3. Len(c) = Len(grown)
      <4>1. grown \in Seq(Byte) /\ lit_start + 1 \in 1 .. Len(grown)
            /\ MAX_LIT - 1 \in Byte /\ MAX_LIT > 0
        <5>1. /\ Len(grown) = lit_start + 1 + (lit + 1) /\ lit_start \in Nat
              /\ grown \in Seq(Byte)
          BY <1>3 DEF Running
        <5> QED
          BY <1>1, <5>1, Limits DEF Byte
      <4> QED
        BY <4>1, ExceptSeq DEF CloseRun
    <3> HIDE DEF c
    <3>4. ip + 1 \in Nat
      BY <1>1
    <3> QED
      BY <1>1, <3>1, <3>2, <3>3, <3>4, RunOpens
  <2>2. CASE lit + 1 # MAX_LIT
    <3>1. out' = grown /\ lit' = lit + 1 /\ lit_start' = lit_start
      BY <2>2 DEF EmitLiteral, b
    <3>2. lit + 1 \in 0 .. MAX_LIT - 1
      BY <1>1, <2>2
    <3> QED
      BY <1>3, <3>1, <3>2
  <2> QED
    BY <2>1, <2>2
<1>6. out' \in Seq(Byte) /\ lit_start' \in Nat
  BY <1>5 DEF Running
<1>7. Typed'
  BY <1>1, <1>4, <1>5, <1>6 DEF Typed
<1>8. Written'
  BY <1>4, <1>5 DEF LzfInv, Written
<1> QED
  BY <1>4, <1>7, <1>8 DEF LzfInv

(* A match is at least as long as the bytes compared, and no longer than   *)
(* what is left of the block and what a token can say.                     *)
LEMMA MatchFound ==
  ASSUME Typed, Scanning, IsMatch
  PROVE  /\ match_len \in 3 .. MAX_REF /\ ip + match_len \in 0 .. in_len
         /\ ref_pos \in Nat \ {0} /\ ref_pos < ip
         /\ \A k \in 0 .. match_len - 1 : At(ref_pos + k) = At(ip + k)
<1>1. /\ in_len \in Nat /\ ip \in Nat /\ in_len - ip >= 3
      /\ MAX_REF \in Nat /\ MAX_REF >= 3
  BY Limits, LenProperties DEF Typed, Scanning, in_len
<1>2. /\ MatchLimit \in Nat /\ MatchLimit >= 3 /\ MatchLimit <= MAX_REF
      /\ MatchLimit <= in_len - ip
  BY <1>1 DEF MatchLimit
<1>3. ref_pos \in Nat \ {0} /\ ref_pos < ip
  <2>1. At(ip + 2) \in Nat
    <3>1. ip + 2 \in 0 .. in_len - 1
      BY <1>1
    <3> QED
      BY <3>1, ByteAt
  <2>2. Looked \in Nat
    BY <2>1, RollIsNat DEF Looked, Typed
  <2>3. hash_idx(Looked) \in 0 .. HASH_SIZE - 1
    BY <2>2, HashIndex
  <2>4. ref_pos \in Nat
    BY <2>3 DEF ref_pos, Typed
  <2> QED
    BY <2>4 DEF IsMatch
<1> DEFINE Q(n) == /\ \A k \in 3 .. n - 1 : At(ref_pos + k) = At(ip + k)
                   /\ n = MatchLimit \/ At(ref_pos + n) # At(ip + n)
           stops == {n \in 3 .. MatchLimit :
                       n = MatchLimit \/ At(ref_pos + n) # At(ip + n)}
<1>4. \E n \in 3 .. MatchLimit : Q(n)
  <2>1. stops \subseteq Nat /\ MatchLimit \in stops
    BY <1>2
  <2>2. PICK n \in stops : \A x \in stops : n <= x
    <3> HIDE DEF stops
    <3> QED
      BY <2>1, LeastElement
  <2>3. ASSUME NEW k \in 3 .. n - 1 PROVE At(ref_pos + k) = At(ip + k)
    <3>1. k \in 3 .. MatchLimit /\ ~(n <= k)
      BY <1>2, <2>2
    <3> QED
      BY <2>2, <3>1
  <2> QED
    BY <2>2, <2>3
<1>5. match_len \in 3 .. MatchLimit /\ Q(match_len)
  BY <1>4 DEF match_len
<1>6. ASSUME NEW k \in 0 .. match_len - 1 PROVE At(ref_pos + k) = At(ip + k)
  <2>1. k \in 0 .. 2 \/ k \in 3 .. match_len - 1
    BY <1>2, <1>5
  <2> QED
    BY <1>5, <2>1 DEF IsMatch
<1>7. match_len \in 3 .. MAX_REF /\ ip + match_len \in 0 .. in_len
  BY <1>1, <1>2, <1>5
<1> QED
  BY <1>3, <1>6, <1>7

LEMMA ReferenceStep ==
  ASSUME LzfInv, BackReference
  PROVE  LzfInv'
<1> DEFINE back == ip - ref_pos
           n == match_len
           end == ip + n
           c == CloseRun(out, lit, lit_start)
           w == c \o Token(back - 1, n - 2)
           at_ip == [hash_table EXCEPT ![hash_idx(Looked)] = ip]
           h1 == Roll(At(end - 2) * ByteValues + At(end - 1), At(end))
           h2 == Roll(h1, At(end + 1))
<1>1. /\ Typed /\ Running(input, out, lit, lit_start, ip)
      /\ pc = "compress" /\ Scanning /\ IsMatch /\ dp = 0 /\ buf = <<>>
      /\ in_len \in Nat /\ ip \in Nat /\ ip < in_len - 2
      /\ MAX_REF \in Nat /\ MAX_OFF \in Nat
  BY Limits, LenProperties
     DEF BackReference, Scanning, LzfInv, Written, Typed, in_len
<1>2. /\ n \in 3 .. MAX_REF /\ end \in 0 .. in_len
      /\ ref_pos \in Nat \ {0} /\ ref_pos < ip
      /\ \A k \in 0 .. n - 1 : At(ref_pos + k) = At(ip + k)
  BY <1>1, MatchFound
<1>3. (ip - ref_pos - 1) = back - 1
  BY <1>1, <1>2
<1>4. /\ out' = Append(w, 0) /\ lit_start' = Len(w) /\ ip' = end /\ lit' = 0
      /\ IF end >= in_len - 2
           THEN hash_table' = at_ip /\ hval' = Looked
           ELSE /\ hash_table' = [[at_ip EXCEPT ![hash_idx(h1)] = end - 2]
                                         EXCEPT ![hash_idx(h2)] = end - 1]
                /\ hval' = h2
      /\ UNCHANGED <<input, pc, cap, dp, buf>>
  BY <1>3 DEF BackReference, decompressVars
<1>5. Told(input, w, end)
  <2>1. Told(input, c, ip)
    BY <1>1, RunCloses
  <2>2. back \in 1 .. MAX_OFF /\ back <= ip
    BY <1>1, <1>2 DEF IsMatch
  <2>3. \A k \in 1 .. n : input[ip + k] = input[ip + k - back]
    <3> HIDE DEF n
    <3> TAKE k \in 1 .. n
    <3>1. /\ k - 1 \in 0 .. n - 1
          /\ ref_pos + (k - 1) + 1 = ip + k - back
          /\ ip + (k - 1) + 1 = ip + k
      BY <1>1, <1>2
    <3>2. At(ref_pos + (k - 1)) = At(ip + (k - 1))
      BY <1>2, <3>1
    <3> HIDE DEF back
    <3> QED
      BY <3>1, <3>2 DEF At
  <2> HIDE DEF c, n, back
  <2> QED
    BY <1>1, <1>2, <2>1, <2>2, <2>3, ReferenceAppends DEF n
<1>6. Running(input, out', 0, Len(w), end)
  <2> HIDE DEF w, n
  <2>1. end \in Nat
    BY <1>1, <1>2
  <2> QED
    BY <1>4, <1>5, <2>1, RunOpens
<1>7. at_ip \in [0 .. HASH_SIZE - 1 -> Nat] /\ Looked \in Nat
  <2>1. ip + 2 \in 0 .. in_len - 1
    BY <1>1
  <2>2. Looked \in Nat
    BY <1>1, <2>1, ByteAt, RollIsNat DEF Looked, Typed
  <2> QED
    BY <1>1, <2>2 DEF Typed
<1>8. hval' \in Nat /\ hash_table' \in [0 .. HASH_SIZE - 1 -> Nat]
  <2>1. CASE end >= in_len - 2
    BY <1>4, <1>7, <2>1
  <2>2. CASE ~(end >= in_len - 2)
    <3>1. /\ end - 2 \in 0 .. in_len - 1 /\ end - 1 \in 0 .. in_len - 1
          /\ end \in 0 .. in_len - 1 /\ end + 1 \in 0 .. in_len - 1
          /\ end - 2 \in Nat /\ end - 1 \in Nat
      BY <1>1, <1>2, <2>2
    <3>2. /\ At(end - 2) \in Nat /\ At(end - 1) \in Nat
          /\ At(end) \in Nat /\ At(end + 1) \in Nat
      BY <1>1, <3>1, ByteAt
    <3>3. At(end - 2) * ByteValues + At(end - 1) \in Nat
      BY <3>2, Limits
    <3>4. h1 \in Nat
      BY <3>2, <3>3, RollIsNat
    <3>5. h2 \in Nat
      BY <3>2, <3>4, RollIsNat
    <3> HIDE DEF at_ip, h1, h2, n
    <3> QED
      BY <1>4, <1>7, <2>2, <3>1, <3>5
  <2> QED
    BY <2>1, <2>2
<1> HIDE DEF w, n, back
<1>9. Typed'
  <2>1. in_len' = in_len /\ ip' \in 0 .. in_len
    BY <1>2, <1>4 DEF in_len
  <2>2. out' \in Seq(Byte) /\ lit_start' \in Nat /\ lit' \in 0 .. MAX_LIT - 1
    BY <1>4, <1>6, Limits DEF Running
  <2> QED
    BY <1>1, <1>4, <1>8, <2>1, <2>2 DEF Typed
<1>10. Written'
  BY <1>1, <1>4, <1>6 DEF Written
<1> QED
  BY <1>1, <1>4, <1>9, <1>10 DEF LzfInv

LEMMA LiteralStep ==
  ASSUME LzfInv, Literal \/ TailLiteral
  PROVE  LzfInv'
<1>1. Typed /\ in_len \in Nat /\ ip \in Nat
  BY LenProperties DEF LzfInv, Typed, in_len
<1>2. CASE Literal
  <2>1. pc = "compress" /\ ip + 2 \in 0 .. in_len - 1 /\ ip < in_len
    BY <1>1, <1>2 DEF Literal, Scanning
  <2>2. Looked \in Nat
    BY <1>1, <2>1, ByteAt, RollIsNat DEF Looked, Typed
  <2>3. hval' \in Nat /\ hash_table' \in [0 .. HASH_SIZE - 1 -> Nat]
    BY <1>1, <1>2, <2>2 DEF Literal, Typed
  <2> QED
    BY <1>2, <2>1, <2>3, EmitsLiteral DEF Literal
<1>3. CASE TailLiteral
  BY <1>1, <1>3, EmitsLiteral DEF TailLiteral, Typed
<1> QED
  BY <1>2, <1>3

LEMMA FinishStep ==
  ASSUME LzfInv, Finish
  PROVE  LzfInv'
<1> DEFINE closed == CloseRun(out, lit, lit_start)
<1>1. /\ Typed /\ Running(input, out, lit, lit_start, ip)
      /\ pc = "compress" /\ dp = 0 /\ buf = <<>>
      /\ in_len \in Nat /\ (in_len <= 4 \/ ip = in_len)
      /\ UNCHANGED <<input, ip, lit, lit_start, hval, hash_table, dp, buf>>
  BY LenProperties DEF Finish, LzfInv, Written, Typed, in_len
<1>2. Told(input, closed, ip)
  BY <1>1, RunCloses
<1>3. CASE in_len > 4 /\ Len(closed) < in_len
  <2>1. /\ out' = closed /\ pc' = "decompress"
        /\ cap' \in {in_len - 1, in_len, in_len + 1}
    BY <1>3 DEF Finish
  <2> HIDE DEF closed
  <2>2. closed \in Seq(Byte) /\ Len(closed) \in Nat
        /\ Tells(input, closed, 0, 0, Len(closed), in_len)
    BY <1>1, <1>2, <1>3, LenProperties DEF Told
  <2>3. 0 < Len(closed)
    BY <1>1, <1>3, <2>2, TellsNext
  <2>4. cap' \in Nat /\ in_len' = in_len /\ Len(buf) = 0
    BY <1>1, <1>3, <2>1 DEF in_len
  <2>5. Typed'
    BY <1>1, <2>1, <2>2, <2>4 DEF Typed
  <2>6. Reading'
    BY <1>1, <2>1, <2>2, <2>3, <2>4 DEF Reading
  <2> QED
    BY <2>1, <2>5, <2>6 DEF LzfInv
<1>4. CASE ~(in_len > 4 /\ Len(closed) < in_len)
  <2>1. pc' = "raw" /\ UNCHANGED <<out, cap>>
    BY <1>4 DEF Finish
  <2>2. Typed'
    BY <1>1, <2>1 DEF Typed, in_len
  <2> QED
    BY <1>1, <2>1, <2>2 DEF LzfInv
<1> QED
  BY <1>3, <1>4

-----------------------------------------------------------------------------
(* lzf_decompress.                                                         *)

(* Bytes that continue the block are written.                              *)
LEMMA Continues ==
  ASSUME LzfInv, pc = "decompress", UNCHANGED <<input, compressVars, cap>>,
         NEW r \in dp + 1 .. Len(out), NEW s \in Len(buf) .. in_len,
         Tells(input, out, r, s, Len(out), in_len),
         NEW more \in Seq(Byte), Len(more) = s - Len(buf),
         \A k \in 1 .. s - Len(buf) : more[k] = input[Len(buf) + k],
         Write(more, r - dp), s <= cap
  PROVE  LzfInv'
<1>1. /\ Typed /\ Reading /\ in_len \in Nat /\ Len(buf) \in Nat
      /\ Len(out) \in Nat /\ dp \in Nat /\ cap \in Nat
      /\ input \in Seq(Byte) /\ buf \in Seq(Byte)
  BY LenProperties DEF LzfInv, Typed, in_len
<1>2. /\ UNCHANGED <<input, cap, ip, lit, lit_start, out, hval, hash_table>>
      /\ in_len' = in_len /\ dp' = r /\ r \in Nat /\ s \in Nat
      /\ pc' = (IF r < Len(out) THEN "decompress" ELSE "ok")
      /\ buf' = buf \o more
  <2>1. dp + (r - dp) = r /\ r \in Nat /\ s \in Nat
    BY <1>1
  <2> QED
    BY <2>1 DEF Write, compressVars, in_len
<1>3. /\ buf' \in Seq(Byte) /\ Len(buf') = s
      /\ \A k \in 1 .. s : buf'[k] = input[k]
  <2>1. /\ buf' \in Seq(Byte) /\ Len(buf') = Len(buf) + Len(more)
        /\ \A k \in 1 .. Len(buf) + Len(more) :
             buf'[k] = IF k <= Len(buf) THEN buf[k] ELSE more[k - Len(buf)]
    BY <1>1, <1>2, ConcatProperties
  <2>2. Len(buf) + Len(more) = s
    BY <1>1, <1>2
  <2>3. ASSUME NEW k \in 1 .. s PROVE buf'[k] = input[k]
    <3>1. CASE k <= Len(buf)
      <4>1. k \in 1 .. Len(buf)
        BY <1>1, <1>2, <3>1
      <4> QED
        BY <1>1, <2>1, <2>2, <3>1, <4>1 DEF Reading
    <3>2. CASE ~(k <= Len(buf))
      <4>1. k - Len(buf) \in 1 .. s - Len(buf) /\ Len(buf) + (k - Len(buf)) = k
        BY <1>1, <1>2, <3>2
      <4>2. more[k - Len(buf)] = input[Len(buf) + (k - Len(buf))]
        BY <4>1
      <4> QED
        BY <2>1, <2>2, <3>2, <4>1, <4>2
    <3> QED
      BY <3>1, <3>2
  <2> QED
    BY <2>1, <2>2, <2>3
<1>4. Typed'
  BY <1>1, <1>2, <1>3 DEF Typed
<1>5. CASE r < Len(out)
  <2>1. Reading'
    BY <1>1, <1>2, <1>3, <1>5 DEF Reading
  <2> QED
    BY <1>2, <1>4, <1>5, <2>1 DEF LzfInv
<1>6. CASE ~(r < Len(out))
  <2>1. r = Len(out) /\ ~(\E x \in r + 1 .. Len(out) : TRUE)
    BY <1>1, <1>2, <1>6
  <2>2. s = in_len
    BY <1>1, <1>2, <2>1, TellsNext
  <2>3. buf' = input
    BY <1>1, <1>3, <2>2, SeqEqual DEF in_len
  <2> QED
    BY <1>2, <1>4, <1>6, <2>2, <2>3 DEF LzfInv
<1> QED
  BY <1>5, <1>6

(* Decompression gives up only on a buffer that is too small.              *)
LEMMA GivesUp ==
  ASSUME LzfInv, pc = "decompress", UNCHANGED <<input, compressVars, cap>>,
         NEW n \in Nat, Len(buf) + n <= in_len, ~Fits(n), Refused
  PROVE  LzfInv'
<1>1. /\ Typed /\ Reading /\ in_len \in Nat /\ Len(buf) \in Nat /\ cap \in Nat
  BY LenProperties DEF LzfInv, Typed, in_len
<1>2. /\ UNCHANGED <<input, cap, ip, lit, lit_start, out, hval, hash_table,
                     dp, buf>>
      /\ in_len' = in_len /\ pc' = "error"
  BY DEF Refused, compressVars, in_len
<1>3. cap < in_len
  BY <1>1 DEF Fits
<1>4. Typed'
  BY <1>1, <1>2 DEF Typed
<1> QED
  BY <1>1, <1>2, <1>3, <1>4 DEF LzfInv, Reading

(* While there are bytes to read, the next of them are a token.            *)
LEMMA TokenAhead ==
  ASSUME LzfInv, pc = "decompress"
  PROVE  \E r \in dp + 1 .. Len(out), s \in Len(buf) .. in_len :
           /\ TokenTells(input, out, dp, Len(buf), r, s)
           /\ Tells(input, out, r, s, Len(out), in_len)
<1>1. /\ Typed /\ Reading /\ in_len \in Nat /\ Len(buf) \in Nat
      /\ Len(out) \in Nat /\ dp \in Nat
  BY LenProperties DEF LzfInv, Typed, in_len
<1>2. dp # Len(out) /\ Tells(input, out, dp, Len(buf), Len(out), in_len)
  BY <1>1 DEF Reading
<1> QED
  BY <1>1, <1>2, TellsNext

(* After position q, block i equals itself d bytes before, for n bytes.    *)
Periodic(i, q, d, n) == \A k \in 1 .. n : i[q + k] = i[q + k - d]

(* There it repeats the d bytes before q.                                  *)
Repeats(i, q, d, n) ==
  \A k \in 1 .. n : i[q + k] = i[q - d + 1 + ((k - 1) % d)]

(* A copy that overtakes its own output repeats the last d bytes, and that *)
(* is what a block looks like that equals itself d bytes before.           *)
LEMMA CopyRepeats ==
  ASSUME NEW i, NEW q \in Nat, NEW d \in Nat \ {0}, d <= q, NEW n \in Nat,
         Periodic(i, q, d, n)
  PROVE  Repeats(i, q, d, n)
<1> DEFINE S == {m \in Nat : m + 1 <= n =>
                   i[q + (m + 1)] = i[q - d + 1 + (m % d)]}
<1>1. ASSUME NEW m \in Nat, \A x \in 0 .. m - 1 : x \in S
      PROVE  m \in S
  <2> SUFFICES ASSUME m + 1 <= n
               PROVE  i[q + (m + 1)] = i[q - d + 1 + (m % d)]
    OBVIOUS
  <2>1. i[q + (m + 1)] = i[q + (m + 1) - d]
    <3>1. m + 1 \in 1 .. n
      OBVIOUS
    <3> QED
      BY <3>1 DEF Periodic
  <2>2. CASE m < d
    <3>1. m % d = m
      <4>1. 0 * d + m = m /\ m \in 0 .. d - 1
        BY <2>2
      <4>2. (0 * d + m) % d = m
        BY <4>1, DivisionIsUnique
      <4> QED
        BY <4>1, <4>2
    <3>2. q + (m + 1) - d = q - d + 1 + m
      OBVIOUS
    <3> QED
      BY <2>1, <3>1, <3>2
  <2>3. CASE ~(m < d)
    <3> DEFINE x == m - d
    <3>1. x \in 0 .. m - 1 /\ x + 1 <= n /\ q + (x + 1) = q + (m + 1) - d
      BY <2>3
    <3>2. x \in S
      BY <1>1, <3>1
    <3>3. x % d = m % d
      <4>1. d <= m /\ d \in Nat \ {0} /\ m \in Nat
        BY <2>3
      <4> QED
        BY <4>1, PhaseRepeats
    <3> HIDE DEF x
    <3>4. i[q + (x + 1)] = i[q - d + 1 + (x % d)]
      BY <3>1, <3>2
    <3> QED
      BY <2>1, <3>1, <3>3, <3>4
  <2> QED
    BY <2>2, <2>3
<1>2. \A m \in Nat : m \in S
  <2> HIDE DEF S
  <2> QED
    BY <1>1, SetStrongInduction
<1>3. ASSUME NEW k \in 1 .. n
      PROVE  i[q + k] = i[q - d + 1 + ((k - 1) % d)]
  <2> DEFINE m == k - 1
  <2>1. m \in Nat /\ m + 1 <= n /\ m + 1 = k
    OBVIOUS
  <2> HIDE DEF m
  <2>2. i[q + (m + 1)] = i[q - d + 1 + (m % d)]
    BY <1>2, <2>1
  <2> QED
    BY <2>1, <2>2 DEF m
<1> QED
  BY <1>3 DEF Repeats

LEMMA DecodeLiteralsStep ==
  ASSUME LzfInv, DecodeLiterals
  PROVE  LzfInv'
<1> DEFINE q == Len(buf)
           more == SubSeq(out, dp + 2, dp + 2 + ctrl)
<1>1. /\ pc = "decompress" /\ ctrl < MAX_LIT
      /\ UNCHANGED <<input, compressVars, cap>>
  BY DEF DecodeLiterals
<1>2. /\ Typed /\ Reading /\ in_len \in Nat /\ q \in Nat
      /\ Len(out) \in Nat /\ dp \in Nat /\ MAX_LIT \in Nat
  BY <1>1, Limits, LenProperties DEF LzfInv, Typed, in_len
<1>3. PICK r \in dp + 1 .. Len(out), s \in q .. in_len :
        /\ TokenTells(input, out, dp, q, r, s)
        /\ Tells(input, out, r, s, Len(out), in_len)
  BY <1>1, TokenAhead
<1>4. LiteralsTell(input, out, dp, q, r, s)
  <2> SUFFICES ASSUME ReferenceTells(input, out, dp, q, r, s) PROVE FALSE
    BY <1>3 DEF TokenTells
  <2>1. PICK back \in 1 .. MAX_OFF :
          LET token == Token(back - 1, s - q - 2)
          IN /\ s - q \in 3 .. MAX_REF
             /\ \A k \in 1 .. Len(token) : out[dp + k] = token[k]
    BY DEF ReferenceTells
  <2> DEFINE token == Token(back - 1, s - q - 2)
  <2>2. back - 1 \in 0 .. MAX_OFF - 1 /\ s - q - 2 \in 1 .. MAX_REF - 2
    BY <2>1, Limits
  <2>3. Len(token) \in {2, 3} /\ token[1] >= MAX_LIT /\ token \in Seq(Byte)
    BY <2>2, TokenDecodes
  <2>4. \A k \in 1 .. Len(token) : out[dp + k] = token[k]
    BY <2>1
  <2> HIDE DEF token
  <2>5. 1 \in 1 .. Len(token)
    BY <2>3
  <2>6. token[1] \in Byte
    BY <2>3, <2>5, ElementOfSeq
  <2>7. out[dp + 1] = token[1] /\ token[1] \in Nat
    BY <2>4, <2>5, <2>6 DEF Byte
  <2> QED
    BY <1>1, <1>2, <2>3, <2>7 DEF ctrl
<1>5. /\ ctrl = s - q - 1 /\ s - q \in 1 .. MAX_LIT /\ r = dp + 1 + (s - q)
      /\ \A k \in 1 .. s - q : out[dp + 1 + k] = input[q + k]
  BY <1>4 DEF LiteralsTell, ctrl
<1>6. ctrl + 1 = s - q /\ ctrl + 2 = r - dp /\ dp + 2 + ctrl = r
      /\ ctrl + 1 \in Nat /\ s \in Nat /\ r \in Nat /\ q + (ctrl + 1) = s
  BY <1>2, <1>5
<1>7. /\ more \in Seq(Byte) /\ Len(more) = s - q
      /\ \A k \in 1 .. s - q : more[k] = input[q + k]
  <2>1. \A j \in dp + 2 .. r : out[j] \in Byte
    <3>1. \A j \in dp + 2 .. r : j \in 1 .. Len(out)
      BY <1>2, <1>3
    <3> QED
      BY <1>2, <3>1, ElementOfSeq DEF Typed
  <2>2. /\ more \in Seq(Byte)
        /\ Len(more) = (IF dp + 2 <= r THEN r - (dp + 2) + 1 ELSE 0)
        /\ \A k \in 1 .. r - (dp + 2) + 1 : more[k] = out[dp + 2 + k - 1]
    BY <1>2, <1>6, <2>1, SubSeqProperties
  <2> HIDE DEF more
  <2>3. r - (dp + 2) + 1 = s - q /\ dp + 2 <= r
    BY <1>2, <1>5
  <2>4. ASSUME NEW k \in 1 .. s - q PROVE more[k] = input[q + k]
    <3>1. dp + 2 + k - 1 = dp + 1 + k
      BY <1>2
    <3> QED
      BY <1>5, <2>2, <2>3, <3>1
  <2> QED
    BY <2>2, <2>3, <2>4
<1> HIDE DEF more
<1>8. CASE Fits(ctrl + 1)
  <2>1. Write(more, r - dp)
    BY <1>6, <1>8 DEF DecodeLiterals, more
  <2>2. s <= cap
    BY <1>6, <1>8 DEF Fits
  <2> QED
    BY <1>1, <1>3, <1>7, <2>1, <2>2, Continues
<1>9. CASE ~Fits(ctrl + 1)
  <2>1. Refused
    BY <1>9 DEF DecodeLiterals
  <2>2. q + (ctrl + 1) <= in_len
    BY <1>2, <1>6
  <2> QED
    BY <1>1, <1>6, <1>9, <2>1, <2>2, GivesUp
<1> QED
  BY <1>8, <1>9

LEMMA DecodeReferenceStep ==
  ASSUME LzfInv, DecodeReference
  PROVE  LzfInv'
<1> DEFINE q == Len(buf)
<1>1. /\ pc = "decompress" /\ ctrl >= MAX_LIT
      /\ UNCHANGED <<input, compressVars, cap>>
  BY DEF DecodeReference
<1>2. /\ Typed /\ Reading /\ in_len \in Nat /\ q \in Nat
      /\ Len(out) \in Nat /\ dp \in Nat /\ MAX_LIT \in Nat
  BY <1>1, Limits, LenProperties DEF LzfInv, Typed, in_len
<1>3. PICK r \in dp + 1 .. Len(out), s \in q .. in_len :
        /\ TokenTells(input, out, dp, q, r, s)
        /\ Tells(input, out, r, s, Len(out), in_len)
  BY <1>1, TokenAhead
<1> DEFINE n == s - q
<1>4. ReferenceTells(input, out, dp, q, r, s)
  <2> SUFFICES ASSUME LiteralsTell(input, out, dp, q, r, s) PROVE FALSE
    BY <1>3 DEF TokenTells
  <2>1. ctrl = s - q - 1 /\ s - q \in 1 .. MAX_LIT
    BY DEF LiteralsTell, ctrl
  <2> QED
    BY <1>1, <1>2, <2>1
<1>5. PICK back \in 1 .. MAX_OFF :
        LET token == Token(back - 1, n - 2)
        IN /\ back <= q /\ n \in 3 .. MAX_REF
           /\ r = dp + Len(token)
           /\ \A k \in 1 .. Len(token) : out[dp + k] = token[k]
           /\ \A k \in 1 .. n : input[q + k] = input[q + k - back]
  BY <1>4 DEF ReferenceTells
<1> DEFINE token == Token(back - 1, n - 2)
           used == Len(token)
<1>6. back - 1 \in 0 .. MAX_OFF - 1 /\ n - 2 \in 1 .. MAX_REF - 2
      /\ back \in Nat \ {0} /\ n \in Nat /\ s = q + n
  BY <1>2, <1>5, Limits
<1>7. /\ token \in Seq(Byte) /\ used = (IF n - 2 < ESCAPE THEN 2 ELSE 3)
      /\ (token[1] \div MAX_LIT = ESCAPE) <=> n - 2 >= ESCAPE
      /\ n - 2 = IF n - 2 >= ESCAPE THEN ESCAPE + token[2]
                                    ELSE token[1] \div MAX_LIT
      /\ back - 1 = (token[1] % MAX_LIT) * ByteValues + token[used]
  BY <1>6, TokenDecodes
<1>8. /\ r = dp + used /\ back <= q
      /\ \A k \in 1 .. used : out[dp + k] = token[k]
      /\ \A k \in 1 .. n : input[q + k] = input[q + k - back]
  BY <1>5
<1> HIDE DEF token
<1>9. used \in {2, 3} /\ 1 \in 1 .. used /\ 2 \in 1 .. used /\ used \in 1 .. used
  BY <1>7
<1>10. /\ ctrl = token[1] /\ out[dp + 2] = token[2]
       /\ out[dp + used] = token[used] /\ token[used] \in Nat
       /\ token[1] \in Nat
  <2>1. token[1] \in Byte /\ token[used] \in Byte
    BY <1>7, <1>9, ElementOfSeq
  <2>2. out[dp + 1] = token[1] /\ out[dp + 2] = token[2]
        /\ out[dp + used] = token[used]
    BY <1>8, <1>9
  <2> QED
    BY <2>1, <2>2 DEF ctrl, Byte
<1> DEFINE long == ctrl \div MAX_LIT = ESCAPE
           len == IF long THEN ESCAPE + out[dp + 2] ELSE ctrl \div MAX_LIT
           width == IF long THEN 3 ELSE 2
           ref == q - (ctrl % MAX_LIT) * ByteValues - 1 - out[dp + width]
<1>11. width = used /\ len = n - 2
  <2>1. long <=> n - 2 >= ESCAPE
    BY <1>7, <1>10
  <2>2. ESCAPE \in Nat /\ n - 2 \in Nat
    BY <1>6, Limits
  <2>3. n - 2 >= ESCAPE <=> ~(n - 2 < ESCAPE)
    BY <2>2
  <2> HIDE DEF n, used
  <2> QED
    BY <1>7, <1>10, <2>1, <2>3
<1>12. ref = q - back
  <2> DEFINE x == (ctrl % MAX_LIT) * ByteValues
             y == token[used]
  <2>1. x \in Nat
    <3>1. ctrl \in Nat /\ MAX_LIT \in Nat \ {0}
      BY <1>10, Limits
    <3>2. ctrl % MAX_LIT \in Nat
      BY <3>1, Division
    <3> QED
      BY <3>2, Limits
  <2>2. y \in Nat /\ back - 1 = x + y
    BY <1>7, <1>10
  <2>3. ref = q - x - 1 - y
    BY <1>10, <1>11
  <2> HIDE DEF x, y, ref
  <2> QED
    BY <1>2, <1>6, <2>1, <2>2, <2>3
<1>13. \/ Fits(n) /\ Write(Copied(q - back, n), r - dp)
       \/ ~Fits(n) /\ Refused
  <2>1. IF Fits(len + 2) /\ ref >= 0
          THEN Write(Copied(ref, len + 2), width)
          ELSE Refused
    BY DEF DecodeReference
  <2>2. len + 2 = n /\ q - back >= 0
    <3> HIDE DEF len, n
    <3> QED
      BY <1>2, <1>6, <1>8, <1>11
  <2>3. width = r - dp
    <3> HIDE DEF width, used
    <3> QED
      BY <1>2, <1>8, <1>9, <1>11
  <2> HIDE DEF len, ref, width, used, n
  <2> QED
    BY <1>12, <2>1, <2>2, <2>3
<1> HIDE DEF long, len, width, ref, used, n
<1>14. CASE Fits(n) /\ Write(Copied(q - back, n), r - dp)
  <2> DEFINE more == Copied(q - back, n)
  <2>1. q - (q - back) = back
    BY <1>2, <1>6
  <2>2. more = [k \in 1 .. n |-> buf[q - back + 1 + ((k - 1) % back)]]
    BY <2>1 DEF Copied
  <2>3. ASSUME NEW k \in 1 .. n
        PROVE  /\ q - back + 1 + ((k - 1) % back) \in 1 .. q
               /\ buf[q - back + 1 + ((k - 1) % back)] = input[q + k]
    <3>1. k - 1 \in Nat /\ (k - 1) % back \in 0 .. back - 1
      <4>1. k - 1 \in Nat
        BY <1>6
      <4>2. back \in Nat \ {0}
        BY <1>6
      <4> QED
        BY <4>1, <4>2, Division
    <3> DEFINE z == (k - 1) % back
    <3>2. q - back + 1 + z \in 1 .. q
      <4>1. z \in 0 .. back - 1
        BY <3>1
      <4> HIDE DEF z
      <4> QED
        BY <1>2, <1>6, <1>8, <4>1
    <3>3. buf[q - back + 1 + z] = input[q - back + 1 + z]
      BY <1>2, <3>2 DEF Reading
    <3>4. input[q + k] = input[q - back + 1 + z]
      <4>1. /\ q \in Nat /\ back \in Nat \ {0} /\ back <= q /\ n \in Nat
            /\ Periodic(input, q, back, n)
        BY <1>2, <1>6, <1>8 DEF Periodic
      <4> HIDE DEF q, z
      <4>2. Repeats(input, q, back, n)
        BY <4>1, CopyRepeats
      <4> QED
        BY <4>2 DEF z, Repeats
    <3> QED
      BY <3>2, <3>3, <3>4
  <2>4. ASSUME NEW k \in 1 .. n
        PROVE  buf[q - back + 1 + ((k - 1) % back)] \in Byte
    BY <1>2, <2>3, ElementOfSeq DEF Typed
  <2>5. more \in Seq(Byte) /\ Len(more) = n /\ \A k \in 1 .. n : more[k] = input[q + k]
    <3> HIDE DEF more
    <3> QED
      BY <1>6, <2>2, <2>3, <2>4
  <2> HIDE DEF more
  <2>6. s <= cap /\ n = s - q
    BY <1>6, <1>14 DEF Fits, n
  <2>7. Write(more, r - dp)
    BY <1>14 DEF more
  <2> QED
    BY <1>1, <1>3, <2>5, <2>6, <2>7, Continues
<1>15. CASE ~Fits(n) /\ Refused
  <2>1. q + n <= in_len
    BY <1>2, <1>6
  <2> QED
    BY <1>1, <1>6, <1>15, <2>1, GivesUp
<1> QED
  BY <1>13, <1>14, <1>15

-----------------------------------------------------------------------------
LEMMA LzfInvStep == LzfInv /\ [Next]_vars => LzfInv'
<1> SUFFICES ASSUME LzfInv, [Next]_vars PROVE LzfInv'
  OBVIOUS
<1>1. CASE Done \/ UNCHANGED vars
  <2>1. UNCHANGED vars
    BY <1>1 DEF Done
  <2> QED
    BY <2>1 DEF vars, LzfInv, Typed, Written, Reading, in_len
<1> QED
  BY <1>1, ReferenceStep, LiteralStep, FinishStep, DecodeLiteralsStep,
     DecodeReferenceStep DEF Next

LEMMA AlwaysLzfInv == Spec => []LzfInv
BY LzfInvInit, LzfInvStep, PTL DEF Spec

(* lzf_decompress gives back the block that compress() was given, whole,   *)
(* in any buffer that can hold it, and refuses a smaller one without       *)
(* writing past its end - whatever the block and whatever the hash finds.  *)
THEOREM DecompressionIsExactTheorem == Spec => []DecompressionIsExact
<1>1. ASSUME LzfInv PROVE DecompressionIsExact
  <2>1. in_len \in Nat /\ cap \in Nat /\ Len(<<>>) = 0
    BY <1>1, LenProperties DEF LzfInv, Typed, in_len
  <2>2. Len(buf) <= cap
    BY <1>1, <2>1 DEF LzfInv, Typed, Written, Reading, in_len
  <2> QED
    BY <1>1, <2>2 DEF LzfInv, DecompressionIsExact
<1> QED BY <1>1, AlwaysLzfInv, PTL

(* Between two bytes of its input, what compress() has written, with the   *)
(* open run closed, tells what it has passed: OutputMeansInput, with marks *)
(* in place of the recursion.  Every element written is a byte: no cast to *)
(* u8 loses a bit.                                                         *)
WrittenTellsInput ==
  pc = "compress" =>
    LET c == CloseRun(out, lit, lit_start)
    IN c \in Seq(Byte) /\ Tells(input, c, 0, 0, Len(c), ip)

THEOREM WrittenTellsInputTheorem == Spec => []WrittenTellsInput
<1>1. LzfInv => WrittenTellsInput
  BY RunCloses DEF LzfInv, Written, WrittenTellsInput, Told
<1> QED BY <1>1, AlwaysLzfInv, PTL
=============================================================================
