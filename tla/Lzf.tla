--------------------------------- MODULE Lzf ---------------------------------
(***************************************************************************)
(* The LZF codec of one block: compress() of lzf.rs byte by byte, the      *)
(* decision to store the block raw, and lzf_decompress() of lzf_d.c into a *)
(* buffer of a given capacity.                                             *)
(*                                                                         *)
(* The code's limits all follow from two numbers, the values of a byte and *)
(* the longest literal run: a control byte below MAX_LIT announces         *)
(* literals, a larger one holds a length code and the high part of an      *)
(* offset.  With ByteValues = 256 and MAX_LIT = 32 the definitions give    *)
(* the code's 7, 264 and 8192; small values give the same codec on blocks  *)
(* small enough to enumerate.  Sequences are indexed from 1, the code's    *)
(* positions from 0.                                                       *)
(***************************************************************************)
EXTENDS Integers, Sequences

CONSTANTS
  ByteValues,   (* 256 in the code                                         *)
  MAX_LIT,      (* longest literal run, 32                                 *)
  HASH_SIZE,    (* slots of the hash table, 65536                          *)
  Inputs        (* blocks to compress                                      *)

ASSUME LimitsAssumption ==
  /\ MAX_LIT \in Nat \ {0} /\ HASH_SIZE \in Nat \ {0}
  /\ ByteValues \in Nat /\ ByteValues % MAX_LIT = 0
  /\ ByteValues \div MAX_LIT > 1

ASSUME InputsAssumption == Inputs \subseteq Seq(0 .. ByteValues - 1)

(* The length code that says "one more length byte follows".              *)
ESCAPE == ByteValues \div MAX_LIT - 1

MAX_REF == ByteValues - 1 + ESCAPE + 2

MAX_OFF == MAX_LIT * ByteValues

VARIABLES
  input,        (* the block                                               *)
  pc,           (* compress, decompress, raw, ok, error                    *)
  ip,           (* next byte of the input                                  *)
  lit,          (* bytes of the open literal run                           *)
  lit_start,    (* where its length byte is reserved                       *)
  out,          (* compressed bytes                                        *)
  hval,         (* rolling hash; the three bytes that its index depends on *)
  hash_table,   (* last position seen for a hash                           *)
  cap,          (* out_len of the decompression                            *)
  dp,           (* next byte of the compressed input                       *)
  buf           (* decompressed bytes                                      *)

vars == <<input, pc, ip, lit, lit_start, out, hval, hash_table, cap, dp, buf>>

compressVars == <<ip, lit, lit_start, out, hval, hash_table>>

decompressVars == <<cap, dp, buf>>

in_len == Len(input)

At(i) == input[i + 1]

hash_idx(h) == ((h \div ByteValues) - h * 5) % HASH_SIZE

(* The rolling hash after one more byte.                                   *)
Roll(h, b) == (h * ByteValues + b) % (ByteValues * ByteValues * ByteValues)

Init ==
  /\ input \in Inputs
  /\ pc = "compress"
  /\ ip = 0 /\ lit = 0 /\ lit_start = 0
  /\ out = <<0>>
  /\ hval = IF in_len > 4 THEN At(0) * ByteValues + At(1) ELSE 0
  /\ hash_table = [h \in 0..(HASH_SIZE - 1) |-> 0]
  /\ cap = 0 /\ dp = 0 /\ buf = <<>>

-----------------------------------------------------------------------------
(* Compression                                                             *)

Scanning == pc = "compress" /\ in_len > 4 /\ ip < in_len - 2

Looked == Roll(hval, At(ip + 2))

ref_pos == hash_table[hash_idx(Looked)]

IsMatch ==
  /\ ref_pos > 0 /\ ref_pos < ip
  /\ ip - ref_pos - 1 < MAX_OFF
  /\ \A k \in 0..2 : At(ref_pos + k) = At(ip + k)

MatchLimit_OneMore ==
  IF MAX_REF + 1 < in_len - ip THEN MAX_REF + 1 ELSE in_len - ip

MatchLimit == IF MAX_REF < in_len - ip THEN MAX_REF ELSE in_len - ip

match_len ==
  CHOOSE n \in 3..MatchLimit :
    /\ \A k \in 3..(n - 1) : At(ref_pos + k) = At(ip + k)
    /\ n = MatchLimit \/ At(ref_pos + n) # At(ip + n)

(* The literal run is closed, or its reserved byte is taken back.         *)
CloseRun(o, n, start) ==
  IF n > 0 THEN [o EXCEPT ![start + 1] = n - 1] ELSE SubSeq(o, 1, Len(o) - 1)

Token(off, len_code) ==
  IF len_code < ESCAPE
    THEN <<len_code * MAX_LIT + off \div ByteValues, off % ByteValues>>
    ELSE <<ESCAPE * MAX_LIT + off \div ByteValues,
           (len_code - ESCAPE) % ByteValues, off % ByteValues>>

(* A match: the back reference is written, a literal run is reserved, and, *)
(* unless the scan ends here, the last two positions of the match are      *)
(* hashed.                                                                 *)
BackReference ==
  /\ Scanning /\ IsMatch
  /\ LET written == CloseRun(out, lit, lit_start)
                      \o Token(ip - ref_pos - 1, match_len - 2)
         end == ip + match_len
         at_ip == [hash_table EXCEPT ![hash_idx(Looked)] = ip]
         h1 == Roll(At(end - 2) * ByteValues + At(end - 1), At(end))
         h2 == Roll(h1, At(end + 1))
     IN /\ out' = Append(written, 0)
        /\ lit_start' = Len(written)
        /\ ip' = end
        /\ IF end >= in_len - 2
             THEN hash_table' = at_ip /\ hval' = Looked
             ELSE /\ hash_table' = [[at_ip EXCEPT ![hash_idx(h1)] = end - 2]
                                           EXCEPT ![hash_idx(h2)] = end - 1]
                  /\ hval' = h2
  /\ lit' = 0
  /\ UNCHANGED <<input, pc, decompressVars>>

(* One byte joins the literal run; a full run is closed at once.           *)
EmitLiteral ==
  LET grown == Append(out, At(ip))
  IN /\ ip' = ip + 1
     /\ IF lit + 1 = MAX_LIT
          THEN /\ out' = Append(CloseRun(grown, MAX_LIT, lit_start), 0)
               /\ lit' = 0
               /\ lit_start' = Len(grown)
          ELSE out' = grown /\ lit' = lit + 1 /\ UNCHANGED lit_start
     /\ UNCHANGED <<input, pc, decompressVars>>

Literal ==
  /\ Scanning /\ ~IsMatch
  /\ hash_table' = [hash_table EXCEPT ![hash_idx(Looked)] = ip]
  /\ hval' = Looked
  /\ EmitLiteral

TailLiteral ==
  /\ pc = "compress" /\ in_len > 4
  /\ ip >= in_len - 2 /\ ip < in_len
  /\ EmitLiteral
  /\ UNCHANGED <<hval, hash_table>>

(* The block is stored compressed only if that is shorter; the reader then *)
(* decompresses it into a buffer it has sized beforehand.                  *)
Finish ==
  /\ pc = "compress" /\ (in_len <= 4 \/ ip = in_len)
  /\ LET closed == CloseRun(out, lit, lit_start)
     IN IF in_len > 4 /\ Len(closed) < in_len
          THEN /\ out' = closed /\ pc' = "decompress"
               /\ cap' \in {in_len - 1, in_len, in_len + 1}
          ELSE pc' = "raw" /\ UNCHANGED <<out, cap>>
  /\ UNCHANGED <<input, ip, lit, lit_start, hval, hash_table, dp, buf>>

-----------------------------------------------------------------------------
(* Decompression                                                           *)

ctrl == out[dp + 1]

Fits_Unchecked(n) == n > 0

(* Nothing is written past out_end.                                        *)
Fits(n) == Len(buf) + n <= cap

(* Written: `more` bytes join the buffer, `read` bytes were consumed.      *)
Write(more, read) ==
  /\ buf' = buf \o more
  /\ dp' = dp + read
  /\ pc' = IF dp + read < Len(out) THEN "decompress" ELSE "ok"

Refused == pc' = "error" /\ UNCHANGED <<dp, buf>>

DecodeLiterals ==
  /\ pc = "decompress" /\ ctrl < MAX_LIT
  /\ IF Fits(ctrl + 1)
       THEN Write(SubSeq(out, dp + 2, dp + 2 + ctrl), ctrl + 2)
       ELSE Refused
  /\ UNCHANGED <<input, compressVars, cap>>

(* n bytes copied one by one from `ref`, where the copy may overtake its   *)
(* own output and then repeats the last d bytes.                           *)
Copied(ref, n) ==
  LET d == Len(buf) - ref
  IN [k \in 1..n |-> buf[ref + 1 + ((k - 1) % d)]]

DecodeReference ==
  /\ pc = "decompress" /\ ctrl >= MAX_LIT
  /\ LET long == ctrl \div MAX_LIT = ESCAPE
         len == IF long THEN ESCAPE + out[dp + 2] ELSE ctrl \div MAX_LIT
         used == IF long THEN 3 ELSE 2
         ref == Len(buf) - (ctrl % MAX_LIT) * ByteValues - 1 - out[dp + used]
     IN IF Fits(len + 2) /\ ref >= 0
          THEN Write(Copied(ref, len + 2), used)
          ELSE Refused
  /\ UNCHANGED <<input, compressVars, cap>>

Done == pc \in {"raw", "ok", "error"} /\ UNCHANGED vars

Next ==
  \/ BackReference \/ Literal \/ TailLiteral \/ Finish
  \/ DecodeLiterals \/ DecodeReference \/ Done

Spec == Init /\ [][Next]_vars

-----------------------------------------------------------------------------
(* lzf_decompress gives back the block that compress() was given, whole,   *)
(* in any buffer that can hold it, and refuses a smaller buffer instead of *)
(* returning part of the block or writing past the end.                    *)
DecompressionIsExact ==
  /\ Len(buf) <= cap
  /\ pc = "ok" => buf = input
  /\ pc = "error" => cap < in_len
=============================================================================
