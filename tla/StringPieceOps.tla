----------------------------- MODULE StringPieceOps -----------------------------
(***************************************************************************)
(* What StringPiece does without a loop of its own (base/string_piece.h and*)
(* string_piece.cc: views, comparisons, find and rfind of a piece) and the *)
(* loops of base/string16.cc.                                              *)
(*                                                                         *)
(* A piece is its length and its text, a function on 0..length-1; a view   *)
(* is a place and a length in the text of another piece.  Lengths and      *)
(* positions are size_types: unsigned and wrapping around.                 *)
(***************************************************************************)
EXTENDS Integers

CONSTANTS Chars,       \* the characters, numbers as memcmp compares them
          MaxLength,   \* bound on the length of the text
          MaxOther,    \* bound on the length of what it is compared with
          Npos         \* size_type(-1), the largest size_type

\* Both pieces are in memory at once.
ASSUME SizeAssumption == MaxLength \in Nat /\ Npos \in Nat /\ MaxLength <= Npos
ASSUME OtherAssumption == MaxOther \in Nat /\ MaxLength + MaxOther <= Npos
ASSUME CharAssumption == Chars \subseteq Nat

Sizes       == 0..Npos
Least(m, n) == IF m < n THEN m ELSE n

\* Sum and difference of size_types.
Plus(m, n)  == (m + n) % (Npos + 1)
Minus(m, n) == (m - n) % (Npos + 1)

Pieces(n) == UNION {[text : [0..k-1 -> Chars], length : {k}] : k \in 0..n}
-----------------------------------------------------------------------------
(***************************************************************************)
(* Views.                                                                  *)
(***************************************************************************)
View(ptr, n)  == [ptr |-> ptr, length |-> n]
Whole(p)      == View(0, p.length)
Inside(p, v)  == v.ptr >= 0 /\ v.length >= 0 /\ v.ptr + v.length <= p.length
Contents(p, v) == [text |-> [i \in 0..v.length-1 |-> p.text[v.ptr + i]],
                   length |-> v.length]

\* Mutant: n is not cut at the end of the piece.
SubstrUncut(p, pos, n) == View(Least(pos, p.length), n)

\* substr(pos, n)
Substr(p, pos, n) ==
    LET from == Least(pos, p.length)
    IN  View(from, Least(n, Minus(p.length, from)))

\* remove_prefix(n) and remove_suffix(n) of the view v.
RemovePrefix(v, n) == View(v.ptr + n, Minus(v.length, n))
RemoveSuffix(v, n) == [v EXCEPT !.length = Minus(@, n)]

\* The characters that copy(buf, n, pos) reads.
Copied(p, n, pos) == View(pos, Least(Minus(p.length, pos), n))
-----------------------------------------------------------------------------
(***************************************************************************)
(* Comparisons.                                                            *)
(***************************************************************************)

\* The sign of memcmp(p + from, q, n).
Memcmp(p, from, q, n) ==
    LET differ == {k \in 0..n-1 : p.text[from + k] # q.text[k]}
    IN  IF differ = {} THEN 0
        ELSE LET k == CHOOSE k \in differ : \A j \in differ : k <= j
             IN  IF p.text[from + k] < q.text[k] THEN -1 ELSE 1

\* Mutant: the lengths are not looked at.
CompareCommon(p, q) == Memcmp(p, 0, q, Least(p.length, q.length))

\* compare(x)
Compare(p, q) ==
    LET r == Memcmp(p, 0, q, Least(p.length, q.length))
    IN  IF r # 0 THEN r
        ELSE IF p.length < q.length THEN -1 ELSE IF p.length > q.length THEN 1 ELSE 0

\* operator==, starts_with, ends_with
Equal(p, q)      == p.length = q.length /\ Memcmp(p, 0, q, p.length) = 0
StartsWith(p, q) == p.length >= q.length /\ Memcmp(p, 0, q, q.length) = 0
EndsWith(p, q)   == p.length >= q.length /\ Memcmp(p, p.length - q.length, q, q.length) = 0
-----------------------------------------------------------------------------
(***************************************************************************)
(* find and rfind of a piece.                                              *)
(***************************************************************************)
Matches(p, q, from, to) == {k \in from..(to - q.length) : Memcmp(p, k, q, q.length) = 0}

\* std::search and std::find_end between two places of p: the first and the last match,
\* or the second place if there is none.
Search(p, q, from, to) ==
    LET ks == Matches(p, q, from, to)
    IN  IF ks = {} THEN to ELSE CHOOSE k \in ks : \A j \in ks : k <= j
FindEnd(p, q, from, to) ==
    LET ks == Matches(p, q, from, to)
    IN  IF ks = {} THEN to ELSE CHOOSE k \in ks : \A j \in ks : j <= k

\* find(s, pos)
Find(p, q, pos) ==
    IF pos > p.length THEN Npos
    ELSE LET xpos == Search(p, q, pos, p.length)
         IN  IF Plus(xpos, q.length) <= p.length THEN xpos ELSE Npos

\* Mutant: the search ends at pos and not behind a match that begins there.
RFindShort(p, q, pos) ==
    IF p.length < q.length THEN Npos
    ELSE IF q.length = 0 THEN Least(p.length, pos)
    ELSE LET last   == Least(p.length, pos)
             result == FindEnd(p, q, 0, last)
         IN  IF result # last THEN result ELSE Npos

\* rfind(s, pos)
RFind(p, q, pos) ==
    IF p.length < q.length THEN Npos
    ELSE IF q.length = 0 THEN Least(p.length, pos)
    ELSE LET last   == Least(Minus(p.length, q.length), pos) + q.length
             result == FindEnd(p, q, 0, last)
         IN  IF result # last THEN result ELSE Npos
-----------------------------------------------------------------------------
(***************************************************************************)
(* The loops of string16.cc; f[i] is the loop when it stands at i.         *)
(***************************************************************************)

\* Mutant: memcmp of a char16 whose low byte comes first; a byte has one bit here.
C16MemcmpBytes(s, t, n) ==
    LET f[i \in 0..n] ==
          IF i = n THEN 0
          ELSE IF s[i] % 2 # t[i] % 2 THEN (IF s[i] % 2 < t[i] % 2 THEN -1 ELSE 1)
          ELSE IF s[i] # t[i] THEN (IF s[i] < t[i] THEN -1 ELSE 1)
          ELSE f[i + 1]
    IN  f[0]

C16Memcmp(s, t, n) ==
    LET f[i \in 0..n] ==
          IF i = n THEN 0
          ELSE IF s[i] # t[i] THEN (IF s[i] < t[i] THEN -1 ELSE 1)
          ELSE f[i + 1]
    IN  f[0]

\* The length of a text that a 0 ends; what the loop makes of a text that has none is
\* not defined, and Npos stands for it.
C16Len(s) ==
    LET f[i \in DOMAIN s] == IF s[i] = 0 THEN i
                             ELSE IF i + 1 \in DOMAIN s THEN f[i + 1] ELSE Npos
    IN  f[0]

\* The place of the first c, or Npos for the null pointer.
C16Memchr(s, c, n) ==
    LET f[i \in 0..n] == IF i = n THEN Npos ELSE IF s[i] = c THEN i ELSE f[i + 1]
    IN  f[0]

C16Memset(s, c, n) ==
    LET f[i \in 0..n] == IF i = 0 THEN s ELSE [f[i - 1] EXCEPT ![i - 1] = c]
    IN  f[n]
================================================================================
