---------------------------- MODULE StringPieceScan ----------------------------
(***************************************************************************)
(* The searches of StringPiece for a character that is, or is not, one of a*)
(* set (base/string_piece.cc, find_first_of ... find_last_not_of): the     *)
(* early returns and then the loop, one test of a character per step.      *)
(*                                                                         *)
(* The index is a size_type, an unsigned integer from 0 to Npos that wraps *)
(* around: the backward loops leave by a test of their own, for i never    *)
(* gets below 0.  The overloads for one character, find(char) and          *)
(* rfind(char) among them, run the same loops; only the lookup table is    *)
(* replaced by a comparison.  Texts are functions on 0..length-1.          *)
(***************************************************************************)
EXTENDS StringPieceOps

Searches == {"find_first_of", "find_first_not_of", "find_last_of",
             "find_last_not_of"}
Backward == {"find_last_of", "find_last_not_of"}

VARIABLES search,      \* which of the functions was called
          text, length,   \* ptr_ and length_
          wanted,      \* the characters of s
          pos,         \* the argument
          i,           \* the index of the loop
          pc,          \* "start", "scan" or "done"
          result

input == <<search, text, length, wanted, pos>>
vars  == <<search, text, length, wanted, pos, i, pc, result>>

\* ++i and --i of a size_type.
Inc(n) == IF n = Npos THEN 0 ELSE n + 1
Dec(n) == IF n = 0 THEN Npos ELSE n - 1

\* lookup[ptr_[n]], or its negation.
Found(n) == IF search \in {"find_first_of", "find_last_of"}
            THEN text[n] \in wanted ELSE text[n] \notin wanted
-----------------------------------------------------------------------------
\* Any call on any text; an empty text is the function with no arguments.
Init ==
    /\ search \in Searches
    /\ length \in 0..MaxLength
    /\ text \in [0..length-1 -> Chars]
    /\ wanted \in SUBSET Chars
    /\ pos \in Sizes
    /\ i = 0 /\ pc = "start" /\ result = Npos

\* return n;
Return(n) == pc' = "done" /\ result' = n /\ UNCHANGED <<input, i>>

\* Mutant: the last character is taken to be at length_.
FirstIndexPast ==
    IF search \in Backward THEN Least(pos, length) ELSE pos

\* Mutant: pos is looked at by the backward searches only.
FirstIndexZero ==
    IF search \in Backward THEN Least(pos, length - 1) ELSE 0

\* Where the loop begins.
FirstIndex == IF search \in Backward THEN Least(pos, length - 1) ELSE pos

\* The answer without a look at the text: no text, or no character to look for.
\* find_first_not_of answers 0 then, whatever pos is.
Trivial == length = 0 \/ wanted = {}
TrivialAnswer ==
    IF length = 0 \/ search \in {"find_first_of", "find_last_of"} THEN Npos
    ELSE IF search = "find_first_not_of" THEN 0 ELSE FirstIndex

Enter ==
    /\ pc = "start"
    /\ IF Trivial THEN Return(TrivialAnswer)
       ELSE i' = FirstIndex /\ pc' = "scan" /\ UNCHANGED <<input, result>>

\* for (i = pos; i < length_; ++i)
Forward ==
    /\ pc = "scan" /\ search \notin Backward
    /\ IF i >= length THEN Return(Npos)
       ELSE IF Found(i) THEN Return(i)
       ELSE i' = Inc(i) /\ UNCHANGED <<input, pc, result>>

\* Mutant: the loop has no end of its own.
BackwardOnWrap ==
    /\ pc = "scan" /\ search \in Backward
    /\ IF i < length /\ Found(i) THEN Return(i)
       ELSE i' = Dec(i) /\ UNCHANGED <<input, pc, result>>

\* for (i = min(pos, length_ - 1); ; --i), left when i is 0.
BackwardOn ==
    /\ pc = "scan" /\ search \in Backward
    /\ IF Found(i) THEN Return(i)
       ELSE IF i = 0 THEN Return(Npos)
       ELSE i' = Dec(i) /\ UNCHANGED <<input, pc, result>>

Next == Enter \/ Forward \/ BackwardOn

\* The code runs on.
Spec == Init /\ [][Next]_vars /\ WF_vars(Next)
-----------------------------------------------------------------------------
(***************************************************************************)
(* Properties.                                                             *)
(***************************************************************************)

\* The variables have their types; the index is a size_type.
TypeOK ==
    /\ search \in Searches /\ length \in 0..MaxLength
    /\ text \in [0..length-1 -> Chars]
    /\ wanted \in SUBSET Chars
    /\ pos \in Sizes /\ i \in Sizes /\ result \in Sizes
    /\ pc \in {"start", "scan", "done"}

\* ptr_[i] is read inside the piece only, whatever pos is and wherever the loop
\* stands; a forward loop looks at i before it reads.
ReadsInside == pc = "scan" /\ search \in Backward => i < length

\* What std::string promises: the positions that may be answered, and which.
Candidates == {n \in 0..length-1 :
                 Found(n) /\ IF search \in Backward THEN n <= pos ELSE n >= pos}
IsAnswer(n) ==
    IF Candidates = {} THEN n = Npos
    ELSE /\ n \in Candidates
         /\ \A m \in Candidates : IF search \in Backward THEN m <= n ELSE n <= m

\* Every search answers what std::string does, for every pos up to npos and for
\* texts that are empty.  One call is left out: find_first_not_of for no character
\* answers 0 even if pos is larger.
AnswersLikeString ==
    pc = "done" /\ (search = "find_first_not_of" => wanted # {} \/ pos = 0)
      => IsAnswer(result)

\* The piece that is searched, before the search; the texts it is compared with.
Piece   == [text |-> text, length |-> length]
Others  == Pieces(MaxOther)
Fresh   == pc = "start" /\ search = "find_first_of"

\* find and rfind of a piece, substr, starts_with and remove_prefix agree on every place
\* and every pos, npos and those past the end included: what is found is the first, or
\* last, place not before, or behind, pos at which the rest of the piece starts with s.
FindsAgree ==
    Fresh => \A s \in Others :
      LET starts == {k \in 0..length :
                       StartsWith(Contents(Piece, RemovePrefix(Whole(Piece), k)), s)}
          after  == {k \in starts : k >= pos}
          before == {k \in starts : k <= pos}
          there(k) == Equal(Contents(Piece, Substr(Piece, k, s.length)), s)
          first  == Find(Piece, s, pos)
          last   == RFind(Piece, s, pos)
      IN  /\ IF after = {} THEN first = Npos
             ELSE first \in after /\ there(first) /\ \A k \in after : first <= k
          /\ IF before = {} THEN last = Npos
             ELSE last \in before /\ there(last) /\ \A k \in before : k <= last

\* No view leaves the piece it was made from: substr for any arguments, remove_prefix and
\* remove_suffix up to the length, one after the other too.  copy reads inside if it
\* begins inside; it has no test, so from behind the end it reads on for as long as the
\* buffer is.
ViewsStayInside ==
    Fresh => \A n \in Sizes :
      LET v == Substr(Piece, pos, n)
      IN  /\ Inside(Piece, v)
          /\ \A m \in 0..v.length : /\ Inside(Piece, RemovePrefix(v, m))
                                    /\ Inside(Piece, RemoveSuffix(RemovePrefix(v, m), v.length - m))
          /\ pos <= length => Inside(Piece, Copied(Piece, n, pos))

\* compare orders the pieces: what is compared the other way round has the other sign,
\* the order is transitive, and compare, ==, starts_with and ends_with agree.
ComparesInOrder ==
    Fresh => \A s \in Others :
      /\ Compare(Piece, s) = -Compare(s, Piece)
      /\ Compare(Piece, s) = 0 <=> Equal(Piece, s)
      /\ Equal(Piece, s) <=> StartsWith(Piece, s) /\ EndsWith(s, Piece)
      /\ StartsWith(Piece, s) => Compare(Piece, s) >= 0
      /\ \A t \in Others : Compare(Piece, s) < 0 /\ Compare(s, t) < 0 => Compare(Piece, t) < 0

\* The loops for char16 do what those for char do ("We cannot call memcmp because that
\* changes the semantics", string16.cc:34): they order by characters and not by bytes,
\* and find the first of several.
Char16LikeChar ==
    Fresh =>
      /\ \A s \in Others : \A n \in 0..Least(length, s.length) :
            C16Memcmp(text, s.text, n) = Memcmp(Piece, 0, s, n)
      /\ \A c \in Chars, n \in 0..length :
            LET k == C16Memchr(text, c, n)
                t == C16Memset(text, c, n)
            IN  /\ IF k = Npos THEN \A j \in 0..n-1 : text[j] # c
                   ELSE k < n /\ text[k] = c /\ \A j \in 0..k-1 : text[j] # c
                /\ C16Memchr(t, c, length) = (IF n > 0 THEN 0 ELSE C16Memchr(text, c, length))
                /\ \A j \in 0..length-1 : t[j] = IF j < n THEN c ELSE text[j]
      /\ \A j \in 0..length-1 : text[j] = 0 => C16Memchr(text, 0, length) = C16Len(text)

\* Every search comes to an end: no index wraps around and starts again.
SearchEnds == <>(pc = "done")
=============================================================================
