------------------------ MODULE StringPieceScanProofs ------------------------
(***************************************************************************)
(* Theorems about StringPieceScan for every alphabet, every length and     *)
(* every width of size_type.                                               *)
(***************************************************************************)
EXTENDS StringPieceScan, WellFoundedInduction, TLAPS

\* What the backward loop knows: it is inside, and past nothing it looked for.
BackwardLoop ==
    /\ i <= pos /\ i < length
    /\ \A n \in 0..length-1 : n > i /\ n <= pos => ~Found(n)

\* The forward loop the same; it may have left the text.
ForwardLoop ==
    /\ i >= pos
    /\ \A n \in 0..length-1 : n >= pos /\ n < i => ~Found(n)

Loop == pc = "scan" =>
    /\ ~Trivial
    /\ search \in Backward => BackwardLoop
    /\ search \notin Backward => ForwardLoop

IInv == TypeOK /\ Loop /\ AnswersLikeString

\* A call begins in the inductive invariant.
LEMMA InitIInv == Init => IInv
  BY SizeAssumption DEF Init, IInv, TypeOK, Loop, AnswersLikeString, Sizes

\* The first index of a loop is inside the text for the backward searches.
LEMMA FirstIndexFacts ==
  ASSUME TypeOK, length # 0
  PROVE  /\ FirstIndex \in Sizes
         /\ search \notin Backward => FirstIndex = pos
         /\ search \in Backward =>
              FirstIndex <= pos /\ FirstIndex < length
              /\ (FirstIndex = pos \/ FirstIndex = length - 1)
  BY SizeAssumption DEF TypeOK, FirstIndex, Least, Sizes

\* The input of a call does not change, so neither does what counts as found.
LEMMA InputKept ==
  ASSUME UNCHANGED input
  PROVE  /\ \A n : Found(n)' <=> Found(n)
         /\ Trivial' <=> Trivial
         /\ Candidates' = Candidates
         /\ \A n : IsAnswer(n)' <=> IsAnswer(n)
  BY DEF input, Found, Trivial, Candidates, IsAnswer

\* An early return answers like std::string, find_first_not_of aside.
LEMMA TrivialCorrect ==
  ASSUME TypeOK, Trivial, search = "find_first_not_of" => wanted # {} \/ pos = 0
  PROVE  IsAnswer(TrivialAnswer)
<1> USE SizeAssumption DEF TypeOK, Sizes
<1>1. CASE length = 0
  BY <1>1 DEF TrivialAnswer, IsAnswer, Candidates
<1>2. CASE length # 0 /\ search \in {"find_first_of", "find_last_of"}
  BY <1>2 DEF Trivial, TrivialAnswer, IsAnswer, Candidates, Found
<1>3. CASE length # 0 /\ search = "find_first_not_of"
  <2>1. 0 \in Candidates /\ TrivialAnswer = 0
    BY <1>3 DEF Trivial, TrivialAnswer, Candidates, Found, Backward
  <2> QED
    BY <1>3, <2>1 DEF IsAnswer, Candidates, Backward
<1>4. CASE length # 0 /\ search = "find_last_not_of"
  <2>1. FirstIndex \in 0..length-1 /\ FirstIndex <= pos
        /\ (FirstIndex = pos \/ FirstIndex = length - 1)
    BY <1>4, FirstIndexFacts DEF Backward
  <2>2. FirstIndex \in Candidates /\ TrivialAnswer = FirstIndex
    BY <1>4, <2>1 DEF Trivial, TrivialAnswer, Candidates, Found, Backward
  <2>3. \A m \in Candidates : m <= FirstIndex
    BY <1>4, <2>1 DEF Candidates, Backward
  <2> QED
    BY <1>4, <2>2, <2>3 DEF IsAnswer, Backward
<1> QED
  BY <1>1, <1>2, <1>3, <1>4 DEF Trivial, Searches

\* A return of an answer keeps the invariant.
LEMMA ReturnIInv ==
  ASSUME IInv, NEW n \in Sizes, Return(n),
         (search = "find_first_not_of" => wanted # {} \/ pos = 0) => IsAnswer(n)
  PROVE  IInv'
<1>1. TypeOK'
  BY DEF IInv, TypeOK, Return, input
<1>2. Loop'
  BY DEF Return, Loop
<1>3. AnswersLikeString'
  <2>1. result' = n /\ UNCHANGED input
    BY DEF Return
  <2>2. IsAnswer(n)' <=> IsAnswer(n)
    BY <2>1, InputKept
  <2> QED
    BY <2>1, <2>2 DEF AnswersLikeString, IsAnswer, input
<1> QED
  BY <1>1, <1>2, <1>3 DEF IInv

\* The call returns at once or enters its loop.
LEMMA EnterIInv == IInv /\ Enter => IInv'
<1> SUFFICES ASSUME IInv, Enter PROVE IInv'
  OBVIOUS
<1>1. CASE Trivial
  <2>1. TrivialAnswer \in Sizes
    BY SizeAssumption, FirstIndexFacts DEF IInv, TypeOK, TrivialAnswer, Sizes
  <2> QED
    BY <1>1, <2>1, ReturnIInv, TrivialCorrect DEF IInv, Enter
<1>2. CASE ~Trivial
  <2>1. i' = FirstIndex /\ pc' = "scan" /\ UNCHANGED <<input, result>>
    BY <1>2 DEF Enter
  <2>2. length # 0 /\ TypeOK
    BY <1>2 DEF IInv, Trivial
  <2>3. TypeOK'
    BY <2>1, <2>2, FirstIndexFacts DEF TypeOK, input
  <2>4. ~Trivial'
    BY <1>2, <2>1, InputKept
  <2>5. search \in Backward => BackwardLoop'
    BY <2>1, <2>2, FirstIndexFacts DEF BackwardLoop, input, TypeOK, Sizes
  <2>6. search \notin Backward => ForwardLoop'
    BY <2>1, <2>2, FirstIndexFacts DEF ForwardLoop, input, TypeOK, Sizes
  <2> QED
    BY <2>1, <2>3, <2>4, <2>5, <2>6 DEF IInv, Loop, AnswersLikeString, input
<1> QED
  BY <1>1, <1>2

\* A step of the forward loop passes a character that was not looked for.
LEMMA ForwardIInv == IInv /\ Forward => IInv'
<1> SUFFICES ASSUME IInv, Forward PROVE IInv'
  OBVIOUS
<1> USE SizeAssumption
<1>1. pc = "scan" /\ search \notin Backward /\ TypeOK /\ ForwardLoop /\ ~Trivial
  BY DEF Forward, IInv, Loop
<1>2. CASE i >= length
  <2>1. Candidates = {}
    BY <1>1, <1>2 DEF Candidates, ForwardLoop, TypeOK, Sizes
  <2>2. IsAnswer(Npos)
    BY <2>1 DEF IsAnswer
  <2> QED
    BY <1>2, <2>2, ReturnIInv DEF Forward, Sizes
<1>3. CASE i < length /\ Found(i)
  <2>1. i \in Candidates
    BY <1>1, <1>3 DEF Candidates, ForwardLoop, TypeOK, Sizes
  <2>2. \A m \in Candidates : i <= m
    BY <1>1, <1>3 DEF Candidates, ForwardLoop, TypeOK, Sizes
  <2>3. IsAnswer(i)
    BY <1>1, <2>1, <2>2 DEF IsAnswer
  <2>4. i \in Sizes /\ Return(i)
    BY <1>1, <1>3 DEF Forward, TypeOK, Sizes
  <2> QED
    BY <2>3, <2>4, ReturnIInv
<1>4. CASE i < length /\ ~Found(i)
  <2>1. i' = i + 1 /\ i' \in Sizes /\ UNCHANGED <<input, pc, result>>
    BY <1>1, <1>4 DEF Forward, Inc, TypeOK, Sizes
  <2>2. TypeOK'
    BY <1>1, <2>1 DEF TypeOK, input
  <2>3. ForwardLoop'
    <3>1. \A n : Found(n)' <=> Found(n)
      BY <2>1, InputKept
    <3> QED
      BY <1>1, <1>4, <2>1, <3>1 DEF ForwardLoop, input, TypeOK, Sizes
  <2>4. ~Trivial'
    BY <1>1, <2>1, InputKept
  <2> QED
    BY <1>1, <2>1, <2>2, <2>3, <2>4 DEF IInv, Loop, AnswersLikeString, input
<1> QED
  BY <1>1, <1>2, <1>3, <1>4 DEF TypeOK, Sizes

\* A step of the backward loop passes a character that was not looked for, and the
\* loop is left before the index wraps around.
LEMMA BackwardIInv == IInv /\ BackwardOn => IInv'
<1> SUFFICES ASSUME IInv, BackwardOn PROVE IInv'
  OBVIOUS
<1> USE SizeAssumption
<1>1. pc = "scan" /\ search \in Backward /\ TypeOK /\ BackwardLoop /\ ~Trivial
  BY DEF BackwardOn, IInv, Loop
<1>2. CASE Found(i)
  <2>1. i \in Candidates
    BY <1>1, <1>2 DEF Candidates, BackwardLoop, TypeOK, Sizes
  <2>2. \A m \in Candidates : m <= i
    BY <1>1, <1>2 DEF Candidates, BackwardLoop, TypeOK, Sizes
  <2>3. IsAnswer(i)
    BY <1>1, <2>1, <2>2 DEF IsAnswer
  <2>4. i \in Sizes /\ Return(i)
    BY <1>1, <1>2 DEF BackwardOn, TypeOK
  <2> QED
    BY <2>3, <2>4, ReturnIInv
<1>3. CASE ~Found(i) /\ i = 0
  <2>1. Candidates = {}
    BY <1>1, <1>3 DEF Candidates, BackwardLoop, TypeOK, Sizes
  <2>2. IsAnswer(Npos)
    BY <2>1 DEF IsAnswer
  <2> QED
    BY <1>3, <2>2, ReturnIInv DEF BackwardOn, Sizes
<1>4. CASE ~Found(i) /\ i # 0
  <2>1. i' = i - 1 /\ i' \in Sizes /\ UNCHANGED <<input, pc, result>>
    BY <1>1, <1>4 DEF BackwardOn, Dec, TypeOK, Sizes
  <2>2. TypeOK'
    BY <1>1, <2>1 DEF TypeOK, input
  <2>3. BackwardLoop'
    <3>1. \A n : Found(n)' <=> Found(n)
      BY <2>1, InputKept
    <3> QED
      BY <1>1, <1>4, <2>1, <3>1 DEF BackwardLoop, input, TypeOK, Sizes
  <2>4. ~Trivial'
    BY <1>1, <2>1, InputKept
  <2> QED
    BY <1>1, <2>1, <2>2, <2>3, <2>4 DEF IInv, Loop, AnswersLikeString, input
<1> QED
  BY <1>2, <1>3, <1>4

\* The invariant of every call.
LEMMA Invariance == Spec => []IInv
<1>1. IInv /\ UNCHANGED vars => IInv'
  <2> SUFFICES ASSUME IInv, UNCHANGED vars PROVE IInv'
    OBVIOUS
  <2>1. UNCHANGED <<input, i, pc, result>>
    BY DEF vars, input
  <2>2. /\ \A n : Found(n)' <=> Found(n)
        /\ Trivial' <=> Trivial
        /\ \A n : IsAnswer(n)' <=> IsAnswer(n)
    BY <2>1, InputKept
  <2>3. TypeOK'
    BY <2>1 DEF IInv, TypeOK, input
  <2>4. Loop'
    BY <2>1, <2>2 DEF IInv, Loop, BackwardLoop, ForwardLoop, input
  <2>5. AnswersLikeString'
    BY <2>1, <2>2 DEF IInv, AnswersLikeString, IsAnswer, input
  <2> QED
    BY <2>3, <2>4, <2>5 DEF IInv
<1>2. IInv /\ [Next]_vars => IInv'
  BY <1>1, EnterIInv, ForwardIInv, BackwardIInv DEF Next
<1> QED
  BY InitIInv, <1>2, PTL DEF Spec

\* Type correctness: no index of a search leaves size_type.
THEOREM TypeCorrect == Spec => []TypeOK
<1>1. IInv => TypeOK
  BY DEF IInv
<1> QED
  BY Invariance, <1>1, PTL

\* A backward search reads no character outside the piece.
THEOREM ReadsSafe == Spec => []ReadsInside
<1>1. IInv => ReadsInside
  BY DEF IInv, Loop, BackwardLoop, ReadsInside
<1> QED
  BY Invariance, <1>1, PTL

\* What a search answers is what std::string promises, for texts of any length.
THEOREM SearchCorrect == Spec => []AnswersLikeString
<1>1. IInv => AnswersLikeString
  BY DEF IInv
<1> QED
  BY Invariance, <1>1, PTL
-----------------------------------------------------------------------------
\* What does not wrap around is the sum or the difference.
LEMMA NoWrap ==
  ASSUME NEW m \in Nat, NEW n \in Nat
  PROVE  /\ n <= m /\ m <= Npos => Minus(m, n) = m - n
         /\ m + n <= Npos => Plus(m, n) = m + n
  BY SizeAssumption DEF Plus, Minus

\* substr stays inside for any position and any length.
LEMMA SubstrInside ==
  ASSUME NEW p, p.length \in 0..MaxLength, NEW m \in Sizes, NEW n \in Sizes
  PROVE  LET v == Substr(p, m, n)
         IN  /\ v = View(Least(m, p.length), Least(n, p.length - Least(m, p.length)))
             /\ v.ptr \in Nat /\ v.length \in 0..MaxLength /\ v.ptr + v.length <= p.length
<1>1. Least(m, p.length) \in 0..p.length
  BY SizeAssumption DEF Least, Sizes
<1>2. Minus(p.length, Least(m, p.length)) = p.length - Least(m, p.length)
  BY <1>1, SizeAssumption, NoWrap
<1>3. Substr(p, m, n) = View(Least(m, p.length), Least(n, p.length - Least(m, p.length)))
  BY <1>2 DEF Substr
<1> QED
  BY <1>1, <1>3, SizeAssumption DEF View, Least, Sizes

\* No view of a piece reaches outside of it.
THEOREM ViewsSafe == Spec => []ViewsStayInside
<1>1. IInv => ViewsStayInside
  <2> SUFFICES ASSUME IInv, NEW n \in Sizes
               PROVE  LET v == Substr(Piece, pos, n)
                      IN  /\ Inside(Piece, v)
                          /\ \A m \in 0..v.length :
                               /\ Inside(Piece, RemovePrefix(v, m))
                               /\ Inside(Piece, RemoveSuffix(RemovePrefix(v, m), v.length - m))
                          /\ pos <= length => Inside(Piece, Copied(Piece, n, pos))
    BY DEF ViewsStayInside
  <2> DEFINE v == Substr(Piece, pos, n)
  <2>1. Piece.length = length /\ length \in 0..MaxLength /\ pos \in Sizes
    BY DEF Piece, IInv, TypeOK
  <2>2. /\ v.ptr \in Nat /\ v.length \in 0..MaxLength /\ v.ptr + v.length <= length
        /\ v = View(v.ptr, v.length)
    BY <2>1, SubstrInside DEF View
  <2> HIDE DEF v
  <2>3. ASSUME NEW m \in 0..v.length
        PROVE  /\ Inside(Piece, RemovePrefix(v, m))
               /\ Inside(Piece, RemoveSuffix(RemovePrefix(v, m), v.length - m))
    <3>1. Minus(v.length, m) = v.length - m /\ Minus(v.length - m, v.length - m) = 0
      BY <2>2, SizeAssumption, NoWrap
    <3>2. RemovePrefix(v, m) = View(v.ptr + m, v.length - m)
      BY <3>1 DEF RemovePrefix
    <3>3. RemoveSuffix(RemovePrefix(v, m), v.length - m) = View(v.ptr + m, 0)
      BY <3>1, <3>2 DEF RemoveSuffix, View
    <3> QED
      BY <2>1, <2>2, <3>2, <3>3 DEF Inside, View
  <2>4. ASSUME pos <= length PROVE Inside(Piece, Copied(Piece, n, pos))
    <3>1. Minus(length, pos) = length - pos
      BY <2>1, <2>4, SizeAssumption, NoWrap DEF Sizes
    <3> QED
      BY <2>1, <2>4, <3>1 DEF Copied, View, Inside, Least, Sizes
  <2>5. Inside(Piece, v)
    BY <2>1, <2>2 DEF Inside
  <2> QED
    BY <2>3, <2>4, <2>5 DEF v
<1> QED
  BY <1>1, Invariance, PTL
-----------------------------------------------------------------------------
\* Sets of numbers have a least element, and if they are bounded a largest.
LEMMA LeastElement ==
  ASSUME NEW T \in SUBSET Nat, T # {}
  PROVE  \E k \in T : \A j \in T : k <= j
<1>1. PICK k \in T : \A j \in T : ~ (<<j, k>> \in OpToRel(<, Nat))
  BY NatLessThanWellFounded, WFMin, Zenon
<1>2. \A j \in T : ~(j < k)
  BY <1>1 DEF OpToRel
<1> QED
  BY <1>2

LEMMA LargestElement ==
  ASSUME NEW m \in Nat, NEW T \in SUBSET (0..m), T # {}
  PROVE  \E k \in T : \A j \in T : j <= k
<1> DEFINE U == {m - j : j \in T}
<1>1. U \in SUBSET Nat /\ U # {}
  <2>1. \A j \in T : m - j \in Nat
    OBVIOUS
  <2>2. PICK j \in T : TRUE
    OBVIOUS
  <2>3. m - j \in U
    OBVIOUS
  <2> QED
    BY <2>1, <2>3
<1> HIDE DEF U
<1>2. PICK u \in U : \A w \in U : u <= w
  BY <1>1, LeastElement
<1> USE DEF U
<1>3. PICK k \in T : u = m - k
  OBVIOUS
<1>4. ASSUME NEW j \in T PROVE j <= k
  <2>1. m - k <= m - j
    BY <1>2, <1>3
  <2> QED
    BY <2>1
<1> QED
  BY <1>4

\* memcmp answers 0 if nothing differs.
LEMMA MemcmpZero ==
  ASSUME NEW p, NEW q, NEW from, NEW n
  PROVE  Memcmp(p, from, q, n) = 0 <=> \A k \in 0..n-1 : p.text[from + k] = q.text[k]
  BY DEF Memcmp

\* The places where std::search looks are those where the rest starts with the other.
LEMMA StartsAtMatch ==
  ASSUME NEW p, p.length \in 0..MaxLength, NEW q, q.length \in 0..MaxOther, NEW k \in 0..p.length
  PROVE  /\ StartsWith(Contents(p, RemovePrefix(Whole(p), k)), q) <=> k \in Matches(p, q, 0, p.length)
         /\ k \in Matches(p, q, 0, p.length) => Equal(Contents(p, Substr(p, k, q.length)), q)
<1> USE SizeAssumption, OtherAssumption
<1> DEFINE c == Contents(p, View(k, p.length - k))
           d == Contents(p, View(k, q.length))
<1>1. RemovePrefix(Whole(p), k) = View(k, p.length - k)
  <2>1. Minus(p.length, k) = p.length - k
    BY NoWrap
  <2> QED
    BY <2>1 DEF RemovePrefix, Whole, View
<1>2. /\ c.length = p.length - k
      /\ \A m \in 0..(p.length - k - 1) : c.text[m] = p.text[k + m]
  BY DEF Contents, View
<1>3. /\ d.length = q.length
      /\ \A m \in 0..(q.length - 1) : d.text[m] = p.text[k + m]
  BY DEF Contents, View
<1>4. k \in Matches(p, q, 0, p.length) <=>
        k + q.length <= p.length /\ \A j \in 0..(q.length - 1) : p.text[k + j] = q.text[j]
  BY MemcmpZero DEF Matches
<1> HIDE DEF c, d
<1>5. StartsWith(c, q) <=>
        k + q.length <= p.length /\ \A j \in 0..(q.length - 1) : c.text[0 + j] = q.text[j]
  BY <1>2, MemcmpZero DEF StartsWith
<1>6. k + q.length <= p.length => \A j \in 0..(q.length - 1) : c.text[0 + j] = p.text[k + j]
  BY <1>2
<1>7. ASSUME k \in Matches(p, q, 0, p.length)
      PROVE  Equal(Contents(p, Substr(p, k, q.length)), q)
  <2>1. Substr(p, k, q.length) = View(k, q.length)
    <3>1. k \in Sizes /\ q.length \in Sizes
      BY DEF Sizes
    <3>2. Least(k, p.length) = k
      BY DEF Least
    <3>3. Least(q.length, p.length - k) = q.length
      BY <1>4, <1>7 DEF Least
    <3> QED
      BY <3>1, <3>2, <3>3, SubstrInside
  <2>2. \A j \in 0..(q.length - 1) : d.text[0 + j] = q.text[j]
    BY <1>3, <1>4, <1>7
  <2>3. Equal(d, q)
    BY <1>3, <2>2, MemcmpZero DEF Equal
  <2> QED
    BY <2>1, <2>3 DEF d
<1> QED
  BY <1>1, <1>4, <1>5, <1>6, <1>7 DEF c

\* find and rfind answer what the other operations say they do.
THEOREM FindsCorrect == Spec => []FindsAgree
<1>1. IInv => FindsAgree
  <2> SUFFICES ASSUME IInv, NEW s \in Others
               PROVE
      LET starts == {k \in 0..length :
                       StartsWith(Contents(Piece, RemovePrefix(Whole(Piece), k)), s)}
          after  == {k \in starts : k >= pos}
          before == {k \in starts : k <= pos}
          there(k) == Equal(Contents(Piece, Substr(Piece, k, s.length)), s)
          first  == Find(Piece, s, pos)
          last   == RFind(Piece, s, pos)
      IN  /\ IF after = {} THEN first = Npos
             ELSE first \in after /\ there(first) /\ \A k \in after : first <= k
          /\ IF before = {} THEN last = Npos
             ELSE last \in before /\ there(last) /\ \A k \in before : k <= last
    BY DEF FindsAgree
  <2> DEFINE starts == {k \in 0..length :
                          StartsWith(Contents(Piece, RemovePrefix(Whole(Piece), k)), s)}
             after  == {k \in starts : k >= pos}
             before == {k \in starts : k <= pos}
             there(k) == Equal(Contents(Piece, Substr(Piece, k, s.length)), s)
             first  == Find(Piece, s, pos)
             last   == RFind(Piece, s, pos)
             M(m, n) == Matches(Piece, s, m, n)
  <2> USE SizeAssumption, OtherAssumption
  <2>1. Piece.length = length /\ length \in 0..MaxLength /\ pos \in Nat
    BY DEF Piece, IInv, TypeOK, Sizes
  <2>2. s.length \in 0..MaxOther
    BY DEF Others, Pieces
  <2>3. starts = M(0, length)
    <3>1. \A k \in 0..length : k \in starts <=> k \in M(0, length)
      BY <2>1, <2>2, StartsAtMatch
    <3>2. M(0, length) \subseteq 0..length
      BY <2>1, <2>2 DEF Matches
    <3> QED
      BY <3>1, <3>2
  <2>4. \A k \in starts : there(k)
    BY <2>1, <2>2, <2>3, StartsAtMatch
  <2>5. starts \subseteq 0..length /\ \A k \in starts : k + s.length <= length
    BY <2>1, <2>2, <2>3 DEF Matches
  <2>6. M(0, length) = {k \in 0..(length - s.length) : Memcmp(Piece, k, s, s.length) = 0}
    BY DEF Matches
  <2> HIDE DEF starts, there
  <2>7. IF after = {} THEN first = Npos
        ELSE first \in after /\ \A k \in after : first <= k
    <3>1. CASE pos > length
      <4>1. after = {}
        <5>1. ASSUME NEW k \in starts PROVE ~(k >= pos)
          <6>1. k \in 0..length
            BY <2>5
          <6> QED
            BY <2>1, <3>1, <6>1
        <5> QED
          BY <5>1
      <4>2. first = Npos
        BY <2>1, <3>1 DEF Find
      <4> QED
        BY <4>1, <4>2
    <3>2. CASE pos <= length
      <4>1. after = M(pos, length)
        BY <2>1, <2>2, <2>3, <2>6, <3>2 DEF Matches
      <4> DEFINE x == Search(Piece, s, pos, length)
      <4>2. first = IF Plus(x, s.length) <= length THEN x ELSE Npos
        BY <2>1, <3>2 DEF Find
      <4>3. CASE after = {}
        <5>1. x = length
          BY <4>1, <4>3 DEF Search
        <5>2. s.length # 0
          <6>1. ASSUME s.length = 0 PROVE pos \in M(pos, length)
            BY <2>1, <3>2, <6>1, MemcmpZero DEF Matches
          <6> QED
            BY <4>1, <4>3, <6>1
        <5>3. Plus(x, s.length) = length + s.length
          BY <2>1, <2>2, <5>1, NoWrap
        <5> QED
          BY <2>1, <2>2, <4>2, <4>3, <5>2, <5>3
      <4>4. CASE after # {}
        <5>1. after \in SUBSET Nat
          <6>1. after \subseteq 0..length
            BY <2>5
          <6> QED
            BY <2>1, <6>1
        <5>2. \E k \in after : \A j \in after : k <= j
          BY <4>4, <5>1, LeastElement
        <5>3. x = CHOOSE k \in after : \A j \in after : k <= j
          BY <4>1, <4>4 DEF Search
        <5>4. x \in after /\ \A j \in after : x <= j
          BY <5>2, <5>3
        <5>5. Plus(x, s.length) = x + s.length /\ x + s.length <= length
          BY <2>1, <2>2, <2>5, <5>1, <5>4, NoWrap
        <5> QED
          BY <4>2, <4>4, <5>4, <5>5
      <4> QED
        BY <4>3, <4>4
    <3> QED
      BY <2>1, <3>1, <3>2
  <2>8. IF before = {} THEN last = Npos
        ELSE last \in before /\ \A k \in before : k <= last
    <3>1. CASE length < s.length
      <4>1. before = {}
        <5>1. ASSUME NEW k \in starts PROVE FALSE
          <6>1. k \in 0..length /\ k + s.length <= length
            BY <2>5
          <6> QED
            BY <2>1, <2>2, <3>1, <6>1
        <5> QED
          BY <5>1
      <4>2. last = Npos
        BY <2>1, <3>1 DEF RFind
      <4> QED
        BY <4>1, <4>2
    <3>2. CASE length >= s.length /\ s.length = 0
      <4>1. starts = 0..length
        BY <2>1, <2>3, <3>2, MemcmpZero DEF Matches
      <4>2. last = Least(length, pos)
        BY <2>1, <3>2 DEF RFind
      <4> QED
        BY <2>1, <4>1, <4>2 DEF Least
    <3>3. CASE length >= s.length /\ s.length # 0
      <4> DEFINE l == Least(length - s.length, pos) + s.length
                 x == FindEnd(Piece, s, 0, l)
      <4>1. Minus(length, s.length) = length - s.length
        BY <2>1, <2>2, <3>3, NoWrap
      <4>2. last = IF x # l THEN x ELSE Npos
        <5>1. ~(Piece.length < s.length)
          BY <2>1, <2>2, <3>3
        <5> QED
          BY <2>1, <3>3, <4>1, <5>1 DEF RFind
      <4>3. l \in Nat /\ l - s.length = Least(length - s.length, pos)
        BY <2>1, <2>2, <3>3 DEF Least
      <4>4. before = M(0, l)
        BY <2>1, <2>2, <2>3, <2>6, <3>3, <4>3 DEF Matches, Least
      <4>5. \A k \in before : k < l
        BY <2>1, <2>2, <2>5, <3>3 DEF Least
      <4> HIDE DEF l
      <4>6. CASE before = {}
        BY <4>2, <4>4, <4>6 DEF FindEnd
      <4>7. CASE before # {}
        <5>1. before \in SUBSET (0..length)
          BY <2>5
        <5>2. \E k \in before : \A j \in before : j <= k
          <6>1. length \in Nat
            BY <2>1
          <6> HIDE DEF before
          <6> QED
            BY <4>7, <5>1, <6>1, LargestElement
        <5>3. x = CHOOSE k \in before : \A j \in before : j <= k
          BY <4>4, <4>7 DEF FindEnd
        <5>4. x \in before /\ \A j \in before : j <= x
          BY <5>2, <5>3
        <5>5. x # l
          BY <4>3, <4>5, <5>1, <5>4
        <5> QED
          BY <4>2, <4>7, <5>4, <5>5
      <4> QED
        BY <4>6, <4>7
    <3> QED
      BY <2>1, <2>2, <3>1, <3>2, <3>3
  <2> QED
    BY <2>4, <2>7, <2>8 DEF starts, there
<1> QED
  BY <1>1, Invariance, PTL
-----------------------------------------------------------------------------
\* A piece as memcmp reads it: its characters are numbers.
IsPiece(p) == p.length \in Nat /\ p.text \in [0..p.length-1 -> Nat]

LEMMA PieceIsPiece == IInv => IsPiece(Piece) /\ Piece.length = length /\ Piece.text = text
<1> SUFFICES ASSUME IInv PROVE IsPiece(Piece) /\ Piece.length = length /\ Piece.text = text
  OBVIOUS
<1>1. Piece.length = length /\ Piece.text = text
  BY DEF Piece
<1>2. length \in Nat /\ text \in [0..length-1 -> Chars]
  BY SizeAssumption DEF IInv, TypeOK
<1>3. text \in [0..length-1 -> Nat]
  BY <1>2, CharAssumption
<1> QED
  BY <1>1, <1>2, <1>3 DEF IsPiece

LEMMA OtherIsPiece == \A t \in Others : IsPiece(t)
<1> SUFFICES ASSUME NEW t \in Others PROVE IsPiece(t)
  OBVIOUS
<1>1. PICK k \in 0..MaxOther : t \in [text : [0..k-1 -> Chars], length : {k}]
  BY DEF Others, Pieces
<1>2. t.length = k /\ t.text \in [0..k-1 -> Chars] /\ k \in Nat
  BY <1>1, OtherAssumption
<1>3. t.text \in [0..k-1 -> Nat]
  BY <1>2, CharAssumption
<1> QED
  BY <1>2, <1>3 DEF IsPiece

LEMMA PieceChars ==
  ASSUME NEW p, IsPiece(p), NEW j \in Nat, j < p.length
  PROVE  p.text[j] \in Nat
<1>1. j \in 0..p.length-1
  BY DEF IsPiece
<1> QED
  BY <1>1 DEF IsPiece

\* The order of a dictionary: k is where the pieces part.
Parts(p, q, k) ==
    /\ k \in Nat /\ k <= p.length /\ k < q.length
    /\ \A j \in 0..k-1 : p.text[j] = q.text[j]
    /\ k = p.length \/ p.text[k] < q.text[k]
Below(p, q) == \E k \in Nat : Parts(p, q, k)
Same(p, q)  == p.length = q.length /\ \A j \in 0..p.length-1 : p.text[j] = q.text[j]

\* The order is strict, and transitive: of two places where pieces part the first counts.
LEMMA BelowStrict ==
  ASSUME NEW p, NEW q, IsPiece(p), IsPiece(q)
  PROVE  /\ ~(Below(p, q) /\ Below(q, p))
         /\ ~(Below(p, q) /\ Same(p, q))
         /\ ~(Below(p, q) /\ Same(q, p))
<1> USE DEF IsPiece
<1>0. \A j \in Nat : /\ j < p.length => p.text[j] \in Nat
                     /\ j < q.length => q.text[j] \in Nat
  BY PieceChars
<1>1. ASSUME NEW k \in Nat, Parts(p, q, k), NEW m \in Nat, Parts(q, p, m) PROVE FALSE
  <2>1. /\ k <= p.length /\ k < q.length /\ m <= q.length /\ m < p.length
        /\ k = p.length \/ p.text[k] < q.text[k]
        /\ m = q.length \/ q.text[m] < p.text[m]
    BY <1>1 DEF Parts
  <2>2. CASE k < m
    <3>1. q.text[k] = p.text[k] /\ q.text[k] \in Nat
      BY <1>0, <1>1, <2>1, <2>2 DEF Parts
    <3> QED
      BY <2>1, <2>2, <3>1
  <2>3. CASE m < k
    <3>1. q.text[m] = p.text[m] /\ q.text[m] \in Nat
      BY <1>0, <1>1, <2>1, <2>3 DEF Parts
    <3> QED
      BY <2>1, <2>3, <3>1
  <2>4. CASE k = m
    <3>1. p.text[k] \in Nat /\ q.text[k] \in Nat
      BY <1>0, <2>1, <2>4
    <3> QED
      BY <2>1, <2>4, <3>1
  <2> QED
    BY <2>2, <2>3, <2>4
<1>2. ASSUME NEW k \in Nat, Parts(p, q, k), Same(p, q) \/ Same(q, p) PROVE FALSE
  <2>1. k < p.length /\ k < q.length /\ p.text[k] = q.text[k] /\ p.text[k] < q.text[k]
    BY <1>2 DEF Parts, Same
  <2> QED
    BY <1>0, <2>1
<1> QED
  BY <1>1, <1>2 DEF Below

LEMMA BelowTransitive ==
  ASSUME NEW p, NEW q, NEW r, IsPiece(p), IsPiece(q), IsPiece(r), Below(p, q), Below(q, r)
  PROVE  Below(p, r)
<1> USE DEF IsPiece
<1>1. PICK k \in Nat : Parts(p, q, k)
  BY DEF Below
<1>2. PICK m \in Nat : Parts(q, r, m)
  BY DEF Below
<1>3. CASE k < m
  <2>1. \A j \in 0..k : q.text[j] = r.text[j]
    <3>1. \A j \in 0..m-1 : q.text[j] = r.text[j]
      BY <1>2 DEF Parts
    <3>2. \A j \in 0..k : j \in 0..m-1
      BY <1>3
    <3> QED
      BY <3>1, <3>2
  <2>2. Parts(p, r, k)
    BY <1>1, <1>2, <1>3, <2>1 DEF Parts
  <2> QED
    BY <2>2 DEF Below
<1>4. CASE m < k
  <2>1. \A j \in 0..m : p.text[j] = q.text[j]
    <3>1. \A j \in 0..k-1 : p.text[j] = q.text[j]
      BY <1>1 DEF Parts
    <3>2. \A j \in 0..m : j \in 0..k-1
      BY <1>4
    <3> QED
      BY <3>1, <3>2
  <2>2. Parts(p, r, m)
    BY <1>1, <1>2, <1>4, <2>1 DEF Parts
  <2> QED
    BY <2>2 DEF Below
<1>5. CASE k = m
  <2>1. k = p.length \/ p.text[k] < r.text[k]
    <3> SUFFICES ASSUME k # p.length PROVE p.text[k] < r.text[k]
      OBVIOUS
    <3>1. k < p.length /\ k < q.length /\ k < r.length
      BY <1>1, <1>2, <1>5 DEF Parts
    <3>2. p.text[k] \in Nat /\ q.text[k] \in Nat /\ r.text[k] \in Nat
      BY <3>1, PieceChars
    <3>3. p.text[k] < q.text[k]
      BY <1>1, <3>1 DEF Parts
    <3>4. q.text[k] < r.text[k]
      BY <1>2, <1>5, <3>1 DEF Parts
    <3> QED
      BY <3>2, <3>3, <3>4
  <2>2. Parts(p, r, k)
    <3>1. k <= p.length /\ k < r.length
      BY <1>1, <1>2, <1>5 DEF Parts
    <3>2. \A j \in 0..k-1 : p.text[j] = r.text[j]
      BY <1>1, <1>2, <1>5 DEF Parts
    <3> QED
      BY <2>1, <3>1, <3>2 DEF Parts
  <2> QED
    BY <2>2 DEF Below
<1> QED
  BY <1>3, <1>4, <1>5

\* memcmp decides by the first character that differs.
LEMMA MemcmpFirst ==
  ASSUME NEW p, NEW q, NEW n \in Nat, Memcmp(p, 0, q, n) # 0
  PROVE  \E k \in 0..n-1 : /\ p.text[k] # q.text[k]
                           /\ \A j \in 0..k-1 : p.text[j] = q.text[j]
                           /\ Memcmp(p, 0, q, n) = IF p.text[k] < q.text[k] THEN -1 ELSE 1
<1> DEFINE differ == {k \in 0..n-1 : p.text[0 + k] # q.text[k]}
           k == CHOOSE k \in differ : \A j \in differ : k <= j
<1>1. differ # {} /\ Memcmp(p, 0, q, n) = IF p.text[0 + k] < q.text[k] THEN -1 ELSE 1
  BY DEF Memcmp
<1>2. differ \in SUBSET Nat
  OBVIOUS
<1>3. \E d \in differ : \A j \in differ : d <= j
  <2> HIDE DEF differ
  <2> QED
    BY <1>1, <1>2, LeastElement
<1>4. k \in differ /\ \A j \in differ : k <= j
  BY <1>3
<1> HIDE DEF k
<1>5. k \in 0..n-1 /\ 0 + k = k /\ p.text[k] # q.text[k]
  BY <1>4
<1>6. ASSUME NEW j \in 0..k-1 PROVE p.text[j] = q.text[j]
  <2>1. j \notin differ /\ j \in 0..n-1 /\ 0 + j = j
    BY <1>4, <1>5
  <2> QED
    BY <2>1
<1> QED
  BY <1>1, <1>5, <1>6

\* compare answers the order of a dictionary.
LEMMA CompareCases ==
  ASSUME NEW p, NEW q, IsPiece(p), IsPiece(q)
  PROVE  \/ Compare(p, q) = -1 /\ Below(p, q)
         \/ Compare(p, q) = 1 /\ Below(q, p)
         \/ Compare(p, q) = 0 /\ Same(p, q)
<1> USE DEF IsPiece
<1> DEFINE n == Least(p.length, q.length)
           r == Memcmp(p, 0, q, n)
<1>1. n \in Nat /\ n <= p.length /\ n <= q.length /\ n \in {p.length, q.length}
  BY DEF Least
<1>2. Compare(p, q) = IF r # 0 THEN r
        ELSE IF p.length < q.length THEN -1 ELSE IF p.length > q.length THEN 1 ELSE 0
  BY DEF Compare
<1> HIDE DEF n
<1>3. CASE r # 0
  <2>1. PICK k \in 0..n-1 : /\ p.text[k] # q.text[k]
                            /\ \A j \in 0..k-1 : p.text[j] = q.text[j]
                            /\ r = IF p.text[k] < q.text[k] THEN -1 ELSE 1
    BY <1>1, <1>3, MemcmpFirst
  <2>2. k \in Nat /\ k < p.length /\ k < q.length
    BY <1>1
  <2>3. p.text[k] \in Nat /\ q.text[k] \in Nat
    BY <2>2
  <2>4. CASE p.text[k] < q.text[k]
    <3>1. Parts(p, q, k)
      BY <2>1, <2>2, <2>4 DEF Parts
    <3> QED
      BY <1>2, <1>3, <2>1, <2>4, <3>1 DEF Below, Parts
  <2>5. CASE ~(p.text[k] < q.text[k])
    <3>1. q.text[k] < p.text[k]
      BY <2>1, <2>3, <2>5
    <3>2. Parts(q, p, k)
      BY <2>1, <2>2, <3>1 DEF Parts
    <3> QED
      BY <1>2, <1>3, <2>1, <2>5, <3>2 DEF Below, Parts
  <2> QED
    BY <2>4, <2>5
<1>4. CASE r = 0
  <2>0. \A j \in 0..n-1 : p.text[0 + j] = q.text[j]
    BY <1>4, MemcmpZero
  <2>1. \A j \in 0..n-1 : p.text[j] = q.text[j]
    BY <1>1, <2>0
  <2>2. CASE p.length < q.length
    <3>1. Parts(p, q, n)
      BY <1>1, <2>1, <2>2 DEF Parts
    <3> QED
      BY <1>2, <1>4, <2>2, <3>1 DEF Below, Parts
  <2>3. CASE q.length < p.length
    <3>1. Parts(q, p, n)
      BY <1>1, <2>1, <2>3 DEF Parts
    <3> QED
      BY <1>2, <1>4, <2>3, <3>1 DEF Below, Parts
  <2>4. CASE p.length = q.length
    BY <1>1, <1>2, <1>4, <2>1, <2>4 DEF Same
  <2> QED
    BY <2>2, <2>3, <2>4
<1> QED
  BY <1>3, <1>4

\* Its sign says which piece is below the other.
LEMMA CompareSign ==
  ASSUME NEW p, NEW q, IsPiece(p), IsPiece(q)
  PROVE  /\ Compare(p, q) \in {-1, 0, 1}
         /\ Compare(p, q) < 0 <=> Below(p, q)
         /\ Compare(p, q) > 0 <=> Below(q, p)
         /\ Compare(p, q) = 0 <=> Same(p, q)
<1>1. ~(Below(p, q) /\ Below(q, p)) /\ ~(Below(p, q) /\ Same(p, q)) /\ ~(Below(q, p) /\ Same(p, q))
  BY BelowStrict
<1> HIDE DEF Below, Same
<1> QED
  BY <1>1, CompareCases

\* A prefix is not above the whole; equality is a prefix of the same length.
LEMMA PrefixOrder ==
  ASSUME NEW p, NEW q, IsPiece(p), IsPiece(q)
  PROVE  /\ Equal(p, q) <=> Same(p, q)
         /\ Equal(p, q) <=> StartsWith(p, q) /\ EndsWith(q, p)
         /\ StartsWith(p, q) => ~Below(p, q)
<1> USE DEF IsPiece
<1>1. Equal(p, q) <=> Same(p, q)
  BY MemcmpZero DEF Equal, Same
<1>2. StartsWith(p, q) <=> p.length >= q.length /\ \A k \in 0..q.length-1 : p.text[0 + k] = q.text[k]
  BY MemcmpZero DEF StartsWith
<1>3. EndsWith(q, p) => q.length >= p.length
  BY DEF EndsWith
<1>4. Same(p, q) => EndsWith(q, p)
  <2> SUFFICES ASSUME Same(p, q) PROVE EndsWith(q, p)
    OBVIOUS
  <2>1. q.length - p.length = 0 /\ \A k \in 0..p.length-1 : q.text[0 + k] = p.text[k]
    BY DEF Same
  <2> QED
    BY <2>1, MemcmpZero DEF EndsWith, Same
<1>5. StartsWith(p, q) => ~Below(p, q)
  BY <1>2 DEF Below, Parts
<1> QED
  BY <1>1, <1>2, <1>3, <1>4, <1>5 DEF Same

\* compare is an order, and compare, ==, starts_with and ends_with agree on it.
THEOREM CompareCorrect == Spec => []ComparesInOrder
<1>1. IInv => ComparesInOrder
  <2> SUFFICES ASSUME IInv, NEW s \in Others
               PROVE
      /\ Compare(Piece, s) = -Compare(s, Piece)
      /\ Compare(Piece, s) = 0 <=> Equal(Piece, s)
      /\ Equal(Piece, s) <=> StartsWith(Piece, s) /\ EndsWith(s, Piece)
      /\ StartsWith(Piece, s) => Compare(Piece, s) >= 0
      /\ \A t \in Others : Compare(Piece, s) < 0 /\ Compare(s, t) < 0 => Compare(Piece, t) < 0
    BY DEF ComparesInOrder
  <2>1. IsPiece(Piece)
    BY PieceIsPiece
  <2>2. ASSUME NEW t \in Others PROVE IsPiece(t)
    BY OtherIsPiece
  <2>3. IsPiece(s)
    BY <2>2
  <2> DEFINE P == Piece
  <2> HIDE DEF P
  <2>4. IsPiece(P)
    BY <2>1 DEF P
  <2>5. Compare(P, s) = -Compare(s, P)
    <3>1. Same(P, s) <=> Same(s, P)
      BY DEF Same
    <3> QED
      BY <2>3, <2>4, <3>1, CompareSign
  <2>6. /\ Compare(P, s) = 0 <=> Equal(P, s)
        /\ Equal(P, s) <=> StartsWith(P, s) /\ EndsWith(s, P)
        /\ StartsWith(P, s) => Compare(P, s) >= 0
    BY <2>3, <2>4, CompareSign, PrefixOrder
  <2>7. ASSUME NEW t \in Others, Compare(P, s) < 0 /\ Compare(s, t) < 0 PROVE Compare(P, t) < 0
    BY <2>2, <2>3, <2>4, <2>7, CompareSign, BelowTransitive
  <2> QED
    BY <2>5, <2>6, <2>7 DEF P
<1> QED
  BY <1>1, Invariance, PTL
-----------------------------------------------------------------------------
(***************************************************************************)
(* The loops of string16.cc.  A recursive function is whatever satisfies   *)
(* its equation: that something does is shown by a witness, and that it is *)
(* the only one by an induction over sets of numbers.                      *)
(***************************************************************************)

\* A set that holds n, and i if it holds i + 1, holds all of 0..n; and the other way up.
LEMMA Descent ==
  ASSUME NEW n \in Nat, NEW T, n \in T, \A k \in 0..n-1 : k + 1 \in T => k \in T
  PROVE  0..n \subseteq T
<1> DEFINE U == {k \in 0..n : k \notin T}
<1>1. SUFFICES ASSUME U # {} PROVE FALSE
  OBVIOUS
<1>2. PICK m \in U : \A k \in U : k <= m
  <2>1. U \in SUBSET (0..n)
    OBVIOUS
  <2> HIDE DEF U
  <2> QED
    BY <1>1, <2>1, LargestElement
<1>3. m \in 0..n-1 /\ m + 1 \in 0..n /\ m + 1 \notin U
  BY <1>2
<1> QED
  BY <1>2, <1>3

LEMMA Ascent ==
  ASSUME NEW n \in Nat, NEW T, 0 \in T, \A k \in 0..n-1 : k \in T => k + 1 \in T
  PROVE  0..n \subseteq T
<1> DEFINE U == {k \in 0..n : k \notin T}
<1>1. SUFFICES ASSUME U # {} PROVE FALSE
  OBVIOUS
<1>2. PICK m \in U : \A k \in U : m <= k
  <2>1. U \in SUBSET Nat
    OBVIOUS
  <2> HIDE DEF U
  <2> QED
    BY <1>1, <2>1, LeastElement
<1>3. m - 1 \in 0..n-1 /\ m - 1 \notin U /\ (m - 1) + 1 = m
  BY <1>2
<1> QED
  BY <1>2, <1>3

\* The first number of a set, and the first place of c from k on.
First(T) == CHOOSE k \in T : \A j \in T : k <= j
FirstFrom(s, c, n, k) ==
    LET js == {j \in k..n-1 : s[j] = c} IN IF js = {} THEN Npos ELSE First(js)

LEMMA FirstIs ==
  ASSUME NEW T \in SUBSET Nat
  PROVE  /\ T # {} => First(T) \in T /\ \A j \in T : First(T) <= j
         /\ \A k \in T : (\A j \in T : k <= j) => First(T) = k
<1>1. T # {} => First(T) \in T /\ \A j \in T : First(T) <= j
  BY LeastElement DEF First
<1>2. ASSUME NEW k \in T, \A j \in T : k <= j PROVE First(T) = k
  <2>1. First(T) \in T /\ First(T) <= k /\ k <= First(T)
    BY <1>1, <1>2
  <2>2. First(T) \in Nat /\ k \in Nat
    BY <2>1
  <2> HIDE DEF First
  <2> QED
    BY <2>1, <2>2
<1> QED
  BY <1>1, <1>2

\* The equation of the loop that looks for c.
LEMMA FirstFromStep ==
  ASSUME NEW s, NEW c, NEW n \in Nat, NEW k \in 0..n
  PROVE  FirstFrom(s, c, n, k) =
           IF k = n THEN Npos ELSE IF s[k] = c THEN k ELSE FirstFrom(s, c, n, k + 1)
<1> DEFINE js(m) == {j \in m..n-1 : s[j] = c}
<1>1. js(k) \in SUBSET Nat
  OBVIOUS
<1>2. FirstFrom(s, c, n, k) = IF js(k) = {} THEN Npos ELSE First(js(k))
  BY DEF FirstFrom
<1>3. CASE k = n
  BY <1>2, <1>3
<1>4. CASE k # n /\ s[k] = c
  <2>1. k \in js(k) /\ \A j \in js(k) : k <= j
    BY <1>4
  <2>2. First(js(k)) = k
    <3> HIDE DEF js
    <3> QED
      BY <1>1, <2>1, FirstIs
  <2> QED
    BY <1>2, <1>4, <2>1, <2>2
<1>5. CASE k # n /\ s[k] # c
  <2>1. js(k) = js(k + 1)
    BY <1>5
  <2> QED
    BY <1>2, <1>5, <2>1 DEF FirstFrom
<1> QED
  BY <1>3, <1>4, <1>5

LEMMA FirstFromZero ==
  ASSUME NEW s, NEW c, NEW n \in Nat, n # 0, s[0] = c
  PROVE  FirstFrom(s, c, n, 0) = 0
<1>1. 0 \in 0..n
  OBVIOUS
<1> QED
  BY <1>1, FirstFromStep

\* What is found is the first, and nothing if there is none.
LEMMA FirstFromIs ==
  ASSUME NEW s, NEW c, NEW n \in 0..Npos
  PROVE  LET k == FirstFrom(s, c, n, 0)
         IN  IF k = Npos THEN \A j \in 0..n-1 : s[j] # c
             ELSE k \in Nat /\ k < n /\ s[k] = c /\ \A j \in 0..k-1 : s[j] # c
<1> DEFINE js == {j \in 0..n-1 : s[j] = c}
           k == First(js)
<1> USE SizeAssumption
<1>1. FirstFrom(s, c, n, 0) = IF js = {} THEN Npos ELSE k
  BY DEF FirstFrom
<1>2. CASE js = {}
  BY <1>1, <1>2
<1>3. CASE js # {}
  <2>1. js \in SUBSET Nat
    OBVIOUS
  <2>2. k \in js /\ \A j \in js : k <= j
    <3> HIDE DEF js
    <3> QED
      BY <1>3, <2>1, FirstIs
  <2> HIDE DEF k
  <2>3. k \in Nat /\ k < n /\ s[k] = c
    BY <2>2
  <2>4. \A j \in 0..k-1 : s[j] # c
    BY <2>2, <2>3
  <2> QED
    BY <1>1, <1>3, <2>3, <2>4
<1> QED
  BY <1>2, <1>3

\* c16memchr answers the first place.
LEMMA C16MemchrIs ==
  ASSUME NEW s, NEW c, NEW n \in Nat
  PROVE  C16Memchr(s, c, n) = FirstFrom(s, c, n, 0)
<1> DEFINE Loops(f) == f = [k \in 0..n |-> IF k = n THEN Npos ELSE IF s[k] = c THEN k ELSE f[k + 1]]
           h == CHOOSE f : Loops(f)
           g == [k \in 0..n |-> FirstFrom(s, c, n, k)]
<1>1. C16Memchr(s, c, n) = h[0]
  BY DEF C16Memchr
<1>2. Loops(g)
  <2>1. \A k \in 0..n : g[k] = IF k = n THEN Npos ELSE IF s[k] = c THEN k ELSE g[k + 1]
    BY FirstFromStep
  <2> HIDE DEF g
  <2>2. g = [k \in 0..n |-> g[k]]
    BY DEF g
  <2> QED
    BY <2>1, <2>2
<1>3. Loops(h)
  <2> HIDE DEF Loops
  <2> QED
    BY <1>2
<1> HIDE DEF h
<1>4. \A k \in 0..n : h[k] = IF k = n THEN Npos ELSE IF s[k] = c THEN k ELSE h[k + 1]
  BY <1>3
<1> DEFINE T == {k \in 0..n : h[k] = FirstFrom(s, c, n, k)}
<1>5. n \in T
  BY <1>4, FirstFromStep
<1>6. ASSUME NEW k \in 0..n-1, k + 1 \in T PROVE k \in T
  BY <1>4, <1>6, FirstFromStep
<1>7. 0..n \subseteq T
  <2> HIDE DEF T
  <2> QED
    BY <1>5, <1>6, Descent
<1> QED
  BY <1>1, <1>7
\* c16len answers the first 0, for a text of one character or more.
LEMMA C16LenIs ==
  ASSUME NEW n \in Nat, n # 0, NEW s, DOMAIN s = 0..n-1
  PROVE  C16Len(s) = FirstFrom(s, 0, n, 0)
<1> DEFINE Loops(f) == f = [k \in DOMAIN s |-> IF s[k] = 0 THEN k
                              ELSE IF k + 1 \in DOMAIN s THEN f[k + 1] ELSE Npos]
           h == CHOOSE f : Loops(f)
           g == [k \in 0..n-1 |-> FirstFrom(s, 0, n, k)]
<1>1. C16Len(s) = h[0]
  BY DEF C16Len
<1>2. \A k \in 0..n-1 : k # n /\ k \in 0..n /\ k + 1 \in 0..n /\ (k + 1 \in 0..n-1 <=> k + 1 # n)
  OBVIOUS
<1>3. FirstFrom(s, 0, n, n) = Npos
  BY FirstFromStep
<1>step. \A k \in 0..n-1 :
          FirstFrom(s, 0, n, k) = IF s[k] = 0 THEN k ELSE FirstFrom(s, 0, n, k + 1)
  BY <1>2, FirstFromStep
<1>4. Loops(g)
  <2>1. ASSUME NEW k \in 0..n-1
        PROVE  g[k] = IF s[k] = 0 THEN k ELSE IF k + 1 \in 0..n-1 THEN g[k + 1] ELSE Npos
    <3>1. FirstFrom(s, 0, n, k) = IF s[k] = 0 THEN k ELSE FirstFrom(s, 0, n, k + 1)
      BY <1>step
    <3> QED
      BY <1>2, <1>3, <3>1
  <2> HIDE DEF g
  <2>2. g = [k \in 0..n-1 |-> g[k]]
    BY DEF g
  <2> QED
    BY <2>1, <2>2
<1>5. Loops(h)
  <2> HIDE DEF Loops
  <2> QED
    BY <1>4
<1> HIDE DEF h
<1>6. \A k \in 0..n-1 : h[k] = IF s[k] = 0 THEN k ELSE IF k + 1 \in 0..n-1 THEN h[k + 1] ELSE Npos
  BY <1>5
<1> DEFINE T == {k \in 0..n-1 : h[k] = FirstFrom(s, 0, n, k)}
<1>7. n - 1 \in T
  <2>1. n - 1 \in 0..n-1 /\ (n - 1) + 1 = n /\ n \notin 0..n-1
    OBVIOUS
  <2>2. FirstFrom(s, 0, n, n - 1) = IF s[n - 1] = 0 THEN n - 1 ELSE Npos
    BY <1>2, <1>3, <2>1, FirstFromStep
  <2> QED
    BY <1>6, <2>1, <2>2
<1>8. ASSUME NEW k \in 0..(n - 1)-1, k + 1 \in T PROVE k \in T
  <2>1. k \in 0..n-1 /\ k + 1 \in 0..n-1 /\ k # n /\ k \in 0..n
    OBVIOUS
  <2>2. FirstFrom(s, 0, n, k) = IF s[k] = 0 THEN k ELSE FirstFrom(s, 0, n, k + 1)
    BY <1>step, <2>1
  <2> QED
    BY <1>6, <1>8, <2>1, <2>2
<1>9. 0..n-1 \subseteq T
  <2> HIDE DEF T
  <2> QED
    BY <1>7, <1>8, Descent
<1> QED
  BY <1>1, <1>9

\* The sign that a comparison from k on has.
SignFrom(s, t, n, k) ==
    LET differ == {j \in k..n-1 : s[j] # t[j]}
    IN  IF differ = {} THEN 0 ELSE IF s[First(differ)] < t[First(differ)] THEN -1 ELSE 1

LEMMA SignFromStep ==
  ASSUME NEW s, NEW t, NEW n \in Nat, NEW k \in 0..n
  PROVE  SignFrom(s, t, n, k) =
           IF k = n THEN 0 ELSE IF s[k] # t[k] THEN (IF s[k] < t[k] THEN -1 ELSE 1)
           ELSE SignFrom(s, t, n, k + 1)
<1> DEFINE differ(m) == {j \in m..n-1 : s[j] # t[j]}
<1>1. differ(k) \in SUBSET Nat
  OBVIOUS
<1>2. SignFrom(s, t, n, k) = IF differ(k) = {} THEN 0
        ELSE IF s[First(differ(k))] < t[First(differ(k))] THEN -1 ELSE 1
  BY DEF SignFrom
<1>3. CASE k = n
  BY <1>2, <1>3
<1>4. CASE k # n /\ s[k] # t[k]
  <2>1. k \in differ(k) /\ \A j \in differ(k) : k <= j
    BY <1>4
  <2>2. First(differ(k)) = k
    <3> HIDE DEF differ
    <3> QED
      BY <1>1, <2>1, FirstIs
  <2> QED
    BY <1>2, <1>4, <2>1, <2>2
<1>5. CASE k # n /\ s[k] = t[k]
  <2>1. differ(k) = differ(k + 1)
    BY <1>5
  <2> QED
    BY <1>2, <1>5, <2>1 DEF SignFrom
<1> QED
  BY <1>3, <1>4, <1>5

\* c16memcmp answers what memcmp does for characters of one byte.
LEMMA C16MemcmpIs ==
  ASSUME NEW s, NEW t, NEW n \in Nat
  PROVE  C16Memcmp(s, t, n) = SignFrom(s, t, n, 0)
<1> DEFINE Loops(f) == f = [k \in 0..n |->
                        IF k = n THEN 0 ELSE IF s[k] # t[k] THEN (IF s[k] < t[k] THEN -1 ELSE 1)
                        ELSE f[k + 1]]
           h == CHOOSE f : Loops(f)
           g == [k \in 0..n |-> SignFrom(s, t, n, k)]
<1>1. C16Memcmp(s, t, n) = h[0]
  BY DEF C16Memcmp
<1>2. Loops(g)
  <2>1. \A k \in 0..n : g[k] =
          IF k = n THEN 0 ELSE IF s[k] # t[k] THEN (IF s[k] < t[k] THEN -1 ELSE 1) ELSE g[k + 1]
    BY SignFromStep
  <2> HIDE DEF g
  <2>2. g = [k \in 0..n |-> g[k]]
    BY DEF g
  <2> QED
    BY <2>1, <2>2
<1>3. Loops(h)
  <2> HIDE DEF Loops
  <2> QED
    BY <1>2
<1> HIDE DEF h
<1>4. \A k \in 0..n : h[k] =
        IF k = n THEN 0 ELSE IF s[k] # t[k] THEN (IF s[k] < t[k] THEN -1 ELSE 1) ELSE h[k + 1]
  BY <1>3
<1> DEFINE T == {k \in 0..n : h[k] = SignFrom(s, t, n, k)}
<1>5. n \in T
  BY <1>4, SignFromStep
<1>6. ASSUME NEW k \in 0..n-1, k + 1 \in T PROVE k \in T
  BY <1>4, <1>6, SignFromStep
<1>7. 0..n \subseteq T
  <2> HIDE DEF T
  <2> QED
    BY <1>5, <1>6, Descent
<1> QED
  BY <1>1, <1>7

LEMMA MemcmpSign ==
  ASSUME NEW p, NEW q, NEW n \in Nat
  PROVE  Memcmp(p, 0, q, n) = SignFrom(p.text, q.text, n, 0)
<1> DEFINE there == {k \in 0..n-1 : p.text[0 + k] # q.text[k]}
           here  == {k \in 0..n-1 : p.text[k] # q.text[k]}
<1>1. there = here
  OBVIOUS
<1>2. Memcmp(p, 0, q, n) = IF there = {} THEN 0
        ELSE IF p.text[0 + First(there)] < q.text[First(there)] THEN -1 ELSE 1
  BY DEF Memcmp, First
<1>3. here # {} => 0 + First(here) = First(here)
  <2>1. here \in SUBSET Nat
    OBVIOUS
  <2> HIDE DEF here
  <2>2. here # {} => First(here) \in Nat
    BY <2>1, FirstIs
  <2> QED
    BY <2>2
<1> QED
  BY <1>1, <1>2, <1>3 DEF SignFrom

\* c16memset sets the first n characters and no other.
LEMMA C16MemsetIs ==
  ASSUME NEW m \in Nat, NEW s, s = [j \in 0..m-1 |-> s[j]], NEW c, NEW n \in 0..m
  PROVE  C16Memset(s, c, n) = [j \in 0..m-1 |-> IF j < n THEN c ELSE s[j]]
<1> DEFINE Loops(f) == f = [k \in 0..n |-> IF k = 0 THEN s ELSE [f[k - 1] EXCEPT ![k - 1] = c]]
           h == CHOOSE f : Loops(f)
           set(k) == [j \in 0..m-1 |-> IF j < k THEN c ELSE s[j]]
           g == [k \in 0..n |-> set(k)]
<1>1. C16Memset(s, c, n) = h[n]
  BY DEF C16Memset
<1>2. set(0) = s
  OBVIOUS
<1>3. ASSUME NEW k \in 1..n PROVE set(k) = [set(k - 1) EXCEPT ![k - 1] = c]
  <2>1. ASSUME NEW j \in 0..m-1
        PROVE  [set(k - 1) EXCEPT ![k - 1] = c][j] = IF j = k - 1 THEN c ELSE set(k - 1)[j]
    OBVIOUS
  <2>2. \A j \in 0..m-1 : j < k <=> j = k - 1 \/ j < k - 1
    OBVIOUS
  <2>3. \A j \in 0..m-1 : set(k)[j] = [set(k - 1) EXCEPT ![k - 1] = c][j]
    BY <2>1, <2>2
  <2>4. DOMAIN [set(k - 1) EXCEPT ![k - 1] = c] = 0..m-1
    OBVIOUS
  <2> QED
    BY <2>3, <2>4
<1> HIDE DEF set
<1>4. Loops(g)
  <2>1. \A k \in 0..n : g[k] = IF k = 0 THEN s ELSE [g[k - 1] EXCEPT ![k - 1] = c]
    BY <1>2, <1>3
  <2> HIDE DEF g
  <2>2. g = [k \in 0..n |-> g[k]]
    BY DEF g
  <2> QED
    BY <2>1, <2>2
<1>5. Loops(h)
  <2> HIDE DEF Loops
  <2> QED
    BY <1>4
<1> HIDE DEF h
<1>6. \A k \in 0..n : h[k] = IF k = 0 THEN s ELSE [h[k - 1] EXCEPT ![k - 1] = c]
  BY <1>5
<1> DEFINE T == {k \in 0..n : h[k] = set(k)}
<1>7. 0 \in T
  <2>1. 0 \in 0..n
    OBVIOUS
  <2>2. h[0] = s
    BY <1>6, <2>1
  <2> QED
    BY <1>2, <2>1, <2>2
<1>8. ASSUME NEW k \in 0..n-1, k \in T PROVE k + 1 \in T
  <2>1. k + 1 \in 1..n /\ k + 1 \in 0..n /\ (k + 1) - 1 = k /\ k + 1 # 0
    OBVIOUS
  <2>2. h[k + 1] = [h[k] EXCEPT ![k] = c]
    BY <1>6, <2>1
  <2>3. set(k + 1) = [set(k) EXCEPT ![k] = c]
    BY <1>3, <2>1
  <2> QED
    BY <1>8, <2>1, <2>2, <2>3
<1>9. 0..n \subseteq T
  <2> HIDE DEF T
  <2> QED
    BY <1>7, <1>8, Ascent
<1>10. n \in T
  BY <1>9
<1> QED
  BY <1>1, <1>10 DEF set

\* The loops for char16 do what those for char do, for characters of any width.
THEOREM Char16Correct == Spec => []Char16LikeChar
<1>1. IInv => Char16LikeChar
  <2> SUFFICES ASSUME IInv PROVE Char16LikeChar
    OBVIOUS
  <2>1. /\ length \in Nat /\ length <= Npos
        /\ text = [j \in 0..length-1 |-> text[j]] /\ DOMAIN text = 0..length-1
    BY SizeAssumption DEF IInv, TypeOK
  <2>2. ASSUME NEW s \in Others, NEW n \in 0..Least(length, s.length)
        PROVE  C16Memcmp(text, s.text, n) = Memcmp(Piece, 0, s, n)
    <3>1. n \in Nat /\ Piece.text = text
      BY DEF Piece
    <3> QED
      BY <3>1, C16MemcmpIs, MemcmpSign
  <2>3. ASSUME NEW c \in Chars, NEW n \in 0..length
        PROVE  LET k == C16Memchr(text, c, n)
                   t == C16Memset(text, c, n)
               IN  /\ IF k = Npos THEN \A j \in 0..n-1 : text[j] # c
                      ELSE k < n /\ text[k] = c /\ \A j \in 0..k-1 : text[j] # c
                   /\ C16Memchr(t, c, length) = (IF n > 0 THEN 0 ELSE C16Memchr(text, c, length))
                   /\ \A j \in 0..length-1 : t[j] = IF j < n THEN c ELSE text[j]
    <3> DEFINE k == C16Memchr(text, c, n)
               t == C16Memset(text, c, n)
    <3>1. n \in Nat /\ n \in 0..Npos
      BY <2>1, SizeAssumption
    <3>2. k = FirstFrom(text, c, n, 0)
      BY <3>1, C16MemchrIs
    <3>3. IF k = Npos THEN \A j \in 0..n-1 : text[j] # c
          ELSE k < n /\ text[k] = c /\ \A j \in 0..k-1 : text[j] # c
      BY <3>1, <3>2, FirstFromIs
    <3>4. t = [j \in 0..length-1 |-> IF j < n THEN c ELSE text[j]]
      BY <2>1, C16MemsetIs
    <3> HIDE DEF t
    <3>5. ASSUME n > 0 PROVE C16Memchr(t, c, length) = 0
      <4>1. 0 \in 0..length-1 /\ t[0] = c /\ 0 \in 0..length /\ 0 # length
        BY <2>1, <3>1, <3>4, <3>5
      <4>2. FirstFrom(t, c, length, 0) = 0
        BY <2>1, <4>1, FirstFromZero
      <4> QED
        BY <2>1, <4>1, <4>2, C16MemchrIs
    <3>6. ASSUME ~(n > 0) PROVE t = text
      <4>1. \A j \in 0..length-1 : ~(j < n)
        BY <2>1, <3>1, <3>6
      <4> QED
        BY <2>1, <3>4, <4>1
    <3> QED
      BY <3>3, <3>4, <3>5, <3>6 DEF t
  <2>4. ASSUME NEW j \in 0..length-1 PROVE C16Memchr(text, 0, length) = C16Len(text)
    BY <2>1, C16MemchrIs, C16LenIs
  <2> QED
    BY <2>2, <2>3, <2>4 DEF Char16LikeChar
<1> QED
  BY <1>1, Invariance, PTL
-----------------------------------------------------------------------------
\* How many steps a call has left at most.
Left ==
    IF pc = "done" THEN 0
    ELSE IF pc = "start" THEN length + 2
    ELSE IF search \in Backward THEN i + 1
    ELSE IF i < length THEN length - i + 1 ELSE 1

\* Each step of a call leaves it fewer steps, length + 2 at first: no index wraps around
\* and starts again, so that a call that is given the processor returns.
THEOREM SearchShrinks == Spec => [](Left \in Nat) /\ [][Left' < Left]_vars
<1> USE SizeAssumption
<1>1. IInv => Left \in Nat
  BY DEF IInv, TypeOK, Left, Sizes
<1>2. ASSUME IInv, IInv', Next PROVE Left' < Left
  <2>1. TypeOK /\ Loop
    BY <1>2 DEF IInv
  <2>2. CASE Enter
    <3>1. CASE Trivial
      BY <2>1, <2>2, <3>1 DEF Enter, Return, input, TypeOK, Left
    <3>2. CASE ~Trivial
      <4>1. length # 0 /\ pc = "start" /\ pc' = "scan" /\ i' = FirstIndex /\ UNCHANGED input
        BY <2>2, <3>2 DEF Enter, Trivial
      <4>2. /\ i' \in Nat /\ length \in Nat
            /\ search \in Backward => i' < length
        BY <2>1, <4>1, FirstIndexFacts DEF TypeOK, Sizes
      <4> QED
        BY <4>1, <4>2 DEF Left, input
    <3> QED
      BY <3>1, <3>2
  <2>3. CASE Forward
    <3>1. pc = "scan" /\ search \notin Backward /\ i \in Nat /\ i <= Npos /\ length \in Nat
      BY <2>1, <2>3 DEF Forward, TypeOK, Sizes
    <3>2. CASE i >= length \/ Found(i)
      <4>1. pc' = "done"
        BY <2>3, <3>2 DEF Forward, Return
      <4> QED
        BY <3>1, <4>1 DEF Left
    <3>3. CASE ~(i >= length) /\ ~Found(i)
      <4>1. i' = Inc(i) /\ UNCHANGED <<input, pc>>
        BY <2>3, <3>3 DEF Forward
      <4>2. i' = i + 1 /\ i < length
        BY <2>1, <3>1, <3>3, <4>1 DEF Inc, TypeOK
      <4> QED
        BY <3>1, <4>1, <4>2 DEF Left, input
    <3> QED
      BY <3>2, <3>3
  <2>4. CASE BackwardOn
    <3>1. pc = "scan" /\ search \in Backward /\ i \in Nat
      BY <2>1, <2>4 DEF BackwardOn, TypeOK, Sizes
    <3>2. CASE Found(i) \/ i = 0
      <4>1. pc' = "done"
        BY <2>4, <3>2 DEF BackwardOn, Return
      <4> QED
        BY <3>1, <4>1 DEF Left
    <3>3. CASE ~Found(i) /\ i # 0
      <4>1. i' = i - 1 /\ UNCHANGED <<input, pc>>
        BY <2>4, <3>3 DEF BackwardOn, Dec
      <4> QED
        BY <3>1, <4>1 DEF Left, input
    <3> QED
      BY <3>2, <3>3
  <2> QED
    BY <1>2, <2>2, <2>3, <2>4 DEF Next
<1>3. IInv /\ IInv' /\ [Next]_vars => [Left' < Left]_vars
  BY <1>2
<1> QED
  BY Invariance, <1>1, <1>3, PTL DEF Spec
=============================================================================
