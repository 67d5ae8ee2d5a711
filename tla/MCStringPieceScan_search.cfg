\* Every call on every text of up to four characters out of three; size_type
\* has three bits.
SPECIFICATION Spec
CONSTANTS
    Chars = {0, 1, 2}
    MaxLength = 4
    MaxOther = 2
    Npos = 7
INVARIANTS ReadsInside AnswersLikeString FindsAgree ViewsStayInside ComparesInOrder Char16LikeChar
PROPERTIES SearchEnds
\* The function returns.
CHECK_DEADLOCK FALSE
