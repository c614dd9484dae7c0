------------------------------- MODULE TxtTok -------------------------------
(* The tokenizer of core/src/strutils/txt_tok.c.  A line is a sequence of  *)
(* characters; a token is where it begins and how long it is.              *)
EXTENDS Naturals, Sequences, SequencesExt, FiniteSets, FiniteSetsExt

CONSTANTS
    Char,
    Space,          \* the characters that isspace accepts
    Delim, nl       \* the separator, which each tool has one of; the newline

ASSUME TextAssumption == nl \in Space /\ Delim \notin Space

tokmeta(off, len) == [tok_off |-> off, tok_len |-> len]

CntTok(src, delim) ==
    IF src = <<>> THEN 0 ELSE 1 + Cardinality({n \in DOMAIN src : src[n] = delim})

AtEnd(src, delim, pos) == pos = Len(src) \/ src[pos + 1] = delim

\* Mutant of MarkStep: the length of the token before is kept.
MarkStepKeepsLength(src, delim, acc, pos) ==
    IF AtEnd(src, delim, pos)
    THEN [acc EXCEPT !.toks = Append(@, tokmeta(pos - acc.tok_len, acc.tok_len))]
    ELSE [acc EXCEPT !.tok_len = @ + 1]

\* One character, or the end of the line, after the tokens in acc.
MarkStep(src, delim, acc, pos) ==
    IF AtEnd(src, delim, pos)
    THEN [tok_len |-> 0, toks |-> Append(acc.toks, tokmeta(pos - acc.tok_len, acc.tok_len))]
    ELSE [acc EXCEPT !.tok_len = @ + 1]

\* What the loop has marked after n steps.
MarkedIn(src, delim) ==
    LET acc[n \in 0 .. Len(src) + 1] ==
          IF n = 0 THEN [tok_len |-> 0, toks |-> <<>>] ELSE MarkStep(src, delim, acc[n - 1], n - 1)
    IN  acc

\* Every token the loop marks, whatever room the array has.
Marks(src, delim) == MarkedIn(src, delim)[Len(src) + 1].toks

\* The array of tok_cnt tokens: those it has no mark for are zero.  (NULL on the
\* empty line; Overflows says that a mark is written behind the array.)
MarkTokPosMeta(src, tok_cnt, delim) ==
    [n \in 1 .. tok_cnt |-> IF n <= Len(Marks(src, delim)) THEN Marks(src, delim)[n]
                                                           ELSE tokmeta(0, 0)]

Overflows(src, tok_cnt, delim) == src # <<>> /\ Len(Marks(src, delim)) > tok_cnt

TokOf(src, tok) == SubSeq(src, tok.tok_off + 1, tok.tok_off + tok.tok_len)

\* How far lstrip moves the pointer, and what the two functions leave.
Leading(line) ==
    LET first == SelectInSeq(line, LAMBDA c : c \notin Space)
    IN  IF first = 0 THEN Len(line) ELSE first - 1

lstrip(line) == SubSeq(line, Leading(line) + 1, Len(line))
rstrip(line) == SubSeq(line, 1, SelectLastInSeq(line, LAMBDA c : c \notin Space))

-----------------------------------------------------------------------------
(* Lines and fields by the positions of whitespace and separators, without  *)
(* the loops of the code: what the properties of the tools are stated with.  *)

Stripped(piece) ==
    LET S == {n \in DOMAIN piece : piece[n] \notin Space}
    IN  IF S = {} THEN <<>> ELSE SubSeq(piece, Min(S), Max(S))

\* The end of the line counts as a separator.
IsDelim(line, p) == p \in DOMAIN line => line[p] = Delim

\* The n-th separator of the line.
DelimAt(line, n) ==
    IF n = 0 THEN 0
    ELSE CHOOSE p \in 1 .. Len(line) + 1 :
           IsDelim(line, p) /\ Cardinality({q \in 1 .. p : IsDelim(line, q)}) = n

FieldCnt(line) == 1 + Cardinality({p \in DOMAIN line : line[p] = Delim})

Field(line, n) == SubSeq(line, DelimAt(line, n - 1) + 1, DelimAt(line, n) - 1)

\* The first cols fields of a line: those that it does not have are empty.
RowOf(piece, cols) ==
    [n \in 1 .. cols |-> IF n <= FieldCnt(Stripped(piece)) THEN Field(Stripped(piece), n) ELSE <<>>]

\* How far the first n lines of a text have moved in their buffer.
MovedUpTo(text) ==
    LET moved[n \in 0 .. Len(text)] == IF n = 0 THEN 0 ELSE moved[n - 1] + Leading(text[n])
    IN  moved
=============================================================================
