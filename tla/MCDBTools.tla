----------------------------- MODULE MCDBTools -----------------------------
(* Small instances of DBTools: one database or one text to begin with.  "n" *)
(* is the newline and "0" the nul.                                          *)
EXTENDS DBTools, TLC

CONSTANTS p, q, r

\* A key with a '=', and one that is too long.
MCKeys == {<<"a">>, <<"a", "=">>, <<"a", "b", "a">>}

\* A value that a line just has room for; one for which it has not, of two lines and
\* a nul.
MCVals == {<<"b", "b", "b", "b", "b">>, <<"b", " ", "b", "b", "b", "b", "b", "n", "a", "0">>}

\* Blank lines, comments, assignments with and without whitespace, without a '=',
\* with nothing before it, with three of them, with a key that is too long, and one
\* that a nul ends.
MCLines == {<<" ", "n">>, <<"#", "=", "n">>, <<" ", " ", "a", "=", "b", "n">>, <<"a", "=", "a", "n">>,
            <<"b", "n">>, <<"=", "a", "n">>, <<"b", "=", "a", "=", "b", "=", "n">>,
            <<"a", "b", "a", "=", "n">>, <<"b", "=", "b", "0", "=", "=", "=", "n">>}

MCTexts == UNION {[1 .. n -> MCLines] : n \in 0 .. 3}

MCEntries == [key : {k \in MCKeys : Len(k) <= MAX_KEY_SIZE}, val : MCVals, deleted : BOOLEAN]

\* An entry is deleted by a deletion or by the next put of its key.
Legal(ents) ==
    \A m, n \in DOMAIN ents : m < n /\ ents[m].key = ents[n].key => ents[m].deleted

MCDatabases == {DB(2, ents) : ents \in {e \in UNION {[1 .. n -> MCEntries] : n \in 0 .. 2} : Legal(e)}}

\* The other two paths are empty at first.
Symmetry == Permutations({q, r})

In(f) == [x \in Path |-> IF x = p THEN f ELSE NoFile]

MCInitialFiles == {In(Text(t)) : t \in MCTexts} \cup {In(d) : d \in MCDatabases}
=============================================================================
