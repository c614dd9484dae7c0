---------------------------- MODULE MCTableTools ----------------------------
(* Small instances of TableTools: tables of up to four lines. *)
EXTENDS TableTools

MCLines == {<<>>, <<" ">>, <<"a">>, <<"b", ",", "a">>, <<" ", "a", "b", ",", " ">>, <<",", "a">>,
            <<" ", " ", " ", " ", "b">>, <<" ", " ", " ", " ", "a">>, <<"a", ",", ",", "b", "a">>}

MCPKs == -1 .. 2

\* The last line may lack its newline, if it is not empty.
Pieces(lines, ended) ==
    [n \in DOMAIN lines |-> IF n < Len(lines) \/ ended THEN Append(lines[n], nl) ELSE lines[n]]

MCTexts ==
    {t \in {Pieces(lines, ended) : lines \in UNION {[1 .. n -> MCLines] : n \in 0 .. 4},
                                   ended \in BOOLEAN} :
       \A n \in DOMAIN t : t[n] # <<>>}
=============================================================================
