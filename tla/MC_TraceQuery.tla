---------------------------- MODULE MC_TraceQuery ----------------------------
(***************************************************************************)
(* Texts for checking TraceQuery: select and insert in lower, upper and   *)
(* mixed case, with spaces, tabs and newlines around and inside them, and *)
(* with and without a semicolon.                                          *)
(***************************************************************************)
EXTENDS TraceQuery

SP == <<" ">>
TAB == <<"\t">>
NL == <<"\n">>
ONE == <<"1">>
SELECT_UPPER == <<"S", "E", "L", "E", "C", "T">>
SELECT_MIXED == <<"S", "e", "L", "e", "C", "t">>
INSERT_UPPER == <<"I", "N", "S", "E", "R", "T">>
SPLIT_INSERT == <<"i", "n">> \o TAB \o <<"s", "e", "r", "t">>
SPLIT_SELECT == <<"s", "e", "l">> \o SP \o <<"e", "c", "t">>

MC_Queries ==
  { SELECT \o SP \o ONE,
    SELECT_UPPER \o SP \o ONE,
    SP \o TAB \o SELECT_MIXED \o TAB \o TAB \o ONE \o NL,
    SELECT \o SP \o ONE \o SEMICOLON,
    SELECT_UPPER \o SP \o INSERT_UPPER,
    SELECT \o SP \o SPLIT_INSERT,
    INSERT \o SP \o ONE,
    ONE \o SP \o SELECT,
    SPLIT_SELECT \o SP \o ONE,
    SELECT \o NL \o SEMICOLON,
    <<>>,
    NL \o SELECT_UPPER }

MC_Whitespace == {" ", "\t", "\n"}

MC_Lower == [c \in {"S", "E", "L", "C", "T", "I", "N", "R"} |->
               CASE c = "S" -> "s" [] c = "E" -> "e" [] c = "L" -> "l" [] c = "C" -> "c"
                 [] c = "T" -> "t" [] c = "I" -> "i" [] c = "N" -> "n" [] c = "R" -> "r"]
=============================================================================
