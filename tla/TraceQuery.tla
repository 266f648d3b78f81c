----------------------------- MODULE TraceQuery -----------------------------
(***************************************************************************)
(* The admin trace endpoint of src/snuba/admin/clickhouse/tracing.py:      *)
(* run_query_and_get_trace validates a hand-written SQL text with          *)
(* validate_trace_query and, when it passes, sends it to the read-only    *)
(* cluster with tracing on.                                               *)
(*                                                                         *)
(* A text is a sequence of one-character strings, so that the string      *)
(* operations the check relies on (split, join, lower, strip, startswith  *)
(* and `in`) are modelled by what they do.                                *)
(***************************************************************************)
EXTENDS Integers, SequencesExt

CONSTANTS
  Queries,     \* the texts a caller may send
  Whitespace,  \* the characters str.split() and str.strip() remove
  Lower        \* str.lower on the upper-case letters: char -> char

VARIABLES
  executed,    \* the texts sent to ClickHouse
  rejected     \* the texts refused with InvalidCustomQuery

vars == <<executed, rejected>>

SELECT    == <<"s", "e", "l", "e", "c", "t">>
INSERT    == <<"i", "n", "s", "e", "r", "t">>
SEMICOLON == <<";">>

(* str.split(): the maximal runs of characters outside Whitespace.        *)
split(s) ==
  LET step(acc, c) ==
        IF c \in Whitespace
        THEN IF acc.cur = <<>> THEN acc
             ELSE [words |-> Append(acc.words, acc.cur), cur |-> <<>>]
        ELSE [acc EXCEPT !.cur = Append(@, c)]
      r == FoldLeft(step, [words |-> <<>>, cur |-> <<>>], s)
  IN  IF r.cur = <<>> THEN r.words ELSE Append(r.words, r.cur)

(* " ".join(words).                                                        *)
join(words) ==
  FoldLeft(LAMBDA acc, w : IF acc = <<>> THEN w ELSE acc \o <<" ">> \o w, <<>>, words)

(* str.lower().                                                            *)
lower(s) == [i \in DOMAIN s |-> IF s[i] \in DOMAIN Lower THEN Lower[s[i]] ELSE s[i]]

(* str.strip(): leading and trailing whitespace removed.                   *)
strip(s) ==
  LET kept == {i \in DOMAIN s : s[i] \notin Whitespace}
  IN  IF kept = {} THEN <<>> ELSE SubSeq(s, Min(kept), Max(kept))

(* Fault variant: the text is not lower-cased before the checks.          *)
validate_trace_query_no_lower(sql_query) ==
  LET lowered == strip(join(split(sql_query))) IN
  CASE ~IsPrefix(SELECT, lowered)                        -> "InvalidCustomQuery"
    [] \E kw \in {INSERT, SEMICOLON} : kw \in SubSeqs(lowered) -> "InvalidCustomQuery"
    [] OTHER                                             -> "ok"

(* validate_trace_query: "ok" when it returns, or the exception it     *)
(* raises; the messages naming the keyword are left out.               *)
validate_trace_query(sql_query) ==
  LET lowered == strip(lower(join(split(sql_query)))) IN
  CASE ~IsPrefix(SELECT, lowered)                        -> "InvalidCustomQuery"
    [] \E kw \in {INSERT, SEMICOLON} : kw \in SubSeqs(lowered) -> "InvalidCustomQuery"
    [] OTHER                                             -> "ok"

Init == executed = {} /\ rejected = {}

(* run_query_and_get_trace: the text is validated, then executed on the  *)
(* read-only connection, or the call raises before any connection.       *)
run_query_and_get_trace(query) ==
  IF validate_trace_query(query) = "ok"
  THEN executed' = executed \cup {query} /\ UNCHANGED rejected
  ELSE rejected' = rejected \cup {query} /\ UNCHANGED executed

Next == \E q \in Queries : run_query_and_get_trace(q)

Spec == Init /\ [][Next]_vars

-----------------------------------------------------------------------------
TypeOK == executed \subseteq Queries /\ rejected \subseteq Queries

(* A single read statement, read off the raw text the way ClickHouse     *)
(* reads it: after leading whitespace it begins with select in any case, *)
(* it has no statement separator, and no six consecutive characters      *)
(* spell insert in any case.                                              *)
ReadStatement(q) ==
  LET lq    == lower(q)
      first == {i \in DOMAIN q : q[i] \notin Whitespace}
  IN  /\ first # {}
      /\ IsPrefix(SELECT, SubSeq(lq, Min(first), Len(lq)))
      /\ ~Contains(q, ";")
      /\ \A i \in 1..(Len(lq) - 5) : SubSeq(lq, i, i + 5) # INSERT

(* The trace endpoint sends exactly the single read statements to the    *)
(* cluster: whatever the case and the spacing of the text, every text it *)
(* executes is one, and every text it refuses is not (validate_trace_    *)
(* query's normalisation, lower-casing and keyword checks).              *)
ExecutesExactlyReads ==
  /\ \A q \in executed : ReadStatement(q)
  /\ \A q \in rejected : ~ReadStatement(q)
=============================================================================
