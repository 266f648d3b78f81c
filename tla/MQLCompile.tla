----------------------------- MODULE MQLCompile -----------------------------
(***************************************************************************)
(* What the MQL compiler promises, stated from the spec (4.3-4.5, 7) and   *)
(* not from the code: while the query text is being read it may change    *)
(* freely; then the compilation is decided once.  It accepts exactly the  *)
(* well-formed queries that name at least one metric, whose metrics share *)
(* one group-by list, whose metric types exist in the dataset and whose   *)
(* context passes the rollup and paging rules; an accepted plan reads     *)
(* each metric occurrence, under its alias, from the entity of its type,  *)
(* and restricts that source to its metric id and its own filters.       *)
(* The plan returns the requested page: the limit given, or 1000 when    *)
(* none is, and the offset given, or none.                              *)
(* A decision is final.                                                  *)
(*                                                                         *)
(* MQLPipeline maps its state onto this module and checks the mapping.     *)
(***************************************************************************)
EXTENDS MQLCommon

CONSTANTS
  GRANULARITIES_AVAILABLE,
  MAX_LIMIT,
  DateTimes,
  Contexts

VARIABLES
  query,    \* [well_formed, metrics]: metrics is the sequence of metric
            \* occurrences [mri, alias, groupby, filters], in the order
            \* written
  dataset,
  ctx,
  outcome,  \* "open", "accepted" or "rejected"
  sources,  \* alias -> entity of the accepted plan
  restrictions, \* alias -> [metric_ids, filters] the plan applies to it
  paging    \* [limit, offset] of the accepted plan, None before

avars == <<query, dataset, ctx, outcome, sources, restrictions, paging>>

(* The context rules of spec 3 and 4.5: parseable start and end, then the *)
(* rollup and paging rules.                                              *)
ContextValid(c) ==
  /\ c.start \in DOMAIN DateTimes
  /\ c.end \in DOMAIN DateTimes
  /\ c.granularity \in {GRANULARITIES_AVAILABLE[i] : i \in DOMAIN GRANULARITIES_AVAILABLE}
  /\ c.with_totals \in {None, "True", "False"}
  /\ c.orderby \in {None, "ASC", "DESC"}
  /\ c.interval # None => /\ c.orderby = None
                          /\ c.interval >= GRANULARITIES_AVAILABLE[1]
                          /\ c.interval >= c.granularity
  /\ c.limit # None => c.limit <= MAX_LIMIT
  /\ c.offset # None => c.offset >= 0

Acceptable(q, ds, c) ==
  LET ms == q.metrics IN
  /\ q.well_formed
  /\ ms # <<>>
  /\ \A i \in DOMAIN ms : ms[i].groupby = ms[1].groupby
  /\ \A i \in DOMAIN ms : select_entity(ms[i].mri, ds) # None
  /\ ContextValid(c)

MetricOf(q, a) == q.metrics[CHOOSE i \in DOMAIN q.metrics : q.metrics[i].alias = a]

Aliases(q) == {q.metrics[i].alias : i \in DOMAIN q.metrics}

SourcesOf(q, ds) == [a \in Aliases(q) |-> select_entity(MetricOf(q, a).mri, ds)]

(* Spec 4.4 step 6: each source is filtered on its own metric id and on   *)
(* the filters written for its metric, and on no other metric's.          *)
RestrictionsOf(q) ==
  [a \in Aliases(q) |-> [metric_ids |-> {MetricOf(q, a).mri}, filters |-> MetricOf(q, a).filters]]

Init ==
  /\ dataset \in Datasets
  /\ ctx \in Contexts
  /\ outcome = "open"
  /\ sources = <<>>
  /\ restrictions = <<>>
  /\ paging = None

(* The text read so far changes; nothing is decided.                       *)
Read ==
  /\ outcome = "open"
  /\ UNCHANGED <<dataset, ctx, outcome, sources, restrictions, paging>>

Accept ==
  /\ outcome = "open"
  /\ Acceptable(query, dataset, ctx)
  /\ outcome' = "accepted"
  /\ sources' = SourcesOf(query, dataset)
  /\ restrictions' = RestrictionsOf(query)
  /\ paging' = [limit  |-> IF ctx.limit = None THEN 1000 ELSE ctx.limit,
               offset |-> IF ctx.offset = None THEN 0 ELSE ctx.offset]
  /\ UNCHANGED <<query, dataset, ctx>>

Reject ==
  /\ outcome = "open"
  /\ ~Acceptable(query, dataset, ctx)
  /\ outcome' = "rejected"
  /\ UNCHANGED <<query, dataset, ctx, sources, restrictions, paging>>

Next == Read \/ Accept \/ Reject

Spec == Init /\ [][Next]_avars
=============================================================================
