----------------------------- MODULE MQLPipeline -----------------------------
(***************************************************************************)
(* The first pipeline stage of src/snuba/query/mql/parser_supported_join.py *)
(* (ParsePopulateResolveMQL) followed by the MQL post-processing step:     *)
(*                                                                         *)
(*   visit     the MQLVisitor handler calls (module MQLVisitor)             *)
(*   ParseBody parse_mql_query_body: error wrapping, then                   *)
(*             convert_formula_to_query or convert_timeseries_to_query     *)
(*   Populate  populate_query_from_mql_context (module MQLContext)          *)
(*   Post      quantiles_to_quantile                                        *)
(*                                                                         *)
(* resolve_mappings only rewrites literals to indexer ids and is left out; *)
(* the generic post-processors and validators are outside the repository. *)
(***************************************************************************)
EXTENDS MQLVisitor, MQLContext, Relation

CONSTANTS
  Contexts   \* the MQL contexts a request may carry

VARIABLES
  phase,     \* "visit", "populate", "post", "done" or "failed"
  dataset,   \* the dataset of the request
  ctx,       \* the MQL context of the request
  plan,      \* the query built so far
  err        \* the exception the compilation ended with, or None

vars == <<visitor_vars, phase, dataset, ctx, plan, err>>

Fail(e) == phase' = "failed" /\ plan' = None /\ err' = e

(* parse_mql_query_body: a visitor exception is re-raised as a            *)
(* ParsingException; a root that is a bare number has no .expression      *)
(* (AttributeError); a formula root is converted to a join, any other     *)
(* root to a one-entity query.                                            *)
ParseBody ==
  /\ phase = "visit"
  /\ verr # None \/ Len(stack) = 1
  /\ LET root == stack[1]
         r == CASE verr # None -> [err |-> ParsingException]
                [] root.kind = "num" -> [err |-> "AttributeError"]
                [] heap[root.id].expression = None /\ heap[root.id].formula = None
                     -> [err |-> ParsingException]
                [] heap[root.id].formula # None -> convert_formula_to_query(heap, root, dataset)
                [] OTHER -> convert_timeseries_to_query(heap, root, dataset)
     IN  IF r.err = None
         THEN phase' = "populate" /\ plan' = r /\ err' = None
         ELSE Fail(r.err)
  /\ UNCHANGED <<visitor_vars, dataset, ctx>>

Populate ==
  /\ phase = "populate"
  /\ LET r == populate_query_from_mql_context(plan, ctx)
     IN  IF r.err = None
         THEN phase' = "post" /\ plan' = r /\ err' = None
         ELSE Fail(r.err)
  /\ UNCHANGED <<visitor_vars, dataset, ctx>>

(* Fault variant: arrays of several quantile levels are unwrapped too.    *)
quantiles_transform_any_levels(e) ==
  IF "agg" \in DOMAIN e /\ e.agg.curried /\ e.agg.agg \in {"quantiles", "quantilesIf"}
     /\ e.agg.nparams >= 1
  THEN [fn |-> "arrayElement", args |-> <<e, [lit |-> 1]>>]
  ELSE e

(* quantiles_to_quantile's transform: quantiles(q)(x) with one level      *)
(* becomes arrayElement(quantiles(q)(x), 1).                              *)
quantiles_transform(e) ==
  IF "agg" \in DOMAIN e /\ e.agg.curried /\ e.agg.agg \in {"quantiles", "quantilesIf"}
     /\ e.agg.nparams = 1
  THEN [fn |-> "arrayElement", args |-> <<e, [lit |-> 1]>>]
  ELSE e

(* Query.transform_expressions: the transform applied bottom-up to every *)
(* sub-expression of a selected column.                                   *)
RECURSIVE transform_expressions(_)
transform_expressions(e) ==
  IF "args" \in DOMAIN e
  THEN quantiles_transform([e EXCEPT !.args = [i \in DOMAIN @ |-> transform_expressions(@[i])]])
  ELSE quantiles_transform(e)

Post ==
  /\ phase = "post"
  /\ phase' = "done"
  /\ plan' = [plan EXCEPT !.selected =
                [i \in DOMAIN @ |-> [@[i] EXCEPT !.expr = transform_expressions(@)]]]
  /\ UNCHANGED <<visitor_vars, dataset, ctx, err>>

Init ==
  /\ VisitorInit
  /\ phase = "visit"
  /\ dataset \in Datasets
  /\ ctx \in Contexts
  /\ plan = None
  /\ err = None

Next ==
  \/ phase = "visit" /\ VisitorNext /\ UNCHANGED <<phase, dataset, ctx, plan, err>>
  \/ ParseBody
  \/ Populate
  \/ Post

Spec == Init /\ [][Next]_vars

-----------------------------------------------------------------------------
(* The objects of the final tree and the plan built from them.             *)

Built == {"populate", "post", "done"}

Leaves == find_all_leaf_nodes(heap, stack[1])

LeafAliases == {heap[Leaves[k]].table_alias : k \in DOMAIN Leaves}

(* The alias a leaf's columns are written against in the plan.            *)
Qualifier(n) == IF plan.kind = "composite" THEN n.table_alias ELSE None

RECURSIVE join_keys(_)
join_keys(c) == IF IsJoinClause(c) THEN Range(c.keys) \cup join_keys(c.left) ELSE {}

(* The aliases that a set of join keys equates on column col.             *)
KeyRelation(keys, col, S) ==
  [x, y \in S |-> \E k \in keys : k.left[2] = col /\ k.right[2] = col
                                  /\ {k.left[1], k.right[1]} = {x, y}]

TypeOK ==
  /\ phase \in {"visit", "populate", "post", "done", "failed"}
  /\ dataset \in Datasets
  /\ ctx \in Contexts
  /\ stack \in Seq([kind : {"num"}, val : Int] \cup [kind : {"node"}, id : DOMAIN heap])
  /\ alias_count \in [DOMAIN alias_count -> Nat]
  /\ steps \in 0..MaxSteps
  /\ verr \in {None, ParsingException, InvalidQueryException}
  /\ err \in {None, ParsingException, InvalidQueryException,
             "IndexError", "AttributeError", "AssertionError"}
  /\ (phase \in Built) <=> (plan # None)
  /\ (phase = "failed") <=> (err # None)

(* Every filter a leaf carries, written inline or pushed down from a      *)
(* formula by visit_filter, is a conjunct of the plan's WHERE clause,     *)
(* qualified by that leaf's alias (spec 4.4 step 6): extract_filters of   *)
(* convert_formula_to_query and convert_timeseries_to_query.              *)
FiltersPreserved ==
  phase \in Built =>
    \A k \in DOMAIN Leaves :
      LET n == heap[Leaves[k]] IN
      \A i \in DOMAIN n.conditions :
        [table |-> Qualifier(n), cond |-> n.conditions[i]] \in plan.conditions

(* The plan reads from exactly one source per leaf of the formula: the    *)
(* join's aliases are the leaves' aliases, pairwise distinct, each bound  *)
(* to the entity of its own MRI; a one-entity plan has one leaf and reads *)
(* its entity.  It rests on _generate_table_alias's per-character counter *)
(* and on build_join_clause consuming every leaf.                         *)
SourcesMatchLeaves ==
  phase \in Built =>
    IF plan.kind = "composite"
    THEN /\ Cardinality(LeafAliases) = Len(Leaves)
         /\ alias_node_map(plan.from)
              = [a \in LeafAliases |->
                   select_entity(heap[CHOOSE id \in Range(Leaves) : heap[id].table_alias = a].mri,
                                 dataset)]
    ELSE /\ Len(Leaves) = 1
         /\ plan.from = select_entity(heap[Leaves[1]].mri, dataset)

(* In a join, every group-by column links all the aliases: the join keys  *)
(* on that column connect the join graph, so no pair of subqueries is     *)
(* crossed on it (build_join_clause links each leaf to its predecessor).  *)
(* Every key names aliases of the join.                                   *)
JoinKeysConnectLeaves ==
  phase \in Built /\ plan.kind = "composite" =>
    LET S    == DOMAIN alias_node_map(plan.from)
        keys == join_keys(plan.from)
    IN  /\ \A k \in keys : k.left[1] \in S /\ k.right[1] \in S
        /\ \A col \in Range(heap[Leaves[1]].groupby) :
             IsConnected(KeyRelation(keys, col, S), S)

(* When the query buckets time, the time buckets of all the joined        *)
(* subqueries are equated, so rows of different buckets are never joined *)
(* (populate_query_from_mql_context's fix-up after the loop).             *)
TimeBucketsJoined ==
  phase \in {"post", "done"} /\ plan.kind = "composite" /\ ctx.interval \notin {None, 0} =>
    LET S == DOMAIN alias_node_map(plan.from)
    IN  IsConnected(KeyRelation(join_keys(plan.from), "time", S), S)

(* The sources of the populated plan: the aliases of a join, or None for  *)
(* the one entity of a plain query.                                      *)
PlanAliases == IF plan.kind = "composite" THEN DOMAIN alias_node_map(plan.from) ELSE {None}

(* Every source the plan reads is restricted to the request's tenant,    *)
(* time range and granularity: each alias of a join, or the one entity,  *)
(* carries project_id IN, org_id IN and use_case_id = of the scope,      *)
(* timestamp >= start and < end, and granularity = of the rollup (the     *)
(* per-alias loop of populate_query_from_mql_context, spec 4.5).  A      *)
(* subquery the loop missed would read the rows of every tenant.          *)
EverySourceScoped ==
  phase \in {"post", "done"} =>
    \A a \in PlanAliases :
      {[table |-> a, cond |-> c] :
         c \in {[fn |-> "in", col |-> "project_id", tuple |-> ctx.scope.project_ids],
                [fn |-> "in", col |-> "org_id", tuple |-> ctx.scope.org_ids],
                [fn |-> "equals", col |-> "use_case_id", lit |-> ctx.scope.use_case_id],
                [fn |-> "greaterOrEquals", col |-> "timestamp", lit |-> DateTimes[ctx.start]],
                [fn |-> "less", col |-> "timestamp", lit |-> DateTimes[ctx.end]],
                [fn |-> "equals", col |-> "granularity", lit |-> ctx.granularity]}}
        \subseteq plan.conditions

IsTimeBucket(e) == "col" \in DOMAIN e /\ e.col = TimeBucket

(* With a bucketing interval, the time bucket of every source is grouped *)
(* by and selected exactly once, after the query's own columns, and the  *)
(* plan is ordered ascending on one of them; without one, no time column *)
(* appears.  The per-alias loop of populate_query_from_mql_context       *)
(* re-reads the select list and group-by on every iteration and lets the *)
(* last alias's order overwrite the earlier ones.                         *)
TimeColumnPerAlias ==
  phase \in {"post", "done"} =>
    LET buckets == {[table |-> a, col |-> TimeBucket] : a \in PlanAliases}
        sel     == [i \in DOMAIN plan.selected |-> plan.selected[i].expr]
        EndsWithBuckets(s) ==
          LET k == Len(s) - Cardinality(buckets) IN
          /\ k >= 0
          /\ \A i \in 1..k : ~IsTimeBucket(s[i])
          /\ {s[i] : i \in k+1..Len(s)} = buckets
        NoBucket(s) == \A i \in DOMAIN s : ~IsTimeBucket(s[i])
    IN  IF ctx.interval \notin {None, 0}
        THEN /\ EndsWithBuckets(plan.groupby)
             /\ EndsWithBuckets(sel)
             /\ plan.orderby \in {<<[dir |-> "ASC", expr |-> b]>> : b \in buckets}
        ELSE NoBucket(plan.groupby) /\ NoBucket(sel)

(* The aggregates a selected expression reads, left to right.             *)
RECURSIVE AggregatesRead(_)
AggregatesRead(e) ==
  CASE "agg" \in DOMAIN e  -> <<e>>
    [] "args" \in DOMAIN e -> FlattenSeq([i \in DOMAIN e.args |-> AggregatesRead(e.args[i])])
    [] OTHER               -> <<>>

(* The value column of the plan reads, in formula order, exactly one      *)
(* aggregate per leaf: that leaf's aggregate over the subquery of its own *)
(* alias (extract_expression and alias_wrap of convert_formula_to_query). *)
(* An aggregate left unqualified, or qualified by another leaf's alias,   *)
(* computes the wrong metric in a join.                                   *)
ValueReadsEachLeaf ==
  phase \in Built =>
    AggregatesRead(plan.selected[1].expr)
      = [k \in DOMAIN Leaves |->
           LET x == heap[Leaves[k]].expression IN
           [agg |-> [agg |-> x.agg, curried |-> x.curried, nparams |-> x.nparams],
            table |-> Qualifier(heap[Leaves[k]])]]

(* Every compilation that fails ends with one of the two exceptions the   *)
(* caller maps to a client error (spec 7: syntax or semantic error).      *)
ErrorsAreSemantic ==
  err \in {None, ParsingException, InvalidQueryException}

(* Every metric written in the query is compiled: each leaf the visitor   *)
(* made is a leaf of the tree the plan is built from.                     *)
EveryMetricCompiled ==
  phase \in Built =>
    \A i \in DOMAIN heap : heap[i].expression # None => i \in Range(Leaves)

(* The aggregate is quantiles(q)(x) with a single level q.                *)
IsSingleQuantiles(a) == a.curried /\ a.agg \in {"quantiles", "quantilesIf"} /\ a.nparams = 1

RECURSIVE ScalarShape(_, _)
ScalarShape(e, first_of_array_element) ==
  CASE "agg" \in DOMAIN e -> (IsSingleQuantiles(e.agg) <=> first_of_array_element)
    [] "args" \in DOMAIN e ->
         \A i \in DOMAIN e.args : ScalarShape(e.args[i], e.fn = "arrayElement" /\ i = 1)
    [] OTHER -> TRUE

(* After post-processing, wherever a selected expression of a plain or a  *)
(* formula query reads a single-level quantiles(q)(x) it reads it through *)
(* arrayElement(.., 1), and only those: a quantiles with several levels   *)
(* stays an array (quantiles_to_quantile, spec 4.6 and 8).                *)
QuantilesUnwrapped ==
  phase = "done" => \A i \in DOMAIN plan.selected : ScalarShape(plan.selected[i].expr, FALSE)

(* Every by (..) written for a metric, on the metric itself, inside an    *)
(* arbitrary function or on a formula around it, is a column of the       *)
(* plan's group-by under that metric's alias: the spec (4.1) says a leaf  *)
(* accumulates its group-bys, appended and never replaced.                *)
GroupBysPreserved ==
  phase \in Built =>
    \A w \in by_written :
      w[1] \in Range(Leaves) =>
        [table |-> Qualifier(heap[w[1]]), col |-> w[2]] \in Range(plan.groupby)
-----------------------------------------------------------------------------
(* Refinement: the pipeline implements MQLCompile.  The abstract query is *)
(* every metric occurrence the visitor made, in the order written, and    *)
(* whether the visit raised; the decision is the phase; the sources are   *)
(* the plan's from clause, the restrictions its filter conditions and the *)
(* paging its limit and offset, once the plan is complete.               *)

MetricIds == SelectSeq([i \in DOMAIN heap |-> i], LAMBDA i : heap[i].expression # None)

AbsQuery ==
  [well_formed |-> verr = None,
   metrics |-> [k \in DOMAIN MetricIds |->
                  [mri |-> heap[MetricIds[k]].mri, alias |-> heap[MetricIds[k]].table_alias,
                   groupby |-> heap[MetricIds[k]].groupby,
                   filters |-> Range(heap[MetricIds[k]].conditions)]]]

AbsOutcome ==
  CASE phase \in {"visit", "populate"} -> "open"
    [] phase \in {"post", "done"}      -> "accepted"
    [] OTHER                           -> "rejected"

AbsSources ==
  IF phase \in {"post", "done"}
  THEN IF plan.kind = "composite" THEN alias_node_map(plan.from)
       ELSE heap[Leaves[1]].table_alias :> plan.from
  ELSE <<>>

(* The filters on an alias are the plan's conditions of the filter shape *)
(* qualified by it; the metric-id condition is told apart by its tag.    *)
AbsRestrictions ==
  IF phase \in {"post", "done"}
  THEN [a \in DOMAIN AbsSources |->
          LET fs == {c.cond : c \in {c \in plan.conditions :
                                      /\ c.table = IF plan.kind = "composite" THEN a ELSE None
                                      /\ "tag" \in DOMAIN c.cond}}
          IN  [metric_ids |-> {c.val : c \in {c \in fs : c.tag = "metric_id"}},
               filters    |-> {c \in fs : c.tag # "metric_id"}]]
  ELSE <<>>

(* An offset left unset reads from the first row.                          *)
AbsPaging ==
  IF phase \in {"post", "done"}
  THEN [limit |-> plan.limit, offset |-> IF plan.offset = None THEN 0 ELSE plan.offset]
  ELSE None

Compile == INSTANCE MQLCompile WITH query <- AbsQuery, outcome <- AbsOutcome,
                                    sources <- AbsSources, restrictions <- AbsRestrictions,
                                    paging <- AbsPaging

(* The compiler accepts exactly the queries the spec calls valid, each    *)
(* plan reading every metric from its entity under its alias, filtered   *)
(* on that metric and its own filters only, and returning the requested *)
(* page, and a                                                            *)
(* decision is never revised (parse_mql_query_new against spec 4.3-4.5   *)
(* and 7).                                                                *)
CompileRefinement == Compile!Spec
=============================================================================
