----------------------------- MODULE MQLContext -----------------------------
(***************************************************************************)
(* Context population of src/snuba/query/mql/parser_supported_join.py:     *)
(* populate_query_from_mql_context adds, for every entity of the plan     *)
(* (one per join alias), the time-range, scope and granularity conditions *)
(* and the rollup's totals, order and time bucket; then it adds the time  *)
(* bucket to the join keys and sets limit and offset.                     *)
(*                                                                         *)
(* The per-alias helpers it calls (rollup_expressions, limit_value,       *)
(* offset_value in snuba/query/mql/context_population.py) are not in the  *)
(* repository.  The same file defines populate_rollup, populate_limit and *)
(* populate_offset, whose validation the spec (4.5) states for the        *)
(* context populator; the model takes its rules from those functions.    *)
(*                                                                         *)
(* The time-range and scope conditions are taken likewise from the twins *)
(* populate_start_end_time and populate_scope.                           *)
(*                                                                         *)
(* A context is a record [start, end, scope, granularity, interval,       *)
(* with_totals, orderby, limit, offset] with None for an absent field.    *)
(* start and end are texts; scope is [project_ids, org_ids, use_case_id]. *)
(***************************************************************************)
EXTENDS MQLFormula

CONSTANTS
  GRANULARITIES_AVAILABLE,  \* snuba.utils.constants, ascending
  MAX_LIMIT,                \* snuba.query.snql.parser.MAX_LIMIT
  DateTimes                 \* the texts parse_datetime accepts -> instant

(* The time bucket toStartOfInterval(timestamp, interval) AS time.         *)
TimeBucket == "toStartOfInterval(timestamp)"

(* binary_condition(fn, Column(column), Literal(value)).                  *)
BinaryCondition(fn, column, value) == [fn |-> fn, col |-> column, lit |-> value]

(* binary_condition(IN, Column(column), FunctionCall("tuple", literals)).  *)
InCondition(column, values) == [fn |-> "in", col |-> column, tuple |-> values]

(* populate_start_end_time: start and end go through parse_datetime,      *)
(* which raises on a text it cannot parse; then timestamp >= start and    *)
(* timestamp < end.  The metrics entities have no required time column    *)
(* of their own, so the column is "timestamp".                            *)
populate_start_end_time(ctx, alias) ==
  IF ctx.start \notin DOMAIN DateTimes \/ ctx.end \notin DOMAIN DateTimes
  THEN [err |-> ParsingException]
  ELSE [err |-> None,
        conditions |->
          {[table |-> alias, cond |-> BinaryCondition("greaterOrEquals", "timestamp", DateTimes[ctx.start])],
           [table |-> alias, cond |-> BinaryCondition("less", "timestamp", DateTimes[ctx.end])]}]

(* populate_scope: project_id IN (..), org_id IN (..), use_case_id = ..    *)
populate_scope(ctx, alias) ==
  {[table |-> alias, cond |-> InCondition("project_id", ctx.scope.project_ids)],
   [table |-> alias, cond |-> InCondition("org_id", ctx.scope.org_ids)],
   [table |-> alias, cond |-> BinaryCondition("equals", "use_case_id", ctx.scope.use_case_id)]}

(* populate_rollup: validation, then the granularity condition, the time *)
(* bucket with its ascending order and the totals flag when an interval  *)
(* is given, or the order on the aggregate otherwise.  `alias` qualifies *)
(* the columns, as rollup_expressions(mql_context, table_alias) does.    *)
populate_rollup(ctx, alias) ==
  LET interval_set == ctx.interval \notin {None, 0}
      time == [table |-> alias, col |-> TimeBucket]
  IN
  IF \/ ctx.granularity \notin {GRANULARITIES_AVAILABLE[i] : i \in DOMAIN GRANULARITIES_AVAILABLE}
     \/ ctx.with_totals \notin {None, "True", "False"}
     \/ ctx.orderby \notin {None, "ASC", "DESC"}
     \/ ctx.interval # None /\ ctx.orderby # None
     \/ interval_set /\ (ctx.interval < GRANULARITIES_AVAILABLE[1]
                         \/ ctx.interval < ctx.granularity)
  THEN [err |-> ParsingException]
  ELSE [err |-> None,
        condition |-> [table |-> alias, cond |-> BinaryCondition("equals", "granularity", ctx.granularity)],
        with_totals |-> interval_set /\ ctx.with_totals = "True",
        orderby |-> CASE interval_set -> <<[dir |-> "ASC", expr |-> time]>>
                      [] ctx.orderby # None
                           -> <<[dir |-> ctx.orderby,
                                 expr |-> [table |-> alias, col |-> AGGREGATE_ALIAS]]>>
                      [] OTHER -> <<>>,
        selected_time |-> IF interval_set THEN [name |-> "time", expr |-> time] ELSE None]

(* populate_limit: 1000 unless a (truthy) limit is given; above MAX_LIMIT *)
(* is an error.                                                           *)
populate_limit(ctx) ==
  CASE ctx.limit \in {None, 0} -> [err |-> None, limit |-> 1000]
    [] ctx.limit > MAX_LIMIT -> [err |-> ParsingException]
    [] OTHER -> [err |-> None, limit |-> ctx.limit]

(* populate_offset: a (truthy) offset must not be negative; a zero or     *)
(* absent one leaves the query's offset unset.                            *)
populate_offset(ctx) ==
  CASE ctx.offset \in {None, 0} -> [err |-> None, offset |-> None]
    [] ctx.offset < 0 -> [err |-> ParsingException]
    [] OTHER -> [err |-> None, offset |-> ctx.offset]

(* Fault variant: a join is populated on its first alias only.            *)
entity_data_first_only(plan) ==
  IF plan.kind = "logical" THEN <<[key |-> plan.from, alias |-> None]>>
  ELSE LET a == alias_order(plan.from)[1]
       IN  <<[key |-> alias_node_map(plan.from)[a], alias |-> a]>>

(* The (entity key, alias) pairs: one unaliased pair for a simple query,  *)
(* one per join node otherwise.                                           *)
entity_data(plan) ==
  IF plan.kind = "logical" THEN <<[key |-> plan.from, alias |-> None]>>
  ELSE LET m == alias_node_map(plan.from)
           as == alias_order(plan.from)
       IN  [i \in DOMAIN as |-> [key |-> m[as[i]], alias |-> as[i]]]

(* Fault variant: the time column replaces the group-by instead of being *)
(* appended to it.                                                        *)
populate_entity_replace_groupby(q, ctx, ed) ==
  LET r == populate_rollup(ctx, ed.alias) IN
  [q EXCEPT
     !.conditions = @ \cup populate_start_end_time(ctx, ed.alias).conditions
                      \cup populate_scope(ctx, ed.alias) \cup {r.condition},
     !.totals = r.with_totals,
     !.orderby = IF r.orderby # <<>> THEN r.orderby ELSE @,
     !.selected = IF r.selected_time # None THEN Append(@, r.selected_time) ELSE @,
     !.groupby = IF r.selected_time # None THEN <<r.selected_time.expr>> ELSE @]

(* One iteration of the loop over entity_data: the time-range, scope and  *)
(* granularity conditions of the alias, then the rollup's totals, order  *)
(* and time column.                                                       *)
populate_entity(q, ctx, ed) ==
  LET r == populate_rollup(ctx, ed.alias) IN
  [q EXCEPT
     !.conditions = @ \cup populate_start_end_time(ctx, ed.alias).conditions
                      \cup populate_scope(ctx, ed.alias) \cup {r.condition},
     !.totals = r.with_totals,
     !.orderby = IF r.orderby # <<>> THEN r.orderby ELSE @,
     !.selected = IF r.selected_time # None THEN Append(@, r.selected_time) ELSE @,
     !.groupby = IF r.selected_time # None THEN Append(@, r.selected_time.expr) ELSE @]

(* Fault variant: the first non-base alias is skipped.                    *)
time_join_keys_skip_first(clause, aliases) ==
  LET base   == clause.right.alias
      others == Tail(SelectSeq(aliases, LAMBDA a : a # base))
  IN  [i \in DOMAIN others |-> [left |-> <<base, "time">>, right |-> <<others[i], "time">>]]

(* The join keys that equate every other alias's time bucket with the     *)
(* base alias, the right node of the outermost join.                      *)
time_join_keys(clause, aliases) ==
  LET base   == clause.right.alias
      others == SelectSeq(aliases, LAMBDA a : a # base)
  IN  [i \in DOMAIN others |-> [left |-> <<base, "time">>, right |-> <<others[i], "time">>]]

(* populate_query_from_mql_context: the populated plan, or [err |-> e].   *)
(* Every context check raises in the first iteration of the loop (the     *)
(* time range is parsed before the rollup is checked), before the limit  *)
(* and offset checks.                                                     *)
populate_query_from_mql_context(plan, ctx) ==
  LET eds  == entity_data(plan)
      q    == FoldLeft(LAMBDA acc, ed : populate_entity(acc, ctx, ed), plan, eds)
      time_found == \E i \in DOMAIN eds : populate_rollup(ctx, eds[i].alias).selected_time # None
      q2   == IF q.kind = "composite" /\ time_found
              THEN [q EXCEPT !.from.keys = @ \o time_join_keys(q.from, [i \in DOMAIN eds |-> eds[i].alias])]
              ELSE q
      l    == populate_limit(ctx)
      o    == populate_offset(ctx)
  IN
  CASE populate_start_end_time(ctx, None).err # None -> [err |-> ParsingException]
    [] populate_rollup(ctx, None).err # None -> [err |-> ParsingException]
    [] l.err # None -> [err |-> ParsingException]
    [] o.err # None -> [err |-> ParsingException]
    [] OTHER -> [q2 EXCEPT !.limit = l.limit, !.offset = o.offset]
=============================================================================
