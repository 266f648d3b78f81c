----------------------------- MODULE MQLFormula -----------------------------
(***************************************************************************)
(* The plan builders of src/snuba/query/mql/parser_supported_join.py:      *)
(* convert_timeseries_to_query for a single leaf, and                     *)
(* build_formula_query_from_clause / convert_formula_to_query, which turn *)
(* a formula tree into a one-entity query or a left-deep inner join.      *)
(*                                                                         *)
(* The operators read the visitor's objects `h` (id -> InitialParseResult) *)
(* and a root value (a number or a reference into h).  A plan is a record *)
(* whose `from` is an entity key or a join clause, whose `conditions` is  *)
(* the set of conjuncts of its WHERE clause (combine_and_conditions and    *)
(* add_condition_to_ast only ever AND), each conjunct qualified by the     *)
(* table alias it is written against (None for an unaliased column).      *)
(***************************************************************************)
EXTENDS MQLCommon, SequencesExt

(* A node of a join: IndividualNode(alias, QueryEntity(key)).              *)
IsJoinClause(x) == "keys" \in DOMAIN x

(* JoinClause.get_alias_node_map: alias -> entity of every node, listed   *)
(* left subtree first (data_source/join.py, outside src/).                 *)
RECURSIVE alias_order(_)
alias_order(c) ==
  IF IsJoinClause(c) THEN alias_order(c.left) \o <<c.right.alias>> ELSE <<c.alias>>

RECURSIVE alias_node_map(_)
alias_node_map(c) ==
  IF IsJoinClause(c) THEN alias_node_map(c.left) @@ (c.right.alias :> c.right.entity)
  ELSE c.alias :> c.entity

(* The metric_id = mri condition every leaf is pinned with.               *)
MetricCondition(mri) == [fn |-> "equals", tag |-> "metric_id", val |-> mri, args |-> <<>>]

(* extract_filters keeps a condition only when its first parameter is a   *)
(* Column: a single comparison; an and/or of several is not.              *)
HasColumnLhs(c) == c.fn \in {"equals", "notEquals", "in", "notIn"}

(* find_all_leaf_nodes: the leaves of a formula tree, left to right;       *)
(* numbers give None and are skipped by the caller.                       *)
RECURSIVE find_all_leaf_nodes(_, _), leaves_of_params(_, _)
find_all_leaf_nodes(h, item) ==
  IF item.kind = "num" THEN <<>>
  ELSE IF h[item.id].formula = None THEN <<item.id>>
  ELSE leaves_of_params(h, h[item.id].parameters)
leaves_of_params(h, ps) ==
  IF ps = <<>> THEN <<>>
  ELSE find_all_leaf_nodes(h, Head(ps)) \o leaves_of_params(h, Tail(ps))

(* build_node: the leaf's alias and the entity of its MRI.                 *)
build_node(h, id, dataset) ==
  [alias |-> h[id].table_alias, entity |-> select_entity(h[id].mri, dataset)]

(* Fault variants of build_join_clause: the chain stops one leaf early;   *)
(* the keys equate the new leaf with itself.                              *)
RECURSIVE build_join_clause_short(_, _, _, _)
build_join_clause_short(h, prev, ids, dataset) ==
  LET lhs  == build_node(h, Head(ids), dataset)
      gb   == h[Head(ids)].groupby
  IN  [left  |-> IF Len(ids) > 2 THEN build_join_clause_short(h, lhs, Tail(ids), dataset)
                 ELSE lhs,
       right |-> prev,
       keys  |-> [i \in DOMAIN gb |-> [left |-> <<lhs.alias, gb[i]>>, right |-> <<prev.alias, gb[i]>>]]]

RECURSIVE build_join_clause_self_keys(_, _, _, _)
build_join_clause_self_keys(h, prev, ids, dataset) ==
  LET lhs  == build_node(h, Head(ids), dataset)
      gb   == h[Head(ids)].groupby
  IN  [left  |-> IF Len(ids) > 1 THEN build_join_clause_self_keys(h, lhs, Tail(ids), dataset)
                 ELSE lhs,
       right |-> prev,
       keys  |-> [i \in DOMAIN gb |-> [left |-> <<lhs.alias, gb[i]>>, right |-> <<lhs.alias, gb[i]>>]]]

(* build_join_clause: leaf ids[1] joins prev on every group-by column,    *)
(* and the rest of the chain becomes its left side.                       *)
RECURSIVE build_join_clause(_, _, _, _)
build_join_clause(h, prev, ids, dataset) ==
  LET lhs  == build_node(h, Head(ids), dataset)
      gb   == h[Head(ids)].groupby
      keys == [i \in DOMAIN gb |-> [left |-> <<lhs.alias, gb[i]>>,
                                    right |-> <<prev.alias, gb[i]>>]]
  IN  [left  |-> IF Len(ids) > 1 THEN build_join_clause(h, lhs, Tail(ids), dataset)
                 ELSE lhs,
       right |-> prev,
       keys  |-> keys]

(* Fault variant: the group-by equality check is missing.               *)
build_formula_query_from_clause_no_groupby_check(h, root, dataset) ==
  LET ids == find_all_leaf_nodes(h, root)
  IN
  CASE ids = <<>> -> [err |-> "IndexError"]
    [] \E i \in DOMAIN ids : select_entity(h[ids[i]].mri, dataset) = None
         -> [err |-> ParsingException]
    [] Len(ids) = 1
         -> [err |-> None, kind |-> "logical", nodes |-> ids,
             from |-> select_entity(h[ids[1]].mri, dataset)]
    [] OTHER
         -> [err |-> None, kind |-> "composite", nodes |-> ids,
             from |-> build_join_clause(h, build_node(h, ids[1], dataset), Tail(ids), dataset)]

(* build_formula_query_from_clause: the from clause and the leaf list, or *)
(* the exception it raises.  join_nodes[0] on an empty list is an         *)
(* IndexError.                                                            *)
build_formula_query_from_clause(h, root, dataset) ==
  LET ids == find_all_leaf_nodes(h, root)
  IN
  CASE ids = <<>> -> [err |-> "IndexError"]
    [] \E i \in DOMAIN ids : h[ids[i]].groupby # h[ids[1]].groupby
         -> [err |-> InvalidQueryException]
    [] \E i \in DOMAIN ids : select_entity(h[ids[i]].mri, dataset) = None
         -> [err |-> ParsingException]
    [] Len(ids) = 1
         -> [err |-> None, kind |-> "logical", nodes |-> ids,
             from |-> select_entity(h[ids[1]].mri, dataset)]
    [] OTHER
         -> [err |-> None, kind |-> "composite", nodes |-> ids,
             from |-> build_join_clause(h, build_node(h, ids[1], dataset), Tail(ids), dataset)]

(* The selected aggregate over the value column qualified by `table`,     *)
(* inside the arbitrary function that wraps it, if any.                   *)
AggregateExpression(x, table) ==
  LET agg == [agg |-> [agg |-> x.agg, curried |-> x.curried, nparams |-> x.nparams],
              table |-> table]
  IN  IF x.wrap = None THEN agg ELSE [fn |-> x.wrap.fn, args |-> <<agg, [lit |-> "param"]>>]

(* Fault variant: a leaf's aggregate keeps an unqualified column.         *)
RECURSIVE extract_expression_unaliased(_, _, _)
extract_expression_unaliased(h, item, aliased) ==
  IF item.kind = "num" THEN [lit |-> item.val]
  ELSE LET n == h[item.id] IN
    IF n.expression # None
    THEN AggregateExpression(n.expression, None)
    ELSE [fn |-> n.formula,
          args |-> [i \in DOMAIN n.parameters |-> extract_expression_unaliased(h, n.parameters[i], aliased)]]

(* extract_expression: numbers become literals, a leaf its aggregate over *)
(* a value column qualified by the alias (alias_wrap drops it in a        *)
(* one-entity query), a formula the call of its operator.                 *)
RECURSIVE extract_expression(_, _, _)
extract_expression(h, item, aliased) ==
  IF item.kind = "num" THEN [lit |-> item.val]
  ELSE LET n == h[item.id] IN
    IF n.expression # None
    THEN AggregateExpression(n.expression, IF aliased THEN n.table_alias ELSE None)
    ELSE [fn |-> n.formula,
          args |-> [i \in DOMAIN n.parameters |-> extract_expression(h, n.parameters[i], aliased)]]

(* Fault variant: the conditions are not qualified by the leaf's alias.   *)
RECURSIVE extract_filters_unqualified(_, _, _)
extract_filters_unqualified(h, item, aliased) ==
  IF item.kind = "num" THEN {}
  ELSE LET n == h[item.id] IN
       IF n.expression # None
       THEN {[table |-> None, cond |-> n.conditions[i]] : i \in {j \in DOMAIN n.conditions : HasColumnLhs(n.conditions[j])}}
              \cup {[table |-> None, cond |-> MetricCondition(n.mri)]}
       ELSE UNION {extract_filters_unqualified(h, n.parameters[i], aliased) : i \in DOMAIN n.parameters}

(* extract_filters: the conditions of every leaf under item, qualified by *)
(* its alias, and its metric_id condition.                                *)
RECURSIVE extract_filters(_, _, _)
extract_filters(h, item, aliased) ==
  IF item.kind = "num" THEN {}
  ELSE LET n == h[item.id]
           t == IF aliased THEN n.table_alias ELSE None
       IN
       IF n.expression # None
       THEN {[table |-> t, cond |-> n.conditions[i]] : i \in {j \in DOMAIN n.conditions : HasColumnLhs(n.conditions[j])}}
              \cup {[table |-> t, cond |-> MetricCondition(n.mri)]}
       ELSE UNION {extract_filters(h, n.parameters[i], aliased) : i \in DOMAIN n.parameters}

(* The group-by of every leaf, qualified by its alias, in leaf order.     *)
hoisted_groupby(h, ids, aliased) ==
  FlattenSeq([k \in DOMAIN ids |->
    LET n == h[ids[k]] IN
    [i \in DOMAIN n.groupby |-> [table |-> IF aliased THEN n.table_alias ELSE None,
                                 col |-> n.groupby[i]]]])

EmptyPlan(kind, from) ==
  [err |-> None, kind |-> kind, from |-> from, selected |-> <<>>, groupby |-> <<>>,
   conditions |-> {}, orderby |-> <<>>, totals |-> FALSE, limit |-> None, offset |-> None]

(* convert_formula_to_query: the plan of a formula, or [err |-> e].  A    *)
(* leaf wrapped in an arbitrary function has no Column as its aggregate's *)
(* first parameter, and extract_expression's assert fails.                *)
convert_formula_to_query(h, root, dataset) ==
  LET b == build_formula_query_from_clause(h, root, dataset)
  IN
  IF b.err # None THEN b
  ELSE IF \E k \in DOMAIN b.nodes : h[b.nodes[k]].expression.wrap # None
  THEN [err |-> "AssertionError"]
  ELSE
    LET aliased == b.kind = "composite"
        n       == h[root.id]
        gb      == hoisted_groupby(h, b.nodes, aliased)
    IN [EmptyPlan(b.kind, b.from) EXCEPT
          !.selected = <<[name |-> AGGREGATE_ALIAS,
                          expr |-> [fn |-> n.formula,
                                    args |-> [i \in DOMAIN n.parameters |->
                                                extract_expression(h, n.parameters[i], aliased)]]]>>
                       \o [i \in DOMAIN gb |-> [name |-> gb[i].col, expr |-> gb[i]]],
          !.groupby = gb,
          !.conditions = UNION {extract_filters(h, n.parameters[i], aliased) : i \in DOMAIN n.parameters}]

(* convert_timeseries_to_query: a single leaf, all its conditions kept.   *)
convert_timeseries_to_query(h, root, dataset) ==
  LET n  == h[root.id]
      e  == select_entity(n.mri, dataset)
      gb == [i \in DOMAIN n.groupby |-> [table |-> None, col |-> n.groupby[i]]]
  IN
  IF e = None THEN [err |-> ParsingException]
  ELSE [EmptyPlan("logical", e) EXCEPT
          !.selected = <<[name |-> AGGREGATE_ALIAS, expr |-> AggregateExpression(n.expression, None)]>>
                       \o [i \in DOMAIN gb |-> [name |-> gb[i].col, expr |-> gb[i]]],
          !.groupby = gb,
          !.conditions = {[table |-> None, cond |-> MetricCondition(n.mri)]}
                         \cup {[table |-> None, cond |-> n.conditions[i]] : i \in DOMAIN n.conditions}]
=============================================================================
