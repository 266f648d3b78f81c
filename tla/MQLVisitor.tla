----------------------------- MODULE MQLVisitor -----------------------------
(***************************************************************************)
(* MQLVisitor of src/snuba/query/mql/parser_supported_join.py: the         *)
(* parsimonious NodeVisitor that turns the raw MQL parse tree into a tree  *)
(* of InitialParseResult nodes.                                            *)
(*                                                                         *)
(* parsimonious visits a node after its children, left to right, so the   *)
(* handler calls of one query are a post-order walk of its parse tree.    *)
(* The model is that walk: every step is one handler call, and the query  *)
(* text is chosen one grammar rule at a time.  The values the handlers     *)
(* return to their parent live on `stack`; the InitialParseResult objects, *)
(* which handlers mutate in place (pushdown), live in `heap`.              *)
(*                                                                         *)
(* The grammar (snuba_sdk MQL_GRAMMAR) is not part of the repository; the *)
(* shapes of the raw tree follow the grammar summary of the spec:         *)
(*   expr := term (("+"|"-") term)*                                        *)
(*   term := unary (("*"|"/") unary)*                                      *)
(*   unary := -? coefficient      coefficient := number | target          *)
(*   target := aggregate | curried_aggregate | arbitrary_function          *)
(*             | curried_arbitrary_function | "(" expr ")" filter? by?     *)
(*   an arbitrary function f(agg(mri){filter} by (..), params) by (..)    *)
(***************************************************************************)
EXTENDS MQLCommon, TLC, Functions

CONSTANTS
  AggregateNames,  \* names of plain aggregates, e.g. "sum"
  CurriedAggregates, \* <<name, number of parameters>> of curried aggregates
  ArbitraryFunctions, \* <<name, curried?>> of functions wrapping an aggregate
  Numbers,         \* numeric literals that may occur in a query
  FilterChoices,   \* conditions a {...} filter block may compile to
  GroupByChoices,  \* column lists a by (...) clause may name
  ExprOps,         \* operator names of + and -
  TermOps,         \* operator names of * and /
  MaxOthers,       \* most repetitions of (op operand) in one expr or term
  MaxSteps         \* bound on the handler calls of one query

ASSUME MaxOthers \in Nat \ {0} /\ MaxSteps \in Nat

VARIABLES
  stack,        \* values returned by the visited children, top last
  heap,         \* InitialParseResult objects, by identity
  alias_count,  \* MQLVisitor.alias_count: type character -> last suffix
  steps,        \* handler calls so far
  verr,         \* exception raised by a handler, or None
  by_written    \* ghost: <<object, column>> for every by (..) written for it

visitor_vars == <<stack, heap, alias_count, steps, verr, by_written>>

(* A value a handler returns: a number, or a reference to an object.       *)
Num(v) == [kind |-> "num", val |-> v]
Ref(i) == [kind |-> "node", id |-> i]

(* InitialParseResult(mri=..., table_alias=...) with its expression set.   *)
Leaf(expression, mri, alias) ==
  [expression |-> expression, formula |-> None, parameters |-> <<>>,
   groupby |-> <<>>, conditions |-> <<>>, mri |-> mri, table_alias |-> alias]

(* The selected aggregate name(value) or name(params)(value); `wrap` is    *)
(* the arbitrary function around it, if any.                              *)
Aggregate(name) == [agg |-> name, curried |-> FALSE, nparams |-> 0, wrap |-> None]
CurriedAggregate(name, nparams) == [agg |-> name, curried |-> TRUE, nparams |-> nparams, wrap |-> None]

(* InitialParseResult(expression=None, formula=op, parameters=ps).         *)
FormulaNode(op, ps) ==
  [expression |-> None, formula |-> op, parameters |-> ps,
   groupby |-> <<>>, conditions |-> <<>>, mri |-> None, table_alias |-> None]

(* A filter factor tag:value, !tag:value, tag:[..] or !tag:[..].           *)
visit_filter_factor(negated, tag, is_list) ==
  [fn |-> CASE ~is_list /\ ~negated -> "equals"
            [] ~is_list /\ negated  -> "notEquals"
            [] is_list /\ ~negated  -> "in"
            [] is_list /\ negated   -> "notIn",
   tag |-> tag, val |-> None, args |-> <<>>]

(* _filter: one factor stays itself, several are flattened into a single *)
(* and/or FunctionCall.                                                   *)
filter_combine(factors, operator) ==
  IF Len(factors) = 1 THEN factors[1]
  ELSE [fn |-> operator, tag |-> "", val |-> None, args |-> factors]

(* Fault variant: the counter is read but the suffix is not advanced.     *)
generate_table_alias_stale(mri) ==
  LET c == MetricType[mri]
  IN  <<c, IF c \in DOMAIN alias_count THEN alias_count[c] ELSE -1>>

(* _generate_table_alias: first character of the MRI and a per-character *)
(* counter that starts at 0; the alias string is kept as the pair.        *)
generate_table_alias(mri) ==
  LET c == MetricType[mri]
  IN  <<c, (IF c \in DOMAIN alias_count THEN alias_count[c] ELSE -1) + 1>>

(* The query text is complete only when it reduces to one value; a step   *)
(* is taken only if the rest of the bound can still close the text.       *)
Completable(len) ==
  /\ len >= 1
  /\ len - 1 <= (MaxSteps - (steps + 1)) * MaxOthers

CanVisit == verr = None /\ steps < MaxSteps

Top == stack[Len(stack)]

(* visit_quoted_mri / visit_unquoted_mri followed by visit_aggregate:      *)
(* agg(mri) becomes a leaf with a fresh alias and agg(value) selected.     *)
VisitAggregate(name, mri) ==
  LET a == generate_table_alias(mri) IN
  /\ CanVisit /\ Completable(Len(stack) + 1)
  /\ heap' = Append(heap, Leaf(Aggregate(name), mri, a))
  /\ stack' = Append(stack, Ref(Len(heap) + 1))
  /\ alias_count' = (a[1] :> a[2]) @@ alias_count
  /\ steps' = steps + 1
  /\ UNCHANGED <<verr, by_written>>

(* visit_curried_aggregate: name(p1,..)(mri), e.g. quantiles(0.5)(mri).    *)
VisitCurriedAggregate(name, nparams, mri) ==
  LET a == generate_table_alias(mri) IN
  /\ CanVisit /\ Completable(Len(stack) + 1)
  /\ heap' = Append(heap, Leaf(CurriedAggregate(name, nparams), mri, a))
  /\ stack' = Append(stack, Ref(Len(heap) + 1))
  /\ alias_count' = (a[1] :> a[2]) @@ alias_count
  /\ steps' = steps + 1
  /\ UNCHANGED <<verr, by_written>>

(* visit_number.                                                          *)
VisitNumber(v) ==
  /\ CanVisit /\ Completable(Len(stack) + 1)
  /\ stack' = Append(stack, Num(v))
  /\ steps' = steps + 1
  /\ UNCHANGED <<heap, alias_count, verr, by_written>>

(* visit_unary with a unary minus: a number is negated, a tree is wrapped *)
(* in a negate formula.                                                   *)
VisitUnary ==
  /\ CanVisit /\ Len(stack) >= 1 /\ Completable(Len(stack))
  /\ IF Top.kind = "num"
       THEN /\ stack' = [stack EXCEPT ![Len(stack)] = Num(-Top.val)]
            /\ UNCHANGED heap
       ELSE /\ heap' = Append(heap, FormulaNode("negate", <<Top>>))
            /\ stack' = [stack EXCEPT ![Len(stack)] = Ref(Len(heap) + 1)]
  /\ steps' = steps + 1
  /\ UNCHANGED <<alias_count, verr, by_written>>

(* The leaves reached by pushdown_values from a parameter: a formula is   *)
(* transparent, numbers are left alone.                                   *)
RECURSIVE pushdown_targets(_, _)
pushdown_targets(h, item) ==
  IF item.kind = "num" THEN {}
  ELSE IF h[item.id].formula # None
       THEN UNION {pushdown_targets(h, h[item.id].parameters[i])
                     : i \in DOMAIN h[item.id].parameters}
       ELSE {item.id}

(* The objects a filter block attaches to: every leaf under a formula,    *)
(* or the target itself.                                                  *)
filter_targets(h, id) ==
  IF h[id].formula # None
  THEN UNION {pushdown_targets(h, h[id].parameters[i]) : i \in DOMAIN h[id].parameters}
  ELSE {id}

(* Conditions and group-bys are appended, never replaced.                 *)
attach(n, cond, groupby) ==
  [n EXCEPT !.conditions = IF cond = None THEN @ ELSE Append(@, cond),
            !.groupby = @ \o groupby]

(* visit_filter: target {filter} by (cols).                                *)
VisitFilter(cond, groupby) ==
  /\ CanVisit /\ Len(stack) >= 1 /\ Completable(Len(stack))
  /\ Top.kind = "node"
  /\ cond # None \/ groupby # <<>>
  /\ LET ts == filter_targets(heap, Top.id)
     IN  heap' = [i \in DOMAIN heap |->
                    IF i \in ts THEN attach(heap[i], cond, groupby) ELSE heap[i]]
     /\ by_written' = by_written \cup (ts \X Range(groupby))
  /\ steps' = steps + 1
  /\ UNCHANGED <<stack, alias_count, verr>>

(* visit_expression / visit_term: the children are the first operand and *)
(* the list of (op, operand) repetitions; only the first repetition is    *)
(* read (zero_or_more_others[0]).  k is the number of repetitions.        *)
ArithStep(op, k) ==
  LET n     == Len(stack)
      first == stack[n - k]
      other == stack[n - k + 1]
  IN
  /\ CanVisit /\ n >= k + 1 /\ Completable(n - k)
  /\ heap' = Append(heap, FormulaNode(op, <<first, other>>))
  /\ stack' = Append(SubSeq(stack, 1, n - k - 1), Ref(Len(heap) + 1))
  /\ steps' = steps + 1
  /\ UNCHANGED <<alias_count, verr, by_written>>

VisitExpression(op, k) == op \in ExprOps /\ ArithStep(op, k)
VisitTerm(op, k) == op \in TermOps /\ ArithStep(op, k)

(* visit_nested_expression then visit_target: "(" expr ")" as a target   *)
(* returns the inner value, and visit_target asserts it is an            *)
(* InitialParseResult; a number in parentheses fails the assert, which   *)
(* parse_mql_query_body re-raises as a ParsingException.  Parentheses    *)
(* around an object change nothing.                                      *)
VisitNestedNumber ==
  /\ CanVisit /\ Len(stack) >= 1 /\ Top.kind = "num"
  /\ verr' = ParsingException
  /\ steps' = steps + 1
  /\ UNCHANGED <<stack, heap, alias_count, by_written>>

(* visit_variable: $var raises InvalidQueryException.                     *)
VisitVariable ==
  /\ CanVisit
  /\ verr' = InvalidQueryException
  /\ steps' = steps + 1
  /\ UNCHANGED <<stack, heap, alias_count, by_written>>

(* visit_quoted_public_name / visit_unquoted_public_name: a display name   *)
(* instead of an MRI raises ParsingException.                             *)
VisitPublicName ==
  /\ CanVisit
  /\ verr' = ParsingException
  /\ steps' = steps + 1
  /\ UNCHANGED <<stack, heap, alias_count, by_written>>

(* visit_inner_filter: the filter and group-by inside an arbitrary        *)
(* function's parentheses replace the aggregate's own.                    *)
inner_filter(n, cond, groupby) ==
  [n EXCEPT !.conditions = IF cond = None THEN @ ELSE <<cond>>,
            !.groupby = IF groupby = <<>> THEN @ ELSE groupby]

(* visit_arbitrary_function / visit_curried_arbitrary_function: the       *)
(* aggregate is wrapped in f(aggregate, params) or f(..)(aggregate, ..).  *)
arbitrary_function(n, f) == [n EXCEPT !.expression.wrap = [fn |-> f[1], curried |-> f[2]]]

(* visit_function: a by (..) after a function replaces its group-by.       *)
visit_function(n, groupby) == IF groupby = <<>> THEN n ELSE [n EXCEPT !.groupby = groupby]

(* The handler calls of one arbitrary function, which run back to back on *)
(* an object no other handler sees: visit_*_mri, visit_aggregate or       *)
(* visit_curried_aggregate, visit_inner_filter, the arbitrary function    *)
(* handler and visit_function.  A plain arbitrary function asserts that   *)
(* its aggregate is a FunctionCall, so a curried aggregate fails the      *)
(* assert (an AssertionError, which parse_mql_query_body re-raises as a   *)
(* ParsingException).                                                     *)
VisitArbitraryFunction(f, x, mri, cond, inner_gb, outer_gb) ==
  LET a    == generate_table_alias(mri)
      id   == Len(heap) + 1
      leaf == visit_function(arbitrary_function(inner_filter(Leaf(x, mri, a), cond, inner_gb), f),
                             outer_gb)
  IN
  /\ CanVisit /\ Completable(Len(stack) + 1)
  /\ alias_count' = (a[1] :> a[2]) @@ alias_count
  /\ steps' = steps + 1
  /\ IF ~f[2] /\ x.curried
     THEN verr' = ParsingException /\ UNCHANGED <<stack, heap, by_written>>
     ELSE /\ heap' = Append(heap, leaf)
          /\ stack' = Append(stack, Ref(id))
          /\ by_written' = by_written \cup ({id} \X (Range(inner_gb) \cup Range(outer_gb)))
          /\ UNCHANGED verr

(* The aggregates a query may name.                                       *)
AggregateChoices ==
  {Aggregate(n) : n \in AggregateNames} \cup {CurriedAggregate(c[1], c[2]) : c \in CurriedAggregates}

VisitorInit ==
  /\ stack = <<>>
  /\ heap = <<>>
  /\ alias_count = <<>>
  /\ steps = 0
  /\ verr = None
  /\ by_written = {}

VisitorNext ==
  \/ \E name \in AggregateNames, m \in MRIs : VisitAggregate(name, m)
  \/ \E ca \in CurriedAggregates, m \in MRIs : VisitCurriedAggregate(ca[1], ca[2], m)
  \/ \E v \in Numbers : VisitNumber(v)
  \/ VisitUnary
  \/ \E c \in FilterChoices \cup {None}, g \in GroupByChoices \cup {<<>>} : VisitFilter(c, g)
  \/ \E op \in ExprOps, k \in 1..MaxOthers : VisitExpression(op, k)
  \/ \E op \in TermOps, k \in 1..MaxOthers : VisitTerm(op, k)
  \/ \E f \in ArbitraryFunctions, x \in AggregateChoices, m \in MRIs,
       c \in FilterChoices \cup {None}, g1, g2 \in GroupByChoices \cup {<<>>} :
       VisitArbitraryFunction(f, x, m, c, g1, g2)
  \/ VisitNestedNumber
  \/ VisitVariable
  \/ VisitPublicName
=============================================================================
