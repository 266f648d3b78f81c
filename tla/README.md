# TLA+ models of the MQL compiler

This directory holds TLC-checkable TLA+ models of the MQL (metrics query
language) compiler in `src/snuba/query/mql/parser_supported_join.py`. The
compiler turns an MQL string and an MQL context into a Snuba logical query, or
into a composite (join) query.

## Inventory of the repository

| Part | Source | Status |
|---|---|---|
| MQL visitor: parse tree to `InitialParseResult` tree | `parser_supported_join.py` 115-654 | modelled (`MQLVisitor`) |
| entity resolver `select_entity` and the entity tables | 715-726, 998-1009 | modelled (`MQLCommon`) |
| formula and join compiler | 729-955 | modelled (`MQLFormula`) |
| timeseries compiler | 958-995 | modelled (`MQLFormula`) |
| context population | 1174-1248 (loop, time keys, paging); helpers stood in by the uncalled look-alikes 1012-1171 | partly modelled (`MQLContext`) |
| pipeline stages and `quantiles_to_quantile` | 657-712, 1251-1413 | partly modelled (`MQLPipeline`) |
| MQL grammar (`snuba_sdk`) | not in the repository | not modelled |
| query log `snuba/querylog/__init__.py` | telemetry I/O | not modelled |
| admin `tracing.py`: `validate_trace_query`, `run_query_and_get_trace` | 5-28 | modelled (`TraceQuery`) |
| `src/tests/` | test code | not modelled |

## How the parts interact, and how the modules match them

A request runs through these stages:

1. `parse_mql_query_body` parses the text. `MQLVisitor` then builds a tree of
   `InitialParseResult` objects.
2. `convert_formula_to_query` or `convert_timeseries_to_query` builds the plan.
3. `populate_query_from_mql_context` adds the time range, scope, granularity,
   rollup, limit and offset.
4. After the post-processors, `quantiles_to_quantile` unwraps single-level
   quantiles.

The modules:

- **`MQLCommon`** holds the MRIs (model values) and their type character
  (`MetricType`, the `mri[0]` the code reads). It also holds the two entity
  tables and `select_entity`, with `None` standing for the
  `ParsingException` branch.
- **`MQLVisitor`** is a state machine for the visitor.
  - parsimonious calls a handler after the handler's children. The handler
    calls of one query are therefore a post-order walk, and every action is
    one handler call. The query text is chosen one grammar rule at a time,
    bounded by `MaxSteps`.
  - Return values live on `stack`. The `InitialParseResult` objects live in
    `heap`, because `visit_filter`'s `pushdown_values` mutates them in place.
  - `alias_count` is the visitor's per-character counter, and an alias is the
    pair `<<char, suffix>>`.
  - `verr` is the exception a handler raised. `visit_variable` and the
    public-name handlers raise one, and so do the failed asserts of
    `visit_target` (a number in parentheses) and `visit_arbitrary_function`
    (a curried aggregate inside it). `parse_mql_query_body` re-raises each
    of these as a ParsingException.
  - An arbitrary function is a single action, `VisitArbitraryFunction`.
    The handlers it stands for run back to back on an object no other
    handler sees: the MRI, the aggregate, `visit_inner_filter`,
    `visit_(curried_)arbitrary_function` and `visit_function`.
  - `by_written` is a ghost variable. It records every `by (..)` written
    for an object, so the group-by the plan keeps can be compared with what
    the query wrote.
- **`MQLFormula`** holds the plan builders as operators over `heap`.
  - A plan is a record. Its `conditions` field is the set of AND-ed
    conjuncts, each qualified by a table alias. Its `from` is an entity key,
    or a left-deep join clause `[left, right, keys]`.
  - `build_formula_query_from_clause` keeps every exception path: the
    IndexError, the group-by mismatch and the invalid metric type.
- **`MQLContext`** holds `populate_query_from_mql_context`: the per-alias loop
  and the time-key fix-up. The helpers that loop calls
  (`start_end_time_condition`, `scope_conditions`, `rollup_expressions`,
  `limit_value`, `offset_value`) are in `context_population.py`, outside the
  repository. The model stands them in by the look-alike functions of this
  file (`populate_start_end_time`, `populate_scope`, `populate_rollup`,
  `populate_limit`, `populate_offset`), which nothing in the repository
  calls. The properties that rest on them are about the loop, the alias
  qualification and the time keys. No run makes a claim about the live
  helpers' validation rules (zero interval, zero limit), because the
  look-alikes' answer there need not be the live code's.
  - A context condition is a record `[fn, col, lit]`, or `[fn, col, tuple]`
    for an `IN (..)`, qualified by the alias it is added for.
  - `parse_datetime` is the constant function `DateTimes` from the texts it
    accepts to instants. Any other text raises, and the query is rejected
    before the rollup is checked.
- **`MQLPipeline`** composes the stages into phases:
  `visit -> populate -> post -> done`, or `failed`.
  - `ParseBody` includes the error wrapping of lines 676-700. It also
    includes the bare-number AttributeError.
  - `Post` is `quantiles_to_quantile` applied through
    `transform_expressions`.
- **`MQLCompile`** is the abstract specification: what the compiler
  promises, written from the spec (4.3-4.5, 7).
  - While the text is being read, the query may change freely.
  - The compilation is then decided once. It accepts exactly the queries
    that meet all of these:
    - well-formed;
    - at least one metric;
    - every metric has the same group-by list;
    - every metric type exists in the dataset;
    - start and end parse, and the context passes the rollup and paging
      rules.
  - An accepted plan reads each metric from its entity, under its alias.
  - An accepted plan filters each source on its own metric id and on the
    filters written for its metric, and on no other metric's.
  - An accepted plan returns the requested page: the limit given, or 1000
    when none is, and the offset given, or 0.
  - `MQLPipeline` maps its state onto `MQLCompile` with
    `Compile == INSTANCE MQLCompile WITH ...`:
    - the query is the visitor's metric objects, in heap order, with their
      filters, plus whether the visit raised;
    - the outcome comes from the phase;
    - the sources come from the plan's from clause;
    - the restrictions of an alias are the plan's filter-shaped conditions
      qualified by it, with the `metric_id` condition told apart by its tag;
    - the paging comes from the plan's limit and offset. An unset offset
      counts as 0.
- **`TraceQuery`** models the admin trace endpoint. It shares no state
  with the compiler.
  - A text is a sequence of one-character strings. `split`, `join`,
    `lower`, `strip`, `startswith` and `in` are operators that do what the
    Python string methods do.
  - One action, `run_query_and_get_trace(q)`, validates `q`. It then either
    adds `q` to `executed` (the texts sent to the read-only cluster) or
    adds it to `rejected` (the call raised `InvalidCustomQuery`).
  - `MC_TraceQuery` gives twelve texts: `select` and `insert` in lower,
    upper and mixed case, with spaces, tabs and newlines around and inside
    the keywords, with and without `;`, and the empty text.
- **`MC_MQL`** instantiates the model with these values:
  - MRIs: two distribution MRIs `d1`, `d2` and a gauge `g1`. A gauge is
    invalid in the `metrics` dataset.
  - filters: small sets built with the model's own `visit_filter_factor`.
  - group-bys: one group-by column.
  - contexts: a few contexts, with two parseable timestamps an hour apart
    and one unparseable text. The use case is the model value
    `transactions`, because TLC cannot compare a string with the integer
    literals of the other context conditions.

## Runs

| Run | Expect | What it shows |
|---|---|---|
| `core` (`MC_MQL_core.cfg`) | pass | See the list below. |
| `quantiles` | pass | `QuantilesUnwrapped`: exactly the single-level `quantiles` are read through `arrayElement(.., 1)`. This holds in plain queries, in formula queries and inside a curried arbitrary function. The run covers 5 handler calls, with arbitrary functions enabled. |
| `trace` (`MC_TraceQuery.cfg`) | pass | `ExecutesExactlyReads`: whatever the case and spacing of a text, the endpoint executes it exactly when the raw text is one read statement. A read statement begins with `select` after whitespace, has no `;`, and has no six characters spelling `insert` in any case. By this definition, and in the code, a read that mentions a column such as `inserted_at` is refused. The mutant drops the lower-casing. |
| `compound_filter` | violation | `FiltersPreserved` fails on a formula leaf with `{a:1, b:2}`. `extract_filters` drops and/or conditions (line 918). |
| `errors` | violation | `ErrorsAreSemantic` fails: `5` ends in AttributeError and `1 + 2` in IndexError. An arbitrary function inside a formula ends in AssertionError (line 857). Spec 7 says only syntax or semantic errors are surfaced. |
| `chain` | violation | `EveryMetricCompiled` fails for `a + b + c`. Only `zero_or_more_others[0]` is read (lines 133, 157). |
| `refine` | pass | `CompileRefinement`: the pipeline implements `MQLCompile`, paging included. This run has 6 handler calls and six contexts. Four of them must be rejected: bad rollup, negative offset, limit above 10000, and unparseable start. The mutant drops the group-by equality check. |
| `function_groupby` | violation | `GroupBysPreserved` fails: `apdex(sum(d1) by (y)) by (x)` groups by `x` only. `visit_function` (line 346) replaces the group-by instead of appending to it, against spec 4.1. |

The `core` run checks these properties over all queries of up to 6 handler
calls:

- `FiltersPreserved`: every leaf filter reaches the WHERE clause, qualified
  by the leaf's alias.
- `SourcesMatchLeaves`: the join has one distinct alias per leaf, each bound
  to the entity of its MRI.
- `JoinKeysConnectLeaves`: the join keys on every group-by column connect all
  the aliases.
- `TimeBucketsJoined`: with an interval, the time keys connect all the
  aliases.
- `EverySourceScoped`: every source of the populated plan carries these
  conditions, qualified by its own alias:
  - the scope conditions `project_id IN`, `org_id IN` and `use_case_id =`;
  - the `[start, end)` time range;
  - the granularity.
- `ValueReadsEachLeaf`: the value column reads one aggregate per leaf, in
  formula order. Each aggregate is its own leaf's aggregate, over the
  subquery of that leaf's alias. `extract_expression` and `alias_wrap`
  produce the expression, and `find_all_leaf_nodes` gives the order it is
  checked against.

  A join alias that the per-alias loop missed would read every tenant's
  rows.
- `TimeColumnPerAlias`: with an interval, the select list and the group-by
  each end with the time bucket of every source, each exactly once and
  after the query's own columns, and the plan is ordered ascending on one
  of them. Without an interval, no time column appears. The run has one
  context with an interval and one without.

Each property of a passing run has a mutant in `PROJECT.json`: a fault
variant defined next to the operator it replaces. The mutants are a stale
alias counter, unqualified filters, a join chain one leaf short, self-join
keys, a skipped time key, an unqualified aggregate, a loop over the first join alias only, a time
column that replaces the group-by, unwrapping of multi-level quantiles, a
missing group-by equality check, and a trace check without lower-casing. TLC finds
each of them.

## Bounds

- `MaxSteps = 6` and `MaxOthers = 1` in `core`. These admit three-leaf
  formulas, filters pushed down through a formula, group-bys, unary minus,
  numbers, and both error handlers. The `Completable` guard keeps only
  prefixes that can still close into one expression.
- The violation runs use smaller bounds. `chain` sets `MaxOthers = 2` so
  that a repetition list holds two operands.
- `refine` uses the `core` bound with six contexts.
- `errors` includes the curried aggregates, so a `quantiles` inside a plain
  arbitrary function (the assert of line 505) is among its queries.
- `quantiles` uses `MaxSteps = 5`, with two arbitrary functions:
  `apdex`, which is plain, and `topK`, which is curried.
  `function_groupby` uses two group-by columns.
- Two datasets, and a gauge MRI, exercise the invalid-metric-type error.
- The data is abstracted: a filter is a record
  `[fn, tag, val, args]`, an aggregate is its name and curried arity, and a
  column is its name.

## Fairness and liveness

No run checks liveness. `parse_mql_query_new` is one synchronous call with
no loop of its own: every stage runs to its end or raises. In the model
every step raises the bounded `steps` counter or moves the phase forward,
so "eventually decided" would follow from the shape of the model rather
than from the code, and no plausible fault of the code breaks it.

The system stops once a query is done or failed, so the runs set
`CHECK_DEADLOCK FALSE`.

## Not modelled

- The handlers that only return strings, lists or parameters. These are
  the tag keys and values, quoted strings, group-by names, params and
  function names. They are abstracted into the constant choice sets.
- The `refine` run does not include arbitrary functions. In a formula they
  raise an AssertionError, and the `errors` run already shows that; this
  case contradicts the spec, which the abstract module follows.
- The validation rules of the live context helpers (`rollup_expressions`,
  `limit_value`, `offset_value`). Their code is outside the repository; the
  look-alikes in `parser_supported_join.py` treat interval 0 and limit 0
  as unset (lines 1107, 1157), but nothing calls them, so the project
  draws no conclusion from that.
- Where the `by (..)` clauses of a formula are written (line 751). A
  formula-level `by (x)` over a leaf that already has `by (x)` gives that
  leaf `[x, x]`, and the group-by check rejects the query. The spec (4.1,
  4.4) asks for exactly this, and the abstract module reads the group-by
  lists after pushdown, so no property tells a right from a wrong
  accumulation.
- `resolve_mappings`, which rewrites literals only.
- The generic post-processors and validators, which are outside the
  repository.
- The query log (`snuba/querylog/__init__.py`). It records metrics, tags
  and query-log entries for each request. It has no state that the
  compiler or anything else in the repository reads back, so there is
  nothing for a property to be about.
- The `int(org_id)` conversion of `populate_scope`. The model gives the org
  ids as integers, on which the conversion is the identity.
- The stages after `quantiles_to_quantile` in
  `PostProcessAndValidateMQLQuery` (lines 1391-1413). These are the filter
  in select optimizer, the custom processors, the time-condition
  replacement and the validators. Their code is outside the repository.

- The join keys in `MQLCompile`. The invariants `JoinKeysConnectLeaves`
  and `TimeBucketsJoined` state the join-key promise. Restating it in the
  abstract module would check the same thing a second time.
