------------------------------- MODULE MC_MQL -------------------------------
(***************************************************************************)
(* Model values and bounds for checking MQLPipeline with TLC.              *)
(*                                                                         *)
(* Three metrics: two distributions (same type character, so the alias    *)
(* counter must tell them apart) and one gauge, which only the generic    *)
(* metrics dataset resolves.                                              *)
(***************************************************************************)
EXTENDS MQLPipeline

CONSTANTS d1, d2, g1, transactions

MC_MRIs == {d1, d2, g1}
MC_MetricType == [m \in MC_MRIs |-> IF m = g1 THEN "g" ELSE "d"]

(* Filter blocks {t:"v"}, {t:["v","w"]} and {t:"v", !t:"w"}.               *)
Eq  == visit_filter_factor(FALSE, "t", FALSE)
In  == visit_filter_factor(FALSE, "t", TRUE)
Neq == visit_filter_factor(TRUE, "t", FALSE)
MC_AtomicFilters == {Eq, In}
MC_OneFilter == {Eq}
MC_AllFilters == {Eq, filter_combine(<<Eq, Neq>>, "and")}

MC_Granularities == <<60, 3600>>

MC_CurriedAggregates == {<<"quantiles", 1>>, <<"quantiles", 2>>}
MC_ArbitraryFunctions == {<<"apdex", FALSE>>, <<"topK", TRUE>>}
MC_NoFunctions == {} \cap MC_ArbitraryFunctions
MC_NoCurried == {} \cap MC_CurriedAggregates
MC_GroupBys == {<<"x">>}
MC_TwoGroupBys == {<<"x">>, <<"y">>}

(* Two parseable timestamps, an hour apart; any other text is rejected.  *)
(* The use case is a model value, since it is compared with the integer *)
(* literals of the other context conditions.                             *)
MC_DateTimes == ("2024-01-01T00:00:00" :> 0) @@ ("2024-01-01T01:00:00" :> 3600)
MC_Scope == [project_ids |-> <<1, 2>>, org_ids |-> <<1>>, use_case_id |-> transactions]

CtxAt(s, e, g, i, t, o, l, off) ==
  [start |-> s, end |-> e, scope |-> MC_Scope,
   granularity |-> g, interval |-> i, with_totals |-> t, orderby |-> o,
   limit |-> l, offset |-> off]

Ctx(g, i, t, o, l, off) == CtxAt("2024-01-01T00:00:00", "2024-01-01T01:00:00", g, i, t, o, l, off)

(* No interval, and a 60s bucket with totals.                             *)
MC_Contexts == {Ctx(60, None, None, None, None, None),
                Ctx(60, 60, "True", None, 100, 5)}
MC_BucketContext == {Ctx(60, 60, "True", None, 100, 5)}

(* Contexts around the time-range, rollup and paging checks.              *)
MC_RefineContexts ==
  {Ctx(60, 60, "True", None, 100, 5), Ctx(3600, 60, None, None, None, None),
   Ctx(60, None, None, "ASC", None, -1), Ctx(60, None, "True", None, 10001, None),
   Ctx(3600, None, None, "DESC", 10000, 0),
   CtxAt("yesterday", "2024-01-01T01:00:00", 60, None, None, None, None, None)}

=============================================================================
