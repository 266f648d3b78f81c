----------------------------- MODULE MQLCommon -----------------------------
(***************************************************************************)
(* Data shared by the components of the MQL compiler in                    *)
(* src/snuba/query/mql/parser_supported_join.py: metric identifiers (MRIs) *)
(* and their type character, the entity tables of the two metrics          *)
(* datasets and the entity resolver select_entity.                         *)
(*                                                                         *)
(* An MRI is a model value; only its first character matters to the code   *)
(* (mri[0] in select_entity and _generate_table_alias), so MetricType      *)
(* gives that character.                                                   *)
(***************************************************************************)
EXTENDS Integers, Sequences, FiniteSets

CONSTANTS
  MRIs,          \* metric identifiers that may occur in a query
  MetricType,    \* MRI -> its first character, e.g. "d" for "d:transactions/..."
  Datasets,      \* the datasets a request may name
  None           \* Python's None

ASSUME MetricType \in [MRIs -> STRING]
ASSUME None \notin STRING

(* METRICS_ENTITIES and GENERIC_ENTITIES: type character -> entity key.     *)
METRICS_ENTITIES ==
  [c |-> "metrics_counters", d |-> "metrics_distributions", s |-> "metrics_sets"]

GENERIC_ENTITIES ==
  [c |-> "generic_metrics_counters", d |-> "generic_metrics_distributions",
   s |-> "generic_metrics_sets", g |-> "generic_metrics_gauges"]

EntityKeys == {METRICS_ENTITIES[k] : k \in DOMAIN METRICS_ENTITIES}
                \cup {GENERIC_ENTITIES[k] : k \in DOMAIN GENERIC_ENTITIES}

(* select_entity: the entity of an MRI in a dataset, or None where the     *)
(* code raises ParsingException("invalid metric type ...").                *)
select_entity(mri, dataset) ==
  LET t == MetricType[mri] IN
  CASE dataset = "metrics" /\ t \in DOMAIN METRICS_ENTITIES -> METRICS_ENTITIES[t]
    [] dataset = "generic_metrics" /\ t \in DOMAIN GENERIC_ENTITIES -> GENERIC_ENTITIES[t]
    [] OTHER -> None

(* AGGREGATE_ALIAS of snuba_sdk, the name of the aggregate's column.        *)
AGGREGATE_ALIAS == "aggregate_value"

(* The exceptions a compilation can end with.                              *)
ParsingException == "ParsingException"
InvalidQueryException == "InvalidQueryException"
=============================================================================
