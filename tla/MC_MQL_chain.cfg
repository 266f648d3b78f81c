CONSTANTS
  d1 = d1
  d2 = d2
  g1 = g1
  transactions = transactions
  None = None
  MRIs <- MC_MRIs
  MetricType <- MC_MetricType
  Datasets = {"metrics", "generic_metrics"}
  AggregateNames = {"sum"}
  CurriedAggregates <- MC_NoCurried
  ArbitraryFunctions <- MC_NoFunctions
  Numbers = {1}
  FilterChoices <- MC_OneFilter
  GroupByChoices <- MC_GroupBys
  ExprOps = {"plus"}
  TermOps = {"divide"}
  MaxOthers = 2
  MaxSteps = 4
  GRANULARITIES_AVAILABLE <- MC_Granularities
  MAX_LIMIT = 10000
  DateTimes <- MC_DateTimes
  Contexts <- MC_BucketContext
SPECIFICATION Spec
CHECK_DEADLOCK FALSE
INVARIANT
  EveryMetricCompiled
