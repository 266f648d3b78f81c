CONSTANTS
  d1 = d1
  d2 = d2
  g1 = g1
  transactions = transactions
  None = None
  MRIs <- MC_MRIs
  MetricType <- MC_MetricType
  Datasets = {"metrics", "generic_metrics"}
  AggregateNames = {"sum"}
  CurriedAggregates <- MC_NoCurried
  ArbitraryFunctions <- MC_ArbitraryFunctions
  Numbers = {1}
  FilterChoices <- MC_OneFilter
  GroupByChoices <- MC_TwoGroupBys
  ExprOps = {"plus"}
  TermOps = {"divide"}
  MaxOthers = 1
  MaxSteps = 2
  GRANULARITIES_AVAILABLE <- MC_Granularities
  MAX_LIMIT = 10000
  DateTimes <- MC_DateTimes
  Contexts <- MC_BucketContext
SPECIFICATION Spec
CHECK_DEADLOCK FALSE
INVARIANT
  GroupBysPreserved
