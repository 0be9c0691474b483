SPECIFICATION BoardSpec
CONSTANTS
  day = day
  week = week
  Ranges = {day, week}
  Window <- MCWindow
  FirstRange = day
  Totals = {0, 2}
  RuleLists <- MCRuleLists
  MaxTime = 3
  MaxRuns = 2
INVARIANT BoardTypeOK
INVARIANT ChartTruthful
INVARIANT TrendCurrent
PROPERTY TrendSettles
CHECK_DEADLOCK FALSE
