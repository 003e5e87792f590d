\* One model and two prediction dates, so that fetches of one day meet those
\* of the other.
CONSTANTS
  m1 = m1
  r1 = r1
  h1 = h1
  f1 = f1
  Models <- MCModels
  Dates = {"tomorrow", "later"}
  DayPeriods = {1, 2}
  Invalid = Invalid
  PredictionRequests = {r1}
  HealthRounds = {h1}
  FetchRounds = {f1}
  MaxAnswer = 2
SPECIFICATION PredictionFairSpec
INVARIANTS SuccessIsWhole PredictionsHaveModels
PROPERTIES StatusHeals FetchesArrive
CHECK_DEADLOCK FALSE
