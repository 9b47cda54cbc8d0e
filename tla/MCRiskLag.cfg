CONSTANTS
  Tracks = {t1}
  FsmScores = {50}
  SfScores = {70}
  Window = 2
  ScoreAge = 1
  PruneAge = 3
  BatchSize = 2
  StreamMax = 2
  MaxLag = 3
  StartTime = 3
  MaxTime = 7
SPECIFICATION Spec
PROPERTY OneIncidentPerWindow
