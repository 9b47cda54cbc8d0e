CONSTANTS
  Tracks = {t1}
  FsmScores = {50}
  SfScores = {70}
  Window = 2
  ScoreAge = 1
  PruneAge = 3
  BatchSize = 1
  StreamMax = 1
  MaxLag = 1
  StartTime = 3
  MaxTime = 7
SPECIFICATION FairSpec
PROPERTY ServedWithoutScores
