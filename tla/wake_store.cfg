CONSTANTS
  positive = positive
  negative = negative
  Keep = 1
  Verdicts = {positive, negative}
  MaxUploads = 3
  MaxCrashes = 1
  MaxTaken = 2
  MaxCuts = 1
SPECIFICATION CorpusSpec
SYMMETRY EitherVerdict
INVARIANTS StoreBounded OrphansOnlyByCrash TornClipsOwed
