\* Two callers, three requests, groups of up to two; the stream is sampled.
SPECIFICATION FairSpec
CONSTANTS
  c1 = c1  c2 = c2  j1 = j1  j2 = j2  j3 = j3
  Callers <- MCCallers
  Streamers <- MCStreamers
  Jobs <- MCJobs
  JobsOf <- MCJobsOf
  Greedy <- StreamSampled
  MaxBatch = 2
  MaxTokens = 2
INVARIANTS EngineFreedLast GaugesFollow AnswersWellFormed
PROPERTIES ImplementsService EveryoneEnds
