SPECIFICATION Spec
CONSTANTS
  Workers = {1, 2}
  StepLimit = 2
  MaxPolls = 1
  MaxFailures = 1
INVARIANTS CollectivesMatch AdmissionCommitsAll SameOutcome
PROPERTIES AllRanksEnd
