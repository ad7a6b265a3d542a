SPECIFICATION Spec
CONSTANTS
  ann = ann
  bob = bob
  Callers = {ann, bob}
  PollMaxAttempts = 2
  VerifyReads = 3
  Team <- MCTeam
  Lines <- MCLines
INVARIANTS
  StrayIsNamed
PROPERTIES
  ImplementsHonestWrite
  AssignsWhatItSays
  EveryWriteIsAnswered
