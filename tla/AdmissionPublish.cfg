SPECIFICATION FairSpec
CONSTANTS
  Requests = {r1, r2, r3}
  MaxVersion = 3
INVARIANTS
  AnswersOnePolicy
  QuietWrites
PROPERTIES
  PublicationEnds
  ImplementsPromise
