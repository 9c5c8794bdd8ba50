\* implement-and-review with one round of fixes, two questions, any number of
\* restarts.
SPECIFICATION FairSpec
CONSTANTS
  Kinds <- ImplementAndReview
  Review = 2
  MaxFixes = 1
  Proposes <- PushAndRequest
  Tasks <- TwoTasks
  MaxQuestions = 2
INVARIANTS
  
  DoneFollowsRecipe
  FinishedIsCarriedOut
  KeptForTheAnswer
  ProposedOnce
PROPERTIES
  WorkRests
