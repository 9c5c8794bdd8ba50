\* One step, one question, and a stop pressed as the question comes in.
SPECIFICATION Spec
CONSTANTS
  Kinds <- OneStep
  Review = 0
  MaxFixes = 0
  Proposes = {}
  Tasks <- TwoTasks
  MaxQuestions = 1
PROPERTIES
  NoStepAfterStop
