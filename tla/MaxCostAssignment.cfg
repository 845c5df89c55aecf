SPECIFICATION FairSpec
CONSTANTS
  N = 3
  Costs <- ThreeValued
INVARIANTS
  TypeOK
  LabelsFeasible
  SlackIsGap
  OneMatching
  ResultIsBest
PROPERTY Returns
