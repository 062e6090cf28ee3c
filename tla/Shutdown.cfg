CONSTANT Conns = {c1, c2, c3}
SPECIFICATION FairSpec
CHECK_DEADLOCK FALSE
INVARIANTS
  TypeOK
  NoTransactionCut
  AnswerableIsNotCut
PROPERTY StopEnds
