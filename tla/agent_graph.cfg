SPECIFICATION FairSpec
CONSTANT MaxIterations = 3
INVARIANTS TypeOK NoMessageLost FreshContext PhaseOfLastNode BudgetEndsInEvaluator
PROPERTY GraphEnds
