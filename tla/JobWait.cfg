\* Two failed polls in a row are absorbed, the third is one too many.
CONSTANT MaxPollErrors = 2
SPECIFICATION Spec
CHECK_DEADLOCK FALSE
INVARIANT BudgetKept
PROPERTIES ImplementsJobOutcome EndNoticed WaitReturns
