SPECIFICATION FairSpec
CONSTANT MaxRows = 2
INVARIANT ListIsRefreshed
PROPERTY NobodyIsStranded
CHECK_DEADLOCK FALSE
