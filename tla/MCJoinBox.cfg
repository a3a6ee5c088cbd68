\* Two joins under one deadline.
CONSTANT Joins = {j1, j2}
SPECIFICATION FairSpec
INVARIANTS BoxSafe ResultHonest
PROPERTY BoxReclaimed
CHECK_DEADLOCK FALSE
