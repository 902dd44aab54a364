SPECIFICATION Spec
INVARIANTS
    FollowsItsRoot
CHECK_DEADLOCK FALSE
