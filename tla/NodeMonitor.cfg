CONSTANTS
    Machine = {1, 2}
    MaxOut = 2
    MaxIncidents = 1
SPECIFICATION FairSpec
INVARIANTS TypeOK StatusFollowsNodes
PROPERTIES NoFalseRemoval FailedNodeLeaves RunningNodeJoins
CHECK_DEADLOCK FALSE
