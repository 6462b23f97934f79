SPECIFICATION Spec
CONSTANTS
    busy = busy
    sibling = sibling
    Backlog = 2
    Sources <- MCAlone
    MaxToken <- MCMaxTokenAlone
    MaxQueued = 1
    MaxCancels = 0
    MaxFailures = 1
CHECK_DEADLOCK FALSE
PROPERTY ClosedIsSettled
