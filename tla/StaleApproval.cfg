SPECIFICATION StartSpec
CONSTANTS
    Versions = {1, 2}
    Editors = {editor}
    StartCalls = {call}
    Preapproved = {}
CHECK_DEADLOCK FALSE
INVARIANT ApprovedIsCollected
