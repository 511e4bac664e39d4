\* One user; does the chaos packet drop stay out of the failures?
CONSTANTS
    Users <- MCOneUser
    Statuses <- MCStatuses
    NoRequest = NoRequest
SPECIFICATION Spec
INVARIANT ChaosDropNeverFailure
CHECK_DEADLOCK FALSE
