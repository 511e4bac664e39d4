\* Two users running VibeZUser's loop, stoppable at any point.
CONSTANTS
    Users <- MCUsers
    Statuses <- MCStatuses
    NoRequest = NoRequest
SPECIFICATION Spec
INVARIANT TypeOK
PROPERTY UsersKeepRequesting
CHECK_DEADLOCK FALSE
