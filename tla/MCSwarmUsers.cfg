CONSTANTS
    ApiUsers <- MCApiUsers
    WSUsers <- MCWSUsers
    Statuses <- MCStatuses
    ConnectCanFail = TRUE
SPECIFICATION Spec
PROPERTY ClosedConnectionReported
CHECK_DEADLOCK FALSE
