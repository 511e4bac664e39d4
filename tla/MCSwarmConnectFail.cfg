CONSTANTS
    ApiUsers <- MCApiUsers
    WSUsers <- MCWSUsers
    Statuses <- MCStatuses
    ConnectCanFail = TRUE
SPECIFICATION Spec
PROPERTY UsersKeepLoading
CHECK_DEADLOCK FALSE
