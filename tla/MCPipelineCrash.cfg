\* The consolidator dies while writing its output, then the delete script runs.
CONSTANTS
    Paths <- MCPaths
    Skipped <- MCSkipped
    Contents <- CleanContents
    IsEmpty <- MCIsEmpty
    Decoded <- CleanDecoded
    Cites <- MCCites
    EditAllowed <- EditBeforeRuns
    Crashes = TRUE
    Absent = Absent
    ErrorText = ErrorText
    EmptyNote = EmptyNote
    NoDoc = NoDoc
    MaxRuns = 2
    MaxEdits = 0
SPECIFICATION Spec
INVARIANT NoContentLost
CHECK_DEADLOCK FALSE
