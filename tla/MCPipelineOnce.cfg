\* Each script run once, in either order, with clean texts, files only removed once a run has started, no crash.
CONSTANTS
    Paths <- MCPaths
    Skipped <- MCSkipped
    Contents <- CleanContents
    IsEmpty <- MCIsEmpty
    Decoded <- CleanDecoded
    Cites <- MCCites
    EditAllowed <- EditBeforeRuns
    Crashes = FALSE
    Absent = Absent
    ErrorText = ErrorText
    EmptyNote = EmptyNote
    NoDoc = NoDoc
    MaxRuns = 2
    MaxEdits = 2
SPECIFICATION Spec
INVARIANT NoContentLost
CHECK_DEADLOCK FALSE
