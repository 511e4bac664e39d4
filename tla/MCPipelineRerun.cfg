\* The consolidator is run again after the originals were deleted.
CONSTANTS
    Paths <- MCPaths
    Skipped <- MCSkipped
    Contents <- CleanContents
    IsEmpty <- MCIsEmpty
    Decoded <- CleanDecoded
    Cites <- MCCites
    EditAllowed <- EditBeforeRuns
    Crashes = FALSE
    Absent = Absent
    ErrorText = ErrorText
    EmptyNote = EmptyNote
    NoDoc = NoDoc
    MaxRuns = 3
    MaxEdits = 0
SPECIFICATION Spec
INVARIANT NoContentLost
CHECK_DEADLOCK FALSE
