\* A developer edits a file between the consolidation and the deletion.
CONSTANTS
    Paths <- MCPaths
    Skipped <- MCSkipped
    Contents <- CleanContents
    IsEmpty <- MCIsEmpty
    Decoded <- CleanDecoded
    Cites <- MCCites
    EditAllowed <- EditAnyTime
    Crashes = FALSE
    Absent = Absent
    ErrorText = ErrorText
    EmptyNote = EmptyNote
    NoDoc = NoDoc
    MaxRuns = 2
    MaxEdits = 1
SPECIFICATION Spec
INVARIANT NoContentLost
CHECK_DEADLOCK FALSE
