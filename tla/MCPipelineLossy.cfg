\* A markdown file holds bytes that are not UTF-8.
CONSTANTS
    Paths <- MCPaths
    Skipped <- MCSkipped
    Contents <- LossyContents
    IsEmpty <- MCIsEmpty
    Decoded <- LossyDecoded
    Cites <- MCCites
    EditAllowed <- EditBeforeRuns
    Crashes = FALSE
    Absent = Absent
    ErrorText = ErrorText
    EmptyNote = EmptyNote
    NoDoc = NoDoc
    MaxRuns = 2
    MaxEdits = 0
SPECIFICATION Spec
INVARIANT NoContentLost
CHECK_DEADLOCK FALSE
