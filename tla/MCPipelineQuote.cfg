\* A consolidated document quotes a Source line naming a skipped file.
CONSTANTS
    Paths <- MCPaths
    Skipped <- MCSkipped
    Contents <- QuotingContents
    IsEmpty <- MCIsEmpty
    Decoded <- CleanDecoded
    Cites <- MCCites
    EditAllowed <- EditBeforeRuns
    Crashes = FALSE
    Absent = Absent
    ErrorText = ErrorText
    EmptyNote = EmptyNote
    NoDoc = NoDoc
    MaxRuns = 2
    MaxEdits = 0
SPECIFICATION Spec
INVARIANT SkippedNeverDeleted
CHECK_DEADLOCK FALSE
