\* Both scripts, re-run, with crashes of the consolidator and developers
\* writing and removing files at any time; clean texts.
CONSTANTS
    Paths <- MCPaths
    Skipped <- MCSkipped
    Contents <- CleanContents
    IsEmpty <- MCIsEmpty
    Decoded <- CleanDecoded
    Cites <- MCCites
    EditAllowed <- EditAnyTime
    Crashes = TRUE
    Absent = Absent
    ErrorText = ErrorText
    EmptyNote = EmptyNote
    NoDoc = NoDoc
    MaxRuns = 4
    MaxEdits = 2
SPECIFICATION Spec
INVARIANT TypeOK
CHECK_DEADLOCK FALSE
