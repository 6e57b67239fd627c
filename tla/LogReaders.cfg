\* Two devices, three files, an event log that grows to three rows, two faults.
CONSTANTS
    Device = {d1, d2}
    NoDevice = NoDevice
    DefaultDevice = d1
    Instant = {1, 2}
    NoInstant = NoInstant
    OldFile <- MCOldFile
    OldValue = {"unverified"}
    Recorded = {"event_logs"}
    MaxRows = 3
    MaxFaults = 2
    Limit = {0, 3}
    MaxPage = 2
SPECIFICATION ReaderSpec
INVARIANTS
    RowsKept
    ServesCurrent
    PagesCover
    ExportShowsRead
PROPERTIES
    StartKeepsTrust
    ImplementsUpgrade
    StartsEnd
    ReadingEnds
