\* Two devices and an operator who selects and enrolls; nothing fails.
CONSTANTS
    Device = {d1, d2}
    NoDevice = NoDevice
    Present = {d1, d2}
    Keyed = {d1}
    Alias = {NoAlias}
    NoAlias = NoAlias
    Operation = {"enroll"}
    MaxClicks = 3
    MaxPolls = 1
    MaxChanges = 0
    MaxLost = 0
SPECIFICATION DashboardSpec
INVARIANT
    RotationConfirmed
