\* One device, which the operator renames in its row and enrolls; nothing fails.
CONSTANTS
    Device = {d1}
    NoDevice = NoDevice
    Present = {d1}
    Keyed = {}
    Alias = {NoAlias, a1}
    NoAlias = NoAlias
    Operation = {"inline", "enroll"}
    MaxClicks = 2
    MaxPolls = 1
    MaxChanges = 0
    MaxLost = 0
SPECIFICATION DashboardSpec
INVARIANT
    RenameKept
