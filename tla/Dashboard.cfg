\* One device, another one to create, and one click, change and failure among the polls.
CONSTANTS
    Device = {d1, d2}
    NoDevice = NoDevice
    Present = {d1}
    Keyed = {}
    Alias = {NoAlias}
    NoAlias = NoAlias
    Operation = {"create", "enroll", "alias", "inline", "edit", "policy", "reissue", "export"}
    MaxClicks = 1
    MaxPolls = 1
    MaxChanges = 1
    MaxLost = 1
SPECIFICATION DashboardSpec
INVARIANTS
    DashboardTypeOK
    NothingInvented
PROPERTIES
    ListConverges
    SelectionConverges
    OperationsEnd
