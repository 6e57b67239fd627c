\* One device that is created, described, renamed and heard of in every order.
CONSTANTS
    d1 = d1
    unknown = unknown
    none = none
    nick = nick
    shelly = shelly
    pi = pi
    Device = {d1}
    Seeded = {}
    Text <- MCText
    Unknown = unknown
    NoText = none
    Alias = {nick}
    NoAlias = none
    FingerprintRule <- MCFingerprintRule
    OuiVendor <- MCOuiVendor
    ProfileInput <- MCProfileInput
    DeviceReport <- MCDeviceReport
SPECIFICATION ProfileSpec
INVARIANTS
    SourceBacksValue
    AliasTold
PROPERTIES
    PrecedenceHolds
