CONSTANTS
    NoPage = NoPage
    Pages <- MCPages
    Elements <- MCElements
    PageOf <- MCPageOf
    Type <- MCType
    Key <- MCKey
    Button <- MCButton
    ViewOn <- MCViewOn
    Default <- MCDefault
    Networks = {"home"}
    FromScan <- MCFromScan
    DeviceConfigs <- MCDeviceConfigs
    MaxLogins = 2
SPECIFICATION Spec
INVARIANTS
    SessionInv
    TypedInvalidIsNotSaved
PROPERTIES
    OnlyChangesAreSaved
CONSTRAINTS
    WaitIsTheEnd
    PasswordIsGood
