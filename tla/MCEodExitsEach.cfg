CONSTANTS
    Slot = 2
    HardStop <- MCHardStop
    BreakevenTrigger = 80
    BreakevenLock = 10
    Activation = 120
    Buffer = 45
    MinHold = 12
    MaxHold = 65
    Pnl <- MCPnl
    Gaps = {12, 60}
SPECIFICATION Spec
INVARIANT ExitOnlyByRule
