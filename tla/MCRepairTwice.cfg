SPECIFICATION Spec
CONSTANTS
    Vid <- MCVid
    Pid <- MCPid
    Module <- MCModule
    ValidName <- MCValidName
    Chipset <- MCChipset
    Firmware = {}
    Kb <- MCKb
    Plugged <- MCPlugged
    Binding <- MCBinding
    MaxLines = 2
    None = None
    UnknownChip = UNKNOWN
    v = v
    p = p
    q = q
    r = r
    rtw88 = rtw88
    rtl8821cu = rtl8821cu
    oddName = oddName
    RTL8811CU = RTL8811CU
    MT7601U = MT7601U
    MT7610U = MT7610U
PROPERTY
    SecondRollbackIsNoop
