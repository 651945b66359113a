SPECIFICATION Spec
CONSTANTS
    Vid <- MCVid
    Pid <- MCPid
    Module <- MCModule
    Chipset <- MCChipset
    Firmware <- MCFirmware
    Kb <- MCKb
    Alias <- MCAlias
    Iface <- MCIface
    MaxLog = 1
    None = None
    UnknownChip = UNKNOWN
    v = v
    pClaimed = pClaimed
    pRefused = pRefused
    pFeasible = pFeasible
    pSilent = pSilent
    pForeign = pForeign
    pUnknown = pUnknown
    mt7601u = mt7601u
    rtl8xxxu = rtl8xxxu
    rtw88 = rtw88
    MT7601U = MT7601U
    RTL8188EU = RTL8188EU
    RTL8811CU = RTL8811CU
    RTL8192EU = RTL8192EU
    fwMt = fwMt
    fwRtl = fwRtl
    fwOther = fwOther
    wifi = wifi
    storage = storage
INVARIANT
    KernelClaimIsSeen
