SPECIFICATION Spec
CONSTANTS
    Vid <- MCVid
    Pid <- MCPid
    Module <- MCModule
    Chipset <- MCChipset
    Firmware <- MCFirmware
    Kb <- MCKb
    Iface <- MCIface
    Names <- MCNames
    Valid <- MCValid
    FileOf <- MCFileOf
    Requests <- MCRequests
    Log <- MCLog
    MayFail = TRUE
    MaxChurn = 2
    None = None
    UnknownChip = UNKNOWN
    mtk = mtk
    p7601 = p7601
    mt7601u = mt7601u
    MT7601U = MT7601U
    fwA = fwA
    fwB = fwB
    nameA = nameA
    nameB = nameB
    hostileA = hostileA
INVARIANTS
    TypeOK
    AbsentIsReal
    FailureIsNeverAbsence
    SteadyStatusIsExact
    FoundIsReal
    AdviceIsJustified
