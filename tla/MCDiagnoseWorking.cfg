SPECIFICATION Spec
CONSTANTS
    Vid <- MCVid
    Pid <- MCPid
    Module <- MCModule
    Chipset <- MCChipset
    Firmware <- MCFirmware
    Kb <- MCKb
    AliasOf <- MCAliasOf
    Iface <- MCIface
    ValidName <- MCValidName
    Nodes <- MCNodes
    DeviceNodes <- MCDeviceNodes
    Dongles <- MCDongles
    Hub <- MCHub
    Drivers <- MCDrivers
    NodeDrivers <- MCNodeDrivers
    LinkName = driverWord
    Text <- MCText
    SpelledId <- MCSpelledId
    Lines <- MCLines
    DriverIsFile = FALSE
    Releases <- MCReleases
    Running = running
    Version <- MCVersion
    Base = 100
    Netdevs <- MCNetdevs
    WritesMarker = FALSE
    MaxChurn = 1
    None = None
    UnknownChip = UNKNOWN
    mtk = mtk
    rtk = rtk
    p760a = p760a
    p8811 = p8811
    p8179 = p8179
    mt7601u = mt7601u
    mt76x0u = mt76x0u
    rtl8xxxu = rtl8xxxu
    rtw88 = rtw88
    usbGeneric = usbGeneric
    oddName = oddName
    driverWord = driverWord
    MT7601U = MT7601U
    MT7610U = MT7610U
    RTL8188EU = RTL8188EU
    RTL8811CU = RTL8811CU
    Unlisted = Unlisted
    fwA = fwA
    fwB = fwB
    spelled760a = spelled760a
    spelled8811 = spelled8811
    running = running
    later = later
    older = older
    custom = custom
    wifi = wifi
INVARIANT
    WorkingMeansInterfaceBound
