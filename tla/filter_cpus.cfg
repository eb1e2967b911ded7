SPECIFICATION FilterSpec
CONSTANTS
    c1 = c1  c2 = c2  s1 = s1  s2 = s2  t1 = t1
    portA = portA  portB = portB  portC = portC
    NoTEID = NoTEID
    CPU = {c1, c2}
    Source = {s1, s2}
    TEID = {t1}
    Port = {portA, portB, portC}
    Nodes <- MCNodes
    MaxExtHeaders = 4
    MaxHdrBytes = 64
    ScanThreshold = 2
    MultiportThreshold = 3
    RateWindow = 1
    MultiportWindow = 2
    RingSize = 1
INVARIANTS CountsAreReal OneReportPerWindow PortScanIsReal BlockedTrafficIsSilent
INVARIANTS MalformedIsMarked MalformedIsAttributed
CHECK_DEADLOCK FALSE
