CONSTANTS
    m1 = m1
    m2 = m2
    m3 = m3
    r1 = r1
    r2 = r2
    NoMeta = NoMeta
    NoRes = NoRes
    Metas = {m1, m2}
    BadCodecs = {}
    Res = {r1, r2}
    MetaRes <- MCMetaResChanged
    MetadataFirst = TRUE
    MaxPackets = 4
    MaxDelay = 2
    MaxDemand = 2
    MaxFaults = 0

SPECIFICATION Spec

INVARIANT ScalerMatchesFrame

CHECK_DEADLOCK FALSE
