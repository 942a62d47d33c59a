CONSTANTS
    m1 = m1
    m2 = m2
    m3 = m3
    r1 = r1
    r2 = r2
    NoMeta = NoMeta
    NoRes = NoRes
    Metas = {m1, m2, m3}
    BadCodecs = {m3}
    Res = {r1}
    MetaRes <- MCMetaResSame
    MetadataFirst = TRUE
    MaxPackets = 6
    MaxDelay = 2
    MaxDemand = 2
    MaxFaults = 1

SPECIFICATION FairSpec

INVARIANT TypeOK
PROPERTY CompletionDelivered

\* The stream ends: once the downstream has its terminal signal no handler runs.
CHECK_DEADLOCK FALSE
