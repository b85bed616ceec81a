SPECIFICATION FairSpec
CONSTANTS
    full = full
    warn = warn
    rogue = rogue
    s1 = s1
    a1 = a1
    NoRule = NoRule
    Rule = {full, rogue}
    Watch = {full}
    Subnet = {s1}
    Addr = {a1}
    Threshold <- MCThreshold
    Renotify <- MCRenotify
    Margin = 1
    MaxLevel = 2
    EventId = {1, 2}
    MaxAge = 1
    MaxUpsets = 1
INVARIANTS
    OneFiringEvent
    RecordedIsOffered
    AcknowledgedIsQuiet
PROPERTIES
    OffersAreSpaced
    TriggerIsNoticed
    ClearedIsResolved
