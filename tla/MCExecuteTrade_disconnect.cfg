SPECIFICATION Spec
CONSTANTS
    i1 = i1
    i2 = i2
    k1 = k1
    t1 = t1
    Ids = {r1, r2}
    Intents = {i1, i2}
    Tenants = {t1}
    Keys = {k1}
    NoKey = NoKey
    NoRow = NoRow
    NoOrder = NoOrder
    Calls <- SameCalls
    ReplyStatuses = {"SUBMITTED"}
    FaultSets = {{"disconnect"}}
INVARIANT NoStrandedReservation
