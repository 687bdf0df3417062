\* Two calls over three requests, once with every fault and once with lost replies alone.
SPECIFICATION FairSpec
CONSTANTS
    i1 = i1
    i2 = i2
    k1 = k1
    t1 = t1
    Ids = {r1, r2}
    Intents = {i1, i2}
    Tenants = {t1}
    Keys = {k1}
    NoKey = NoKey
    NoRow = NoRow
    NoOrder = NoOrder
    Calls <- MixedCalls
    ReplyStatuses = {"SUBMITTED"}
    FaultSets = {{"db", "disconnect", "crash", "reply"}, {"reply"}}
INVARIANTS
    TypeOK
    ExclusiveDispatch
    OneAcknowledgedOrder
    SecondOrderIsReported
    AnswerIsReal
    FailureRecordsNothing
    NoStrandedReservation
PROPERTIES
    ImplementsGate
    RecordedOrdersStay
    EveryCallEnds
    ReservationSettles
