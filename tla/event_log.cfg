\* Two appenders, two event identifiers, up to three numbers, one consumer.
SPECIFICATION FairSpec
CONSTANTS
    Client = {c1, c2}
    Consumer = {k}
    EventId <- MCEventId
    Content <- MCContent
    Event <- MCEvent
    JsonOf <- MCJsonOf
    None = None
    MaxSequence = 3
    MaxLimit = 2
INVARIANTS
    TypeOK
    OneRowPerEvent
PROPERTIES
    AppendContract
    NeverPassesCommitted
    AppendsEnd
