\* An event is refused although its own row is on record.
SPECIFICATION Spec
CONSTANTS
    Client = {c1, c2}
    Consumer = {k}
    EventId <- MCEventId
    Content <- MCContent
    Event <- MCEvent
    JsonOf <- MCJsonOf
    None = None
    MaxSequence = 3
    MaxLimit = 2
INVARIANT RetryAccepted
