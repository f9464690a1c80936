\* One device with a journal of two records and a queue of two commands: two owners
\* submit intents of one key and two payloads, commands without a key and requests
\* share the queue, and retries, batches, receipts and restarts meet around the
\* deadlines.
CONSTANTS
    Devices = {d1}
    Owners = {admin, op}
    Keys = {k1}
    NoKey = NoKey
    Payloads = {p1, p2}
    Statuses = {ok, rejected}
    MaxPending = 2
    MaxQueued = 2
    MaxResults = 1
    MaxStored = 1
    MaxRecords = 2
    TTL = 2
    Retention = 2
    ResultTTL = 2
    Lag = 1
    MaxReplies = 1
    MaxId = 2
    MaxClock = 4
SYMMETRY Symmetry
SPECIFICATION Spec
\* The clock and the ids are bounded, so a behaviour may end.
CHECK_DEADLOCK FALSE
INVARIANT JournalAgrees
PROPERTIES ImplementsLedger JournalAnswers SafeDelivery
