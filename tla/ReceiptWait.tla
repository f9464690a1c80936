---------------------------- MODULE ReceiptWait -----------------------------
(***************************************************************************)
(* Waiting for the result of a request of one device                       *)
(* (internal/control/request_wait.go), between the device that answers     *)
(* (Server.receiveResult) and the registry that revokes it                 *)
(* (Server.publishRegistry).                                               *)
(*                                                                         *)
(* A waiter sleeps outside Server.mu on the channel that the next result   *)
(* closes, but inside registryGate, which every handler holds for reading: *)
(* while a revocation waits for the gate no new handler starts, and so no  *)
(* result can arrive to wake the waiter it waits for.                      *)
(***************************************************************************)
EXTENDS Naturals, FiniteSets

CONSTANTS
    Clients,     \* connections that read receipts
    Requests,    \* ids of the requests submitted to the device
    MaxWaiters   \* sleeping receipts a device allows (8)

ASSUME WaitersAssumption == MaxWaiters \in Nat \ {0} /\ IsFiniteSet(Clients)

VARIABLES
    status,    \* where each request is: device.queue, device.results or gone
    due,       \* requests whose deadline has passed, and nobody noticed yet
    changed,   \* device.resultChanged: 0 is nil, a channel is a number
    channels,  \* channels made so far
    closed,    \* channels that were closed
    waiters,   \* device.receiptWaiters
    client,    \* each connection's position in readRequestReceipt
    posting,   \* requests that a submission or a result in progress is about
    writer     \* publishRegistry: is it waiting for registryGate?

vars == <<status, due, changed, channels, closed, waiters, client, posting,
                   writer>>

Statuses == {"new", "pending", "result", "gone"}

Positions == {"idle", "gate", "reading", "asleep", "woken"}

\* `wait` is the time left to wait, as a condition; `cancelled` the request's
\* context; `channel` the one the client sleeps on.
None == "none"

ClientStates == [at : Positions, request : Requests \cup {None}, wait : BOOLEAN,
                 cancelled : BOOLEAN, channel : Nat]

\* Who holds registryGate for reading.
Inside == {c \in Clients : client[c].at \in {"reading", "asleep", "woken"}}

Sleeping == {c \in Clients : client[c].at \in {"asleep", "woken"}}

Move(c, position) == [client EXCEPT ![c].at = position]

\* Server.expire, under the lock, drops what is due.
Expired == [r \in Requests |->
              IF r \in due /\ status[r] \in {"pending", "result"} THEN "gone"
                                                                  ELSE status[r]]

Expire == status' = Expired /\ due' = {}

\* RLock is granted unless a writer holds the gate or waits for it.
GateOpen == ~writer

-----------------------------------------------------------------------------
(* readRequestReceipt                                                      *)

Call(c, r, wait) ==
    /\ client[c].at = "idle"
    /\ client' = [client EXCEPT ![c] =
         [at |-> "gate", request |-> r, wait |-> wait, cancelled |-> FALSE,
          channel |-> 0]]
    /\ UNCHANGED <<status, due, changed, channels, closed, waiters, posting,
                   writer>>

EnterGate(c) ==
    /\ client[c].at = "gate"
    /\ GateOpen
    /\ client' = Move(c, "reading")
    /\ UNCHANGED <<status, due, changed, channels, closed, waiters, posting,
                   writer>>

MaySleep(c) ==
    /\ Expired[client[c].request] = "pending"
    /\ client[c].wait
    /\ waiters < MaxWaiters

\* The critical section that ends in sleep: it picks up the current channel.
Sleep(c) ==
    /\ client[c].at = "reading"
    /\ MaySleep(c)
    /\ Expire
    /\ channels' = IF changed = 0 THEN channels + 1 ELSE channels
    /\ changed' = IF changed = 0 THEN channels + 1 ELSE changed
    /\ waiters' = waiters + 1
    /\ client' = [client EXCEPT ![c] = [@ EXCEPT !.at = "asleep", !.channel = changed']]
    /\ UNCHANGED <<closed, posting, writer>>

\* The critical section that ends in a reply: the result (200), still pending
\* (202), or expired or unknown (404).
Reply(c) ==
    /\ client[c].at = "reading"
    /\ ~MaySleep(c)
    /\ Expire
    /\ client' = Move(c, "idle")
    /\ UNCHANGED <<changed, channels, closed, waiters, posting, writer>>

\* select: the channel was closed, the timer fired, or the client went away.
Wake(c) ==
    /\ client[c].at = "asleep"
    /\ client[c].channel \in closed
    /\ client' = Move(c, "woken")
    /\ UNCHANGED <<status, due, changed, channels, closed, waiters, posting,
                   writer>>

\* Mutant: there is no timer.
NeverTimeout(c) == FALSE /\ UNCHANGED vars

Timeout(c) ==
    /\ client[c].at = "asleep"
    /\ client' = Move(c, "woken")
    /\ UNCHANGED <<status, due, changed, channels, closed, waiters, posting,
                   writer>>

Cancel(c) ==
    /\ client[c].at = "asleep"
    /\ client' = [client EXCEPT ![c] = [@ EXCEPT !.at = "woken", !.cancelled = TRUE]]
    /\ UNCHANGED <<status, due, changed, channels, closed, waiters, posting,
                   writer>>

\* Mutant: a client that went away is not counted out.
ResumeLeaky(c) ==
    /\ client[c].at = "woken"
    /\ waiters' = IF client[c].cancelled THEN waiters ELSE waiters - 1
    /\ client' = IF client[c].cancelled THEN Move(c, "idle")
                 ELSE [client EXCEPT ![c].at = "reading", ![c].wait = FALSE]
    /\ UNCHANGED <<status, due, changed, channels, closed, posting, writer>>

\* Mutant: the wait starts again after a wake-up.
ResumeWaits(c) ==
    /\ client[c].at = "woken"
    /\ waiters' = waiters - 1
    /\ client' = Move(c, IF client[c].cancelled THEN "idle" ELSE "reading")
    /\ UNCHANGED <<status, due, changed, channels, closed, posting, writer>>

\* Awake, the client counts itself out, then reads once more without waiting.
Resume(c) ==
    /\ client[c].at = "woken"
    /\ waiters' = waiters - 1
    /\ client' = IF client[c].cancelled THEN Move(c, "idle")
                 ELSE [client EXCEPT ![c].at = "reading", ![c].wait = FALSE]
    /\ UNCHANGED <<status, due, changed, channels, closed, posting, writer>>

-----------------------------------------------------------------------------
(* The handlers that change what a waiter waits for                        *)

\* A submission of, or a result for, r enters the gate and reads its body.
Post(r) ==
    /\ GateOpen
    /\ r \notin posting
    /\ posting' = posting \cup {r}
    /\ UNCHANGED <<status, due, changed, channels, closed, waiters, client, writer>>

\* Server.requests queues a request.
Submit(r) ==
    /\ r \in posting
    /\ status[r] = "new"
    /\ status' = [Expired EXCEPT ![r] = "pending"]
    /\ due' = {}
    /\ posting' = posting \ {r}
    /\ UNCHANGED <<changed, channels, closed, waiters, client, writer>>

\* Mutant: the channel is forgotten before it is closed.
ForgetWaiters == changed' = 0 /\ UNCHANGED closed

\* A result closes the current channel, if there is one, for every waiter.
NotifyWaiters ==
    /\ closed' = IF changed = 0 THEN closed ELSE closed \cup {changed}
    /\ changed' = 0

\* Server.receiveResult stores the result of a request that is still pending.
Respond(r) ==
    /\ r \in posting
    /\ Expired[r] = "pending"
    /\ status' = [Expired EXCEPT ![r] = "result"]
    /\ due' = {}
    /\ NotifyWaiters
    /\ posting' = posting \ {r}
    /\ UNCHANGED <<channels, waiters, client, writer>>

\* Either handler refuses what it was sent.
Refuse(r) ==
    /\ r \in posting
    /\ Expire
    /\ posting' = posting \ {r}
    /\ UNCHANGED <<changed, channels, closed, waiters, client, writer>>

\* The deadline of a pending request or of a retained result passes.
Due(r) ==
    /\ status[r] \in {"pending", "result"} /\ r \notin due
    /\ due' = due \cup {r}
    /\ UNCHANGED <<status, changed, channels, closed, waiters, client, posting,
                   writer>>

-----------------------------------------------------------------------------
(* publishRegistry                                                         *)

\* A registry mutation asks for the gate.
LockGate ==
    /\ ~writer
    /\ writer' = TRUE
    /\ UNCHANGED <<status, due, changed, channels, closed, waiters, client,
                   posting>>

GateDrained == Inside = {} /\ posting = {}

\* With the gate held, the device is kept or is revoked: its queue and results
\* are cleared and a new device object, without waiters, takes its place.
Publish(revoked) ==
    /\ writer
    /\ GateDrained
    /\ writer' = FALSE
    /\ IF revoked
       THEN /\ status' = [r \in Requests |-> IF status[r] = "new" THEN "new"
                                                                  ELSE "gone"]
            /\ due' = {} /\ changed' = 0 /\ waiters' = 0
       ELSE UNCHANGED <<status, due, changed, waiters>>
    /\ UNCHANGED <<channels, closed, client, posting>>

-----------------------------------------------------------------------------
Init ==
    /\ status = [r \in Requests |-> "new"]
    /\ due = {}
    /\ changed = 0 /\ channels = 0 /\ closed = {}
    /\ waiters = 0
    /\ client = [c \in Clients |->
         [at |-> "idle", request |-> None, wait |-> FALSE, cancelled |-> FALSE,
          channel |-> 0]]
    /\ posting = {}
    /\ writer = FALSE

Next ==
    \/ \E c \in Clients :
         \/ \E r \in Requests, wait \in BOOLEAN : Call(c, r, wait)
         \/ EnterGate(c) \/ Sleep(c) \/ Reply(c)
         \/ Wake(c) \/ Timeout(c) \/ Cancel(c) \/ Resume(c)
    \/ \E r \in Requests : Post(r) \/ Submit(r) \/ Respond(r) \/ Refuse(r) \/ Due(r)
    \/ LockGate
    \/ \E revoked \in BOOLEAN : Publish(revoked)

\* The runtime runs every handler, fires every timer and lets a waiting writer
\* in; a body that does not arrive fails at the
\* connection's read timeout.  A reader that a writer kept out enters before the next writer does
\* (sync.RWMutex), so it is not passed over for ever.  No device, and no other
\* client, has to do anything.
Fairness ==
    /\ \A c \in Clients :
         /\ SF_vars(EnterGate(c))
         /\ WF_vars(Sleep(c) \/ Reply(c)) /\ WF_vars(Wake(c))
         /\ WF_vars(Timeout(c)) /\ WF_vars(Resume(c))
    /\ \A r \in Requests : WF_vars(Submit(r) \/ Respond(r) \/ Refuse(r))
    /\ WF_vars(\E revoked \in BOOLEAN : Publish(revoked))

Spec == Init /\ [][Next]_vars /\ Fairness

-----------------------------------------------------------------------------
(* Properties                                                              *)

TypeOK ==
    /\ status \in [Requests -> Statuses]
    /\ due \subseteq Requests
    /\ channels \in Nat /\ changed \in 0..channels /\ closed \subseteq 1..channels
    /\ waiters \in Nat
    /\ client \in [Clients -> ClientStates]
    /\ \A c \in Clients : client[c].at # "idle" => client[c].request \in Requests
    /\ posting \subseteq Requests
    /\ writer \in BOOLEAN

\* No lost wake-up: a client asleep can still be reached, because its channel is
\* the one the next result closes or has been closed already; and once its own
\* request has its result it has been closed.
NoLostWakeup ==
    \A c \in Clients : client[c].at = "asleep" =>
        /\ client[c].channel \in (closed \cup {changed}) \ {0}
        /\ status[client[c].request] = "result" => client[c].channel \in closed

\* The device's waiter count is the number of clients between its two updates,
\* so a slot is neither leaked, by a cancelled client or a revocation, nor used
\* twice, and it stays within the limit.
WaitersCounted == waiters = Cardinality(Sleeping) /\ waiters <= MaxWaiters

\* Whoever sleeps holds one of the device's slots and will be woken.
SafeWait == NoLostWakeup /\ WaitersCounted

\* Every receipt read is answered, or its client went away, whether or not the
\* device ever responds and however often the registry changes.
EveryReadEnds ==
    \A c \in Clients : client[c].at = "gate" ~> client[c].at = "idle"

\* A revocation is not held up for ever by clients that wait for a result which
\* the revocation itself keeps out.
RevocationCompletes == writer ~> ~writer
=============================================================================
