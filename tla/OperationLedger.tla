-------------------------- MODULE OperationLedger ---------------------------
(***************************************************************************)
(* What the control server promises about keyed operations, without its    *)
(* clock, its queues, its journal file or its threads                      *)
(* (docs/reliable-control.md, "Operation journal").                        *)
(*                                                                         *)
(* An intent is an owner and an idempotency key.  It is admitted at most   *)
(* once for as long as the ledger remembers it; only an admitted command   *)
(* can reach a device; an outcome, once known, is final; and a recovery    *)
(* closes every command and reopens none.                                  *)
(***************************************************************************)
CONSTANTS Intents, Ids, Vacant

VARIABLES
    ledger,   \* for each intent, Vacant or the id and state of its operation
    open,     \* ids of the commands a device may still be given
    issued    \* ids of every command ever admitted

vars == <<ledger, open, issued>>

Operation(id, state) == [id |-> id, state |-> state]

Settled == {"responded", "acknowledged", "unknown"}

Init ==
    /\ ledger = [i \in Intents |-> Vacant]
    /\ open = {}
    /\ issued = {}

\* Commands are delivered for good, dropped or too old (lost), and operations
\* nobody can be given any more are forgotten.  Every step may begin with this.
Lapses(lost, forgotten) ==
    \A i \in forgotten : ledger[i] # Vacant => ledger[i].id \notin open \ lost

Kept(forgotten) ==
    [i \in Intents |-> IF i \in forgotten THEN Vacant ELSE ledger[i]]

Lapse(lost, forgotten) ==
    /\ Lapses(lost, forgotten)
    /\ ledger' = Kept(forgotten)
    /\ open' = open \ lost
    /\ UNCHANGED issued

\* A vacant intent is admitted with an id that was never used.
Admit(i, id, lost, forgotten) ==
    /\ Lapses(lost, forgotten)
    /\ Kept(forgotten)[i] = Vacant
    /\ id \notin issued
    /\ ledger' = [Kept(forgotten) EXCEPT ![i] = Operation(id, "pending")]
    /\ open' = (open \ lost) \cup {id}
    /\ issued' = issued \cup {id}

\* The outcome of the commands of a batch becomes known as they are closed.
Settle(ids, state, lost, forgotten) ==
    LET settled == {i \in Intents : ledger[i] # Vacant /\ ledger[i].id \in ids}
    IN  /\ Lapses(lost, forgotten)
        /\ ids \subseteq open \ lost
        /\ \A i \in settled : ledger[i].state = "pending"
        /\ ledger' = [i \in Intents |->
                        IF i \in settled THEN Operation(ledger[i].id, state)
                                         ELSE Kept(forgotten)[i]]
        /\ open' = (open \ lost) \ ids
        /\ UNCHANGED issued

\* After a crash no command is open.  An operation that was pending is settled,
\* and one that was refused because it could not be saved may be on record.
Recover ==
    /\ open' = {}
    /\ ledger' \in [Intents -> [id : Ids, state : Settled] \cup {Vacant}]
    /\ \A i \in Intents :
         \/ ledger'[i] \in {ledger[i], Vacant}
         \/ /\ ledger[i] # Vacant /\ ledger[i].state = "pending"
            /\ ledger'[i].id = ledger[i].id
         \/ ledger'[i].id \notin issued /\ ledger'[i].state = "unknown"
    /\ UNCHANGED issued

Next ==
    \/ \E lost \in SUBSET open, forgotten \in SUBSET Intents :
         \/ Lapse(lost, forgotten)
         \/ \E i \in Intents, id \in Ids : Admit(i, id, lost, forgotten)
         \/ \E ids \in SUBSET open, state \in {"responded", "acknowledged"} :
              Settle(ids, state, lost, forgotten)
    \/ Recover

Spec == Init /\ [][Next]_vars
=============================================================================
