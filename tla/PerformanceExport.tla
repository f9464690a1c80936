-------------------------- MODULE PerformanceExport --------------------------
(***************************************************************************)
(* "perf export" of cli/performance.py and "report verify" of              *)
(* cli/report_verify.py.                                                   *)
(*                                                                         *)
(* A player records numbered events in a ring while the export reads them  *)
(* page by page, up to the number that was the last when it began.  Events *)
(* are discarded meanwhile, the session ends or another takes its name,    *)
(* the player restarts, answers are lost or late.  What was read, and why  *)
(* it may not be all, is written to a private directory, which somebody    *)
(* judges later without the player.                                        *)
(***************************************************************************)
EXTENDS Naturals, Sequences, FiniteSets

CONSTANTS
    MaxSeq,        \* events a session records
    RingSize,      \* events the player keeps
    PageSize,      \* events of an answer, 64 in the code
    MaxPages,      \* pages of an export, 32 in the code
    MaxEvents,     \* events of an export, 1024 in the code
    MaxElapsed     \* what a session's clock can show

ExportAssumption ==
    /\ {MaxSeq, RingSize, PageSize, MaxPages, MaxEvents} \subseteq Nat \ {0}
    /\ MaxElapsed \in Nat

VARIABLES
    session,       \* the player's recording
    player,        \* "same", "restarted", or "older": restarted without recordings
    disk,          \* the evidence directory: "ok" or "full"
    pc,
    first, last,   \* the session in the first and the last answer
    cursor, pages, events,
    reasons,       \* why the export is partial
    failure,       \* why there is none, or "none"
    rows,          \* the states of its requests
    journal,       \* the requests that were recorded before they were sent
    saved,         \* the result and its manifest, or "none"
    damaged        \* a saved file was changed or lost afterwards

evidence == <<disk, journal, saved, damaged>>
collector == <<pc, first, last, cursor, pages, events, reasons, failure, rows>>
vars == <<session, player, evidence, collector>>

Started(number) == [started |-> number, next |-> 1, ring |-> <<>>, dropped |-> 0, elapsed |-> 0]
NoSession == Started(0)

Init ==
    /\ session = Started(1)
    /\ player = "same" /\ disk = "ok"
    /\ pc = "capabilities"
    /\ first = NoSession /\ last = NoSession
    /\ cursor = 0 /\ pages = 0 /\ events = <<>>
    /\ reasons = {} /\ failure = "none"
    /\ rows = <<>> /\ journal = 0 /\ saved = "none" /\ damaged = FALSE

-----------------------------------------------------------------------------
(* The player                                                              *)

\* An event has a number even when it is dropped, by its rate or its size;
\* the ring drops the oldest.
Record ==
    /\ player = "same" /\ session.next =< MaxSeq
    /\ \E kept \in BOOLEAN :
         LET ring == IF kept THEN Append(session.ring, session.next) ELSE session.ring
             full == Len(ring) > RingSize
         IN session' = [session EXCEPT
                !.next = @ + 1,
                !.ring = IF full THEN Tail(ring) ELSE ring,
                !.dropped = @ + (IF kept THEN 0 ELSE 1) + (IF full THEN 1 ELSE 0)]
    /\ UNCHANGED <<player, evidence, collector>>

Tick ==
    /\ session.elapsed < MaxElapsed
    /\ session' = [session EXCEPT !.elapsed = @ + 1]
    /\ UNCHANGED <<player, evidence, collector>>

Replace ==
    /\ player = "same" /\ session.started = 1
    /\ session' = Started(2)
    /\ UNCHANGED <<player, evidence, collector>>

Restart ==
    /\ player = "same"
    /\ player' \in {"restarted", "older"}
    /\ UNCHANGED <<session, evidence, collector>>

DiskFills ==
    /\ disk = "ok"
    /\ disk' = "full"
    /\ UNCHANGED <<session, player, journal, saved, damaged, collector>>

Damage ==
    /\ saved # "none" /\ ~damaged
    /\ damaged' = TRUE
    /\ UNCHANGED <<session, player, disk, journal, saved, collector>>

\* What is kept starts behind what the ring dropped.
FirstKept(s) == IF s.ring = <<>> THEN s.next ELSE Head(s.ring)

\* How many of ascending numbers are not above a bound.
UpTo(numbers, bound) == Cardinality({i \in 1 .. Len(numbers) : numbers[i] =< bound})

\* The page behind a number: its events, and where the next one starts.
Page(after) ==
    LET ring == session.ring
        skipped == UpTo(ring, after)
        more == skipped + PageSize < Len(ring)
        end == IF more THEN skipped + PageSize ELSE Len(ring)
    IN [events |-> SubSeq(ring, skipped + 1, end),
        next |-> IF more THEN ring[end] ELSE session.next - 1,
        lost |-> FirstKept(session) > after + 1]

-----------------------------------------------------------------------------
(* A request                                                               *)

\* It is recorded before it is sent.
Ask(state) ==
    /\ disk = "ok"
    /\ journal' = journal + 1
    /\ rows' = Append(rows, state)
    /\ UNCHANGED <<session, player, disk, saved, damaged>>

\* The states of a request that did not succeed, and what the export gives as
\* its reason.  A rejection whose details are not those of a recording is not
\* understood, and the request stays "sent".
Failures ==
    {[state |-> "unconfirmed", reason |-> "transport_error"],
     [state |-> "confirmed_late", reason |-> "deadline_exceeded"]}
    \cup
    (CASE player = "restarted" -> {[state |-> "rejected", reason |-> "runtime_mismatch"]}
       [] player = "older" -> {[state |-> "sent", reason |-> "invalid_response"]}
       [] OTHER -> {})

Fails(reason) ==
    /\ failure' = reason
    /\ pc' = "finish"

\* No request is sent any more: the deadline has passed, or the disk is full.
Unsent == IF disk = "ok" THEN "deadline_exceeded" ELSE "operation_failed"

Setup ==
    /\ pc = "capabilities"
    /\ \/ /\ Ask("confirmed") /\ player # "older"
          /\ pc' = "status" /\ UNCHANGED failure
       \/ /\ Ask("unconfirmed") /\ Fails("transport_error")
       \/ /\ Ask("confirmed") /\ player = "older" /\ Fails("unsupported")
       \/ /\ Fails(Unsent) /\ UNCHANGED <<session, player, evidence, rows>>
    /\ UNCHANGED <<first, last, cursor, pages, events, reasons>>

\* The first answer freezes the number up to which the export reads.
Status ==
    /\ pc = "status"
    /\ \/ /\ Ask("confirmed") /\ player = "same"
          /\ first' = session /\ last' = session
          /\ pc' = "read" /\ UNCHANGED failure
       \/ \E f \in Failures :
            /\ Ask(f.state) /\ Fails(f.reason)
            /\ UNCHANGED <<first, last>>
       \/ /\ Fails(Unsent) /\ UNCHANGED <<session, player, evidence, rows, first, last>>
    /\ UNCHANGED <<cursor, pages, events, reasons>>

Highwater == first.next - 1

\* A variant that knows a session by its name only.
SameName(s) == TRUE

\* A session is the same if it has also been running since the same time.
Same(s) == s.started = first.started

\* collect: the page is checked event by event, and a failure keeps what was
\* read so far.
Taken(page) == SubSeq(page.events, 1, UpTo(page.events, Highwater))

Gap(taken) ==
    \E i \in 1 .. Len(taken) :
        taken[i] # (IF i > 1 THEN taken[i - 1]
                    ELSE IF events = <<>> THEN 0 ELSE events[Len(events)].seq) + 1

Known(reason, holds) == IF holds THEN {reason} ELSE {}

Numbered(taken) == [i \in 1 .. Len(taken) |-> [seq |-> taken[i], of |-> session.started]]

TakePage ==
    LET page == Page(cursor)
        taken == Taken(page)
        fits == Len(events) + Len(taken) =< MaxEvents
        shown == IF fits THEN taken ELSE SubSeq(taken, 1, MaxEvents - Len(events))
    IN IF session.elapsed < last.elapsed
       THEN /\ reasons' = reasons \cup {"session_clock_regressed"} /\ pc' = "conclude"
            /\ UNCHANGED <<events, cursor>>
       ELSE IF ~Same(session)
       THEN /\ reasons' = reasons \cup {"session_changed"} /\ pc' = "conclude"
            /\ UNCHANGED <<events, cursor>>
       ELSE /\ reasons' = reasons \cup Known("discarded_prefix", page.lost)
                            \cup Known("sequence_gap", Gap(shown))
                            \cup Known("export_event_limit", ~fits)
            /\ events' = events \o Numbered(shown)
            /\ IF fits THEN cursor' = page.next /\ pc' = "read"
                       ELSE UNCHANGED cursor /\ pc' = "conclude"

Read ==
    /\ pc = "read" /\ cursor < Highwater /\ pages < MaxPages
    /\ \/ /\ Ask("confirmed") /\ player = "same"
          /\ pages' = pages + 1 /\ last' = session
          /\ TakePage
       \/ \E f \in Failures :
            /\ Ask(f.state)
            /\ reasons' = reasons \cup {f.reason} /\ pc' = "conclude"
            /\ UNCHANGED <<pages, last, events, cursor>>
       \/ /\ disk = "ok"
          /\ reasons' = reasons \cup {Unsent} /\ pc' = "conclude"
          /\ UNCHANGED <<session, player, evidence, rows, pages, last, events, cursor>>
    /\ UNCHANGED <<first, failure>>

\* A full disk, or an interrupt, leaves no export.
ReadBroken ==
    /\ pc = "read"
    /\ Fails(IF disk = "full" THEN "operation_failed" ELSE "interrupted")
    /\ UNCHANGED <<session, player, evidence, first, last, cursor, pages, events, reasons, rows>>

Reached == pc = "read" /\ (cursor >= Highwater \/ pages = MaxPages)

Conclude ==
    /\ Reached \/ pc = "conclude"
    /\ reasons' = reasons
         \cup Known("page_limit", pc = "read" /\ cursor < Highwater)
         \cup Known("events_dropped", first.dropped > 0 \/ last.dropped > 0)
         \cup Known("missing_tail", Highwater > 0 /\ (events = <<>> \/ events[Len(events)].seq < Highwater))
    /\ pc' = "finish"
    /\ UNCHANGED <<session, player, evidence, first, last, cursor, pages, events, failure, rows>>

Complete == failure = "none" /\ reasons = {}

\* The result, and then the manifest of all files: without it the evidence is
\* not complete.
Finish ==
    /\ pc = "finish"
    /\ saved' = IF disk = "ok" THEN "manifest" ELSE saved
    /\ pc' = "end"
    /\ UNCHANGED <<session, player, disk, journal, damaged, first, last, cursor, pages, events,
                   reasons, failure, rows>>

FinishTorn ==
    /\ pc = "finish" /\ disk = "ok"
    /\ saved' = "result" /\ disk' = "full"
    /\ pc' = "end"
    /\ UNCHANGED <<session, player, journal, damaged, first, last, cursor, pages, events, reasons,
                   failure, rows>>

-----------------------------------------------------------------------------
(* Its verification                                                        *)

\* The files are those the manifest names, unchanged.
Integrity == saved = "manifest" /\ ~damaged

RequestsValid ==
    /\ journal = Len(rows)
    /\ \A i \in 1 .. Len(rows) :
         /\ rows[i] \in {"confirmed", "confirmed_late", "unconfirmed", "rejected"}
         /\ i < Len(rows) => rows[i] = "confirmed"

\* What the saved events and sessions prove, the export must say.
Mandatory ==
    Known("session_changed", ~Same(last))
    \cup Known("session_clock_regressed", last.elapsed < first.elapsed)
    \cup Known("events_dropped", first.dropped > 0 \/ last.dropped > 0)
    \cup Known("discarded_prefix", FirstKept(first) > 1 /\ events # <<>>)
    \cup Known("sequence_gap", \E i \in 1 .. Len(events) :
                   events[i].seq # (IF i = 1 THEN 0 ELSE events[i - 1].seq) + 1)
    \cup Known("missing_tail", (IF events = <<>> THEN 0 ELSE events[Len(events)].seq) < Highwater)

CaptureValid ==
    /\ Mandatory \subseteq reasons
    /\ "page_limit" \in reasons => pages = MaxPages
    /\ rows[Len(rows)] # "confirmed" => reasons # {}
    /\ pages = Cardinality({i \in 3 .. Len(rows) : rows[i] = "confirmed"})

\* Its verdict: "observed" for a complete export, "unknown" for a partial one
\* or none, and "error".
Valid == Integrity /\ RequestsValid /\ (failure = "none" => CaptureValid)

Verdict == IF ~Valid THEN "error" ELSE IF Complete THEN "observed" ELSE "unknown"

-----------------------------------------------------------------------------
World == Record \/ Tick \/ Replace \/ Restart \/ DiskFills \/ Damage

Next == World \/ Setup \/ Status \/ Read \/ ReadBroken \/ Conclude \/ Finish \/ FinishTorn

Spec == Init /\ [][Next]_vars

-----------------------------------------------------------------------------
(* Correctness                                                             *)

\* An export that is complete, or verified as such later, holds every event
\* of the one session it started with, up to the last one at that time, each
\* once and in order.
ExportExact ==
    pc = "end" /\ (Complete \/ Verdict = "observed") =>
        events = [n \in 1 .. Highwater |-> [seq |-> n, of |-> first.started]]
=============================================================================
