--------------------------- MODULE ProgrammeSearch ---------------------------
(***************************************************************************)
(* "ott PLAYER p TITLE" over the public guide: _server_programs of         *)
(* cli/ott.py and cli/programme_search.py.  A search asks the guide for    *)
(* the matching programmes on now, batch by batch; without one it reads    *)
(* the history of every channel, has the player resolve and probes the     *)
(* recordings, and plays the one it has chosen.                            *)
(*                                                                         *)
(* Everything moves meanwhile: time, across the starts and ends of         *)
(* programmes and the limit of retention, the generation of the guide, and *)
(* the catalogue of the player.  Mappings, histories, probes and results   *)
(* are cached, and a guide that cannot be reached is replaced by a local   *)
(* one.  One programme of each channel matches the query.                  *)
(***************************************************************************)
EXTENDS Naturals, FiniteSets, Sequences

CONSTANTS
    Channels,
    Plans,          \* what the guides may say: service -> generation -> channel -> [start, end]
    Retention,      \* how long a channel keeps recordings
    Lifetime,       \* of cached mappings, histories and results (GUIDE_TTL)
    MaxSplits,      \* divisions of timed out batches
    MaxGeneration, MaxCatalog, MaxChanges, MaxTime, MaxSearches

Services == {"remote", "local"}

SearchAssumption ==
    /\ Plans \subseteq [Services -> [1..MaxGeneration -> [Channels -> [start : Nat, end : Nat]]]]
    /\ Retention \in Nat /\ Lifetime \in Nat /\ MaxSplits \in Nat /\ MaxGeneration \in Nat \ {0}

VARIABLES
    now, catalog,   \* the time, and the revision of the player's catalogue
    guide,          \* service -> generation -> what it says
    generation,     \* service -> the current one
    mappings,       \* cache: [service, generation, until]
    histories,      \* cache: [service, generation, channel]
    probes,         \* cache: [catalog, channel, start]
    results,        \* cache: [service, catalog, generation, rows, until]
    pc, service,
    search,         \* [catalog, generation, attempt, splits, fast, until, cached]
    batches,        \* the batches still to ask for
    left,           \* channels to read, or recordings to check
    rows,           \* [channel, start, end, mode]
    at,             \* when the rows were last confirmed
    searches, report,
    played          \* history: what this search has played: [channel, start, end, mode, catalog, at]

world == <<now, catalog, guide, generation>>
caches == <<mappings, histories, probes, results>>
query == <<pc, service, search, batches, left, rows, at, searches, report>>
vars == <<world, caches, query, played>>

NoSearch == [catalog |-> 0, generation |-> 0, attempt |-> 1, splits |-> 0, fast |-> FALSE,
             until |-> 0, cached |-> FALSE]

Init ==
    /\ now = 0 /\ catalog = 1
    /\ guide \in Plans
    /\ generation = [s \in Services |-> 1]
    /\ mappings = {} /\ histories = {} /\ probes = {} /\ results = {}
    /\ pc = "idle" /\ service = "remote" /\ search = NoSearch
    /\ batches = <<>> /\ left = {} /\ rows = {} /\ at = 0
    /\ searches = 0 /\ report = "none" /\ played = {}

----------------------------------------------------------------------------
(* What a guide says at a time. *)

Row(g, c, mode) == [channel |-> c, start |-> g[c].start, end |-> g[c].end, mode |-> mode]
Current(g, t) == {Row(g, c, "live") : c \in {d \in Channels : g[d].start <= t /\ t < g[d].end}}
Kept(r, t) == t <= r.start + Retention /\ r.end <= t
Recordings(g, t) == {r \in {Row(g, c, "archive") : c \in Channels} : Kept(r, t)}
Used == guide[service][search.generation]

\* Starts and ends still to come end the life of a result.
Boundaries(g, t) == {b \in UNION {{g[c].start, g[c].end} : c \in Channels} : b > t}
Earliest(S) == CHOOSE x \in S : \A y \in S : x <= y

----------------------------------------------------------------------------
(* Programmes on now. *)

Begin ==
    /\ pc \in {"idle", "done"} /\ searches < MaxSearches /\ searches' = searches + 1
    /\ \E f \in BOOLEAN : search' = [NoSearch EXCEPT !.fast = f]
    /\ pc' = "catalog" /\ service' = "remote" /\ rows' = {} /\ at' = 0 /\ report' = "none"
    /\ played' = {} /\ UNCHANGED <<world, caches, batches, left>>

ReadCatalog ==
    /\ pc = "catalog" /\ pc' = "current"
    /\ search' = [search EXCEPT !.catalog = catalog] /\ batches' = <<Channels>>
    /\ UNCHANGED <<world, caches, played, service, left, rows, at, searches, report>>

Ends(what) ==
    /\ pc' = "done" /\ report' = what /\ service' = "remote" /\ search' = NoSearch
    /\ rows' = {} /\ batches' = <<>> /\ left' = {} /\ at' = 0
    /\ UNCHANGED searches

\* Every batch must be of one generation.
Batch ==
    /\ pc = "current" /\ batches # <<>>
    /\ LET g == generation[service]
       IN  IF search.generation \in {0, g}
           THEN /\ search' = [search EXCEPT !.generation = g] /\ batches' = Tail(batches)
                /\ rows' = rows \cup {r \in Current(guide[service][g], now) : r.channel \in Head(batches)}
                /\ UNCHANGED <<pc, service, left, at, searches, report>>
           ELSE Ends("failed")
    /\ UNCHANGED <<world, caches, played>>

\* A batch that timed out at the service is divided, in order.
Split ==
    /\ pc = "current" /\ batches # <<>> /\ Cardinality(Head(batches)) > 1 /\ search.splits < MaxSplits
    /\ \E part \in SUBSET Head(batches) :
         /\ part # {} /\ Cardinality(part) = Cardinality(Head(batches)) \div 2
         /\ batches' = <<part, Head(batches) \ part>> \o Tail(batches)
    /\ search' = [search EXCEPT !.splits = @ + 1]
    /\ UNCHANGED <<world, caches, played, pc, service, left, rows, at, searches, report>>

\* A guide out of reach, before anything has been chosen: the whole search is
\* made again with the local one, if it has not been yet.
Unavailable ==
    /\ pc \in {"current", "mapping", "history"}
    /\ IF service = "remote"
       THEN /\ service' = "local" /\ pc' = "catalog" /\ rows' = {} /\ batches' = <<>>
            /\ search' = [NoSearch EXCEPT !.fast = search.fast]
            /\ UNCHANGED <<left, at, searches, report>>
       ELSE Ends("failed")
    /\ UNCHANGED <<world, caches, played>>

Listed ==
    /\ pc = "current" /\ batches = <<>>
    /\ LET live == {r \in rows : r.start <= now /\ now < r.end}
       IN  IF live # {} THEN pc' = "choose" /\ rows' = live /\ at' = now
                        ELSE pc' = "results" /\ rows' = {} /\ UNCHANGED at
    /\ UNCHANGED <<world, caches, played, service, search, batches, left, searches, report>>

----------------------------------------------------------------------------
(* Recordings. *)

\* A result found before, for this catalogue.  A quick search does not use one.
Cached ==
    /\ pc = "results"
    /\ \/ \E k \in results :
            /\ ~search.fast /\ k.service = service /\ k.catalog = search.catalog /\ now < k.until
            /\ \A r \in k.rows : Kept(r, now)
            /\ rows' = k.rows /\ pc' = "confirm"
            /\ search' = [search EXCEPT !.cached = TRUE, !.until = k.until, !.generation = k.generation]
       \/ pc' = "mapping" /\ UNCHANGED <<rows, search>>
    /\ UNCHANGED <<world, caches, played, service, batches, left, at, searches, report>>

\* The generation of the mapping, cached or read, is that of every history.
Mapping ==
    /\ pc = "mapping" /\ pc' = "history" /\ left' = Channels
    /\ \/ \E k \in mappings :
            /\ k.service = service /\ now < k.until /\ search.attempt = 1
            /\ search' = [search EXCEPT !.generation = k.generation, !.until = k.until]
            /\ UNCHANGED mappings
       \/ /\ search' = [search EXCEPT !.generation = generation[service], !.until = now + Lifetime]
          /\ mappings' = {k \in mappings : k.service # service} \cup
                         {[service |-> service, generation |-> generation[service], until |-> now + Lifetime]}
    /\ UNCHANGED <<world, histories, probes, results, played, service, batches, rows, at, searches, report>>

\* A guide that changes in the middle is read once more from the start.
History(c) ==
    /\ pc = "history" /\ c \in left
    /\ LET entry == [service |-> service, generation |-> search.generation, channel |-> c]
       IN  \/ /\ entry \in histories \/ generation[service] = search.generation
              /\ histories' = histories \cup {entry} /\ left' = left \ {c}
              /\ UNCHANGED <<pc, service, search, batches, rows, at, searches, report>>
           \/ /\ generation[service] # search.generation
              /\ UNCHANGED histories
              /\ IF search.attempt = 1
                 THEN /\ pc' = "mapping" /\ search' = [search EXCEPT !.attempt = 2]
                      /\ UNCHANGED <<service, batches, left, rows, at, searches, report>>
                 ELSE Ends("failed")
    /\ UNCHANGED <<world, mappings, probes, results, played>>

\* A programme that has started meanwhile comes first.
Select ==
    /\ pc = "history" /\ left = {}
    /\ rows' = Current(Used, now)
    /\ left' = IF rows' = {} THEN {r.channel : r \in Recordings(Used, now)} ELSE {}
    /\ pc' = "verify"
    /\ UNCHANGED <<world, caches, played, service, search, batches, at, searches, report>>

\* The player resolves the recording for its catalogue, and the media is probed.
\* A quick search stops at the first that answers; a failed probe is not cached.
Probe(c) == [catalog |-> search.catalog, channel |-> c, start |-> Used[c].start]
Verify(c) ==
    /\ pc = "verify" /\ c \in left
    /\ LET r == Row(Used, c, "archive")
           Found == rows' = rows \cup {r} /\ left' = IF search.fast THEN {} ELSE left \ {c}
           Passed == left' = left \ {c} /\ UNCHANGED <<rows, probes>>
       IN  \/ ~Kept(r, now) /\ Passed
           \/ Kept(r, now) /\ Probe(c) \in probes /\ Found /\ UNCHANGED probes
           \/ /\ Kept(r, now) /\ Probe(c) \notin probes /\ catalog = search.catalog
              /\ Passed \/ (Found /\ probes' = probes \cup {Probe(c)})
    /\ UNCHANGED <<world, mappings, histories, results, played, pc, service, search, batches, at, searches, report>>

\* Probes take their time: what is on is looked at again, and retention.  A full
\* result is kept until the next start or end.
Settle ==
    /\ pc = "verify" /\ left = {} /\ pc' = "confirm"
    /\ LET live == Current(Used, now)
           kept == {r \in rows : r.mode = "archive" /\ Kept(r, now)}
           until == Earliest({search.until} \cup Boundaries(Used, now))
       IN  /\ rows' = IF live # {} THEN live ELSE kept
           /\ results' = IF search.fast \/ live # {} \/ kept = {} THEN results
                         ELSE {k \in results : k.service # service \/ k.catalog # search.catalog} \cup
                              {[service |-> service, catalog |-> search.catalog, generation |-> search.generation,
                                rows |-> kept, until |-> until]}
    /\ UNCHANGED <<world, mappings, histories, probes, played, service, search, batches, left, at, searches, report>>

\* A variant that does not look again after the catalogue has been read.
ConfirmCatalog ==
    /\ pc = "confirm"
    /\ IF catalog # search.catalog THEN Ends("failed")
       ELSE /\ at' = now /\ pc' = "choose"
            /\ UNCHANGED <<rows, service, search, batches, left, searches, report>>
    /\ UNCHANGED <<world, caches, played>>

\* The catalogue is read again, which takes its time too.
Confirm ==
    /\ pc = "confirm"
    /\ LET live == IF search.cached THEN {} ELSE Current(Used, now)
           kept == IF search.cached /\ now >= search.until THEN {}
                   ELSE {r \in rows : r.mode = "archive" /\ Kept(r, now)}
           final == IF live # {} THEN live ELSE kept
       IN  \/ catalog # search.catalog /\ Ends("failed")
           \/ catalog = search.catalog /\ final = {} /\ Ends("nothing")
           \/ /\ catalog = search.catalog /\ final # {}
              /\ rows' = final /\ at' = now /\ pc' = "choose"
              /\ UNCHANGED <<service, search, batches, left, searches, report>>
    /\ UNCHANGED <<world, caches, played>>

\* One programme is played, of the catalogue that was searched; an unconfirmed
\* play is not repeated.
Play ==
    /\ pc = "choose"
    /\ \E r \in rows :
         LET p == [channel |-> r.channel, start |-> r.start, end |-> r.end, mode |-> r.mode,
                   catalog |-> catalog, at |-> now]
         IN  \/ /\ r.mode = "live" => r.start <= now /\ now < r.end
                /\ catalog = search.catalog
                /\ played' = played \cup {p} /\ report' \in {"played", "unconfirmed"}
             \/ /\ r.mode = "live" => r.start <= now /\ now < r.end
                /\ UNCHANGED played /\ report' = IF catalog = search.catalog THEN "unconfirmed" ELSE "failed"
             \/ ~(r.mode = "live" => r.start <= now /\ now < r.end) /\ UNCHANGED played /\ report' = "failed"
    /\ pc' = "done" /\ rows' = {} /\ at' = 0
    /\ UNCHANGED <<world, caches, service, search, batches, left, searches>>

List ==
    /\ pc = "choose" /\ Ends("listed")
    /\ UNCHANGED <<world, caches, played>>

\* The deadline, an interrupt, an error.
Stop == pc \notin {"idle", "done"} /\ Ends("failed") /\ UNCHANGED <<world, caches, played>>

----------------------------------------------------------------------------
(* Time, the guides and the player; bounded by MaxTime, MaxGeneration,
   MaxCatalog and, together, by MaxChanges. *)

Changes == (catalog - 1) + (generation["remote"] - 1) + (generation["local"] - 1)

Tick == now < MaxTime /\ now' = now + 1 /\ UNCHANGED <<catalog, guide, generation, caches, query, played>>

Publish(s) ==
    /\ Changes < MaxChanges /\ generation[s] < MaxGeneration
    /\ generation' = [generation EXCEPT ![s] = @ + 1]
    /\ UNCHANGED <<now, catalog, guide, caches, query, played>>

ChangeCatalog ==
    /\ Changes < MaxChanges /\ catalog < MaxCatalog /\ catalog' = catalog + 1
    /\ UNCHANGED <<now, guide, generation, caches, query, played>>

----------------------------------------------------------------------------
Next ==
    \/ Begin \/ ReadCatalog \/ Batch \/ Split \/ Unavailable \/ Listed
    \/ Cached \/ Mapping \/ (\E c \in Channels : History(c) \/ Verify(c)) \/ Select \/ Settle \/ Confirm
    \/ Play \/ List \/ Stop
    \/ Tick \/ (\E s \in Services : Publish(s)) \/ ChangeCatalog

Spec == Init /\ [][Next]_vars

----------------------------------------------------------------------------
\* What a search offers is true when it is offered, and of one generation of one
\* guide: programmes on now, or else, when none is on, recordings that have
\* ended, are kept and were probed for this catalogue.  What is played is on the
\* channels of the catalogue searched, and a programme on now has not ended; a
\* search that reports a failure has played nothing.
SoundSelection ==
    /\ pc = "choose" =>
         /\ rows # {}
         /\ \/ rows \subseteq Current(Used, at)
            \/ /\ rows \subseteq Recordings(Used, at) /\ Current(Used, at) = {}
               /\ \A r \in rows : Probe(r.channel) \in probes
    /\ \A p \in played :
         /\ p.mode = "live" => p.start <= p.at /\ p.at < p.end
         /\ p.catalog = search.catalog /\ report \in {"played", "unconfirmed"}
=============================================================================
