---------------------------- MODULE MetadataCache ----------------------------
(* MetadataClient (model_metadata.py): a cache of public documents about       *)
(* models, read and refreshed by concurrent requests of the dashboard. One     *)
(* lock guards the entries, another one admits a single fetch at a time,       *)
(* whatever its source; a source is not asked again for a while after an       *)
(* attempt, and an entry has a lifetime of its own and a longest one.          *)
(*                                                                             *)
(* What a source publishes is a version, which later ones replace for good; a  *)
(* validator is the version it was issued for, and an entry notes, for the     *)
(* properties, whether it was the current version when the source answered. A  *)
(* reader is one call of _source: lookup makes one for each of its sources in  *)
(* turn, and what it makes of the documents is a pure function of them and not *)
(* modelled.                                                                   *)
EXTENDS Integers, FiniteSets, FiniteSetsExt

CONSTANTS
    Readers,            \* calls of _source
    Sources,            \* models_dev, models_dev_catalog, ...
    CacheTtl,           \* CACHE_TTL
    RefreshInterval,    \* REFRESH_INTERVAL
    MaxAges,            \* max-age values a source may send
    MaxTime,            \* bound: the clock
    MaxVersion,         \* bound: versions of a document
    Absent              \* None

VARIABLES
    clock,          \* time.monotonic
    published,      \* version of each source
    cache,          \* entry of each source, or Absent
    lastAttempt,    \* when it was last asked, or Absent
    fetcher,        \* the reader that holds fetch_lock, or Absent
    reader          \* each lookup: the step it is at and its locals

vars == <<clock, published, cache, lastAttempt, fetcher, reader>>

Idle == [at |-> "idle", source |-> Absent, refresh |-> FALSE, now |-> 0,
         entry |-> Absent, stale |-> FALSE, keep |-> FALSE, fetched |-> FALSE]

\* What an earlier call may have stored at the time everything begins.
EarlierEntries ==
    {[version |-> 0, current |-> TRUE, storedAt |-> 0, ttl |-> Min({age, CacheTtl}),
      validator |-> validator] : age \in MaxAges, validator \in {0, Absent}}

Init ==
    /\ clock = 0
    /\ published = [s \in Sources |-> 0]
    /\ cache \in [Sources -> EarlierEntries \cup {Absent}]
    /\ lastAttempt = [s \in Sources |-> IF cache[s] = Absent THEN Absent ELSE 0]
    /\ fetcher = Absent
    /\ reader = [r \in Readers |-> Idle]

Set(r, changes) == reader' = [reader EXCEPT ![r] = changes]

-----------------------------------------------------------------------------
(* The world. *)

Tick ==
    /\ clock < MaxTime
    /\ clock' = clock + 1
    /\ UNCHANGED <<published, cache, lastAttempt, fetcher, reader>>

Publish(s) ==
    /\ published[s] < MaxVersion
    /\ published' = [published EXCEPT ![s] = @ + 1]
    /\ UNCHANGED <<clock, cache, lastAttempt, fetcher, reader>>

-----------------------------------------------------------------------------
(* _source. *)

\* The clock is read before the lock is taken.
Lookup(r, s, refresh) ==
    /\ reader[r].at = "idle"
    /\ Set(r, [Idle EXCEPT !.at = "check", !.source = s, !.refresh = refresh,
                           !.now = clock])
    /\ UNCHANGED <<clock, published, cache, lastAttempt, fetcher>>

\* Negative for an entry stored since the lookup began.
Age(entry, now) == now - entry.storedAt

IsFresh(entry, now) == entry # Absent /\ Age(entry, now) < entry.ttl

\* Mutant: an entry is kept beyond its longest lifetime.
UnexpiredForever(entry, now) == entry

Unexpired(entry, now) ==
    IF entry # Absent /\ Age(entry, now) >= CacheTtl THEN Absent ELSE entry

\* What the lookup answers; the entry it saw counts, not the one of now.
Answer(r, entry, stale) ==
    [reader[r] EXCEPT !.at = "answer", !.entry = entry, !.stale = stale,
                      !.refresh = FALSE]

\* Under the lock: an expired entry is dropped, a fresh one is the answer unless
\* a refresh is asked for, and a source that was just asked is left alone.
Check(r) ==
    LET s == reader[r].source
        now == reader[r].now
        entry == Unexpired(cache[s], now)
        fresh == IsFresh(entry, now)
        recent == lastAttempt[s] # Absent /\ now - lastAttempt[s] < RefreshInterval
    IN  /\ reader[r].at = "check"
        /\ cache' = [cache EXCEPT ![s] = entry]
        /\ Set(r, IF fresh /\ ~reader[r].refresh THEN Answer(r, entry, FALSE)
                  ELSE IF recent THEN Answer(r, entry, ~fresh)
                  ELSE [reader[r] EXCEPT !.at = "acquire", !.entry = entry,
                                         !.stale = ~fresh])
        /\ UNCHANGED <<clock, published, lastAttempt, fetcher>>

\* fetch_lock without waiting: a lookup that finds it taken answers with what it
\* has.
Acquire(r) ==
    /\ reader[r].at = "acquire"
    /\ IF fetcher = Absent
       THEN /\ fetcher' = r
            /\ Set(r, [reader[r] EXCEPT !.at = "attempt", !.stale = FALSE,
                                        !.refresh = FALSE])
       ELSE /\ Set(r, Answer(r, reader[r].entry, reader[r].stale))
            /\ UNCHANGED fetcher
    /\ UNCHANGED <<clock, published, cache, lastAttempt>>

\* The attempt is dated when the lookup began.
Attempt(r) ==
    /\ reader[r].at = "attempt"
    /\ lastAttempt' = [lastAttempt EXCEPT ![reader[r].source] = reader[r].now]
    /\ Set(r, [reader[r] EXCEPT !.at = "fetch"])
    /\ UNCHANGED <<clock, published, cache, fetcher>>

\* The source answers, outside the lock: with its document, or that the one of
\* the validators is still good, with a lifetime (none if it is not to be
\* stored) and with validators or without.
Respond(r, ttl, store, validated) ==
    LET s == reader[r].source
        old == reader[r].entry
        unmodified == old # Absent /\ old.validator = published[s]
        version == IF unmodified THEN old.version ELSE published[s]
        validator == IF validated THEN published[s]
                     ELSE IF old # Absent THEN old.validator ELSE Absent
    IN  /\ reader[r].at = "fetch"
        /\ ~store => ttl = 0
        /\ Set(r, [reader[r] EXCEPT
              !.at = "store", !.keep = store,
              !.entry = [version |-> version, current |-> version = published[s],
                         storedAt |-> 0, ttl |-> Min({ttl, CacheTtl}),
                         validator |-> validator]])
        /\ UNCHANGED <<clock, published, cache, lastAttempt, fetcher>>

\* The entry is dated after it was read, and stored or dropped under the lock.
Store(r) ==
    LET entry == [reader[r].entry EXCEPT !.storedAt = clock]
    IN  /\ reader[r].at = "store"
        /\ cache' = [cache EXCEPT ![reader[r].source] =
                        IF reader[r].keep THEN entry ELSE Absent]
        /\ Set(r, [Answer(r, entry, FALSE) EXCEPT !.fetched = TRUE, !.keep = FALSE])
        /\ fetcher' = Absent
        /\ UNCHANGED <<clock, published, lastAttempt>>

\* No answer, or one that cannot be used: the entry counts as stale.
FetchFails(r) ==
    /\ reader[r].at = "fetch"
    /\ Set(r, Answer(r, reader[r].entry, TRUE))
    /\ fetcher' = Absent
    /\ UNCHANGED <<clock, published, cache, lastAttempt>>

Next ==
    \/ Tick
    \/ \E s \in Sources : Publish(s)
    \/ \E r \in Readers :
          \/ \E s \in Sources, refresh \in BOOLEAN : Lookup(r, s, refresh)
          \/ Check(r) \/ Acquire(r) \/ Attempt(r) \/ Store(r) \/ FetchFails(r)
          \/ \E ttl \in MaxAges, store, validated \in BOOLEAN :
                Respond(r, ttl, store, validated)

Finished == \A r \in Readers : reader[r].at = "answer"

-----------------------------------------------------------------------------
(* Properties. *)

Steps == {"idle", "check", "acquire", "attempt", "fetch", "store", "answer"}

TypeOK ==
    /\ clock \in 0..MaxTime
    /\ \A r \in Readers : reader[r].at \in Steps /\ reader[r].now <= clock
    /\ \A s \in Sources :
          cache[s] # Absent =>
              cache[s].ttl <= CacheTtl /\ cache[s].version \in 0..published[s]
    /\ fetcher # Absent <=>
          \E r \in Readers : reader[r].at \in {"attempt", "fetch", "store"}

\* An answer rests on the document its source published when it last answered,
\* which was after the lookup began or less than CACHE_TTL before; an answer
\* that is not called stale is within the lifetime the source gave it.
AnswersHonestly ==
    \A r \in Readers :
        LET entry == reader[r].entry
        IN  reader[r].at = "answer" =>
              /\ entry = Absent => reader[r].stale
              /\ entry # Absent =>
                    /\ entry.current
                    /\ reader[r].now < entry.storedAt + CacheTtl
                    /\ ~reader[r].stale =>
                          \/ reader[r].fetched
                          \/ reader[r].now < entry.storedAt + entry.ttl

=============================================================================
