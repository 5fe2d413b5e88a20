---------------------------- MODULE ServicesProofs ----------------------------
(* Proofs about the parts of Services for every value of their constants. The  *)
(* parts share no variable, so each has an inductive invariant of its own,     *)
(* which only its own steps can disturb.                                       *)
EXTENDS Services, Sequences, FiniteSetTheorems, WellFoundedInduction, TLAPS

-----------------------------------------------------------------------------
(* The cache of model metadata. *)

MetadataEntry ==
    [version : Nat, current : BOOLEAN, storedAt : Nat, ttl : Nat,
     validator : Nat \cup {None}]

MetadataReader ==
    [at : M!Steps, source : Sources \cup {None}, refresh : BOOLEAN, now : Nat,
     entry : MetadataEntry \cup {None}, stale : BOOLEAN, keep : BOOLEAN,
     fetched : BOOLEAN]

MetadataTypes ==
    /\ clock \in 0..MaxTime
    /\ published \in [Sources -> Nat]
    /\ cache \in [Sources -> MetadataEntry \cup {None}]
    /\ reader \in [Readers -> MetadataReader]

\* A validator is of a version the source has published, and one of the latest
\* version comes with its document: an answer "not modified" then confirms the
\* latest version, which is why a validator that is kept does no harm.
Validated(s, e) ==
    /\ e.version <= published[s]
    /\ e.validator # None =>
          /\ e.validator <= published[s]
          /\ e.validator = published[s] => e.version = published[s]

\* What an entry of the cache may be.
EntryIsSound(s, e) ==
    /\ e.current /\ e.ttl <= CacheTtl /\ e.storedAt <= clock
    /\ Validated(s, e)

CacheIsSound == \A s \in Sources : cache[s] # None => EntryIsSound(s, cache[s])

\* One reader at a time is between taking the lock that admits a fetch and
\* releasing it.
Fetches(r) == reader[r].at \in {"attempt", "fetch", "store"}

FetchIsExclusive ==
    /\ \A r \in Readers : Fetches(r) => fetcher = r
    /\ fetcher # None => fetcher \in Readers /\ Fetches(fetcher)

\* What a reader holds in its locals at each step.
ReaderIsSound(r) ==
    LET own == reader[r]
    IN  /\ own.now <= clock
        /\ own.at # "idle" => own.source \in Sources
        /\ own.at \in {"acquire", "attempt", "fetch"} /\ own.entry # None =>
              /\ own.entry.current
              /\ own.now < own.entry.storedAt + CacheTtl
              /\ Validated(own.source, own.entry)
        /\ own.at = "acquire" /\ own.entry = None => own.stale
        /\ own.at = "acquire" /\ own.entry # None /\ ~own.stale =>
              own.now < own.entry.storedAt + own.entry.ttl
        /\ own.at = "store" =>
              /\ own.entry # None
              /\ own.entry.current /\ own.entry.ttl <= CacheTtl
              /\ Validated(own.source, own.entry)
        /\ own.at = "answer" =>
              /\ own.entry = None => own.stale
              /\ own.entry # None =>
                    /\ own.entry.current
                    /\ own.now < own.entry.storedAt + CacheTtl
                    /\ ~own.stale =>
                          \/ own.fetched
                          \/ own.now < own.entry.storedAt + own.entry.ttl

ReadersAreSound == \A r \in Readers : ReaderIsSound(r)

MetadataInv ==
    MetadataTypes /\ CacheIsSound /\ FetchIsExclusive /\ ReadersAreSound

\* The smaller of two numbers is one of them and bounds both.
LEMMA MinOfTwo ==
    ASSUME NEW a \in Nat, NEW b \in Nat
    PROVE  /\ M!Min({a, b}) \in Nat
           /\ M!Min({a, b}) <= a /\ M!Min({a, b}) <= b
<1>1. \E x \in {a, b} : \A y \in {a, b} : x <= y
    OBVIOUS
<1>2. M!Min({a, b}) \in {a, b} /\ \A y \in {a, b} : M!Min({a, b}) <= y
    BY <1>1 DEF M!Min
<1> QED
    BY <1>2

\* A step that changes one reader's locals, and leaves the versions, the clock
\* and whose turn it is alone, keeps what is said of the other readers.
LEMMA OtherReaders ==
    ASSUME MetadataInv, NEW r \in Readers, NEW own \in MetadataReader,
           M!Set(r, own), UNCHANGED <<clock, published>>
    PROVE  /\ reader' \in [Readers -> MetadataReader]
           /\ reader'[r] = own
           /\ \A q \in Readers \ {r} : reader'[q] = reader[q] /\ ReaderIsSound(q)'
<1>1. /\ reader' \in [Readers -> MetadataReader]
      /\ reader'[r] = own
      /\ \A q \in Readers \ {r} : reader'[q] = reader[q]
    BY DEF MetadataInv, MetadataTypes, M!Set
<1>2. ASSUME NEW q \in Readers \ {r}
      PROVE  ReaderIsSound(q)'
    BY <1>1, <1>2 DEF MetadataInv, ReadersAreSound, ReaderIsSound, Validated
<1> QED
    BY <1>1, <1>2

\* Time passes: nothing that is dated becomes later than the clock.
LEMMA MetadataTick ==
    MetadataInv /\ M!Tick => MetadataInv'
<1> SUFFICES ASSUME MetadataInv, M!Tick
             PROVE  MetadataInv'
    OBVIOUS
<1> USE MetadataAssumption
<1> USE DEF MetadataInv, M!Tick
<1>1. MetadataTypes'
    BY DEF MetadataTypes
<1>2. CacheIsSound'
    BY DEF MetadataTypes, CacheIsSound, EntryIsSound, Validated, MetadataEntry
<1>3. FetchIsExclusive'
    BY DEF FetchIsExclusive, Fetches
<1>4. ReadersAreSound'
    BY DEF MetadataTypes, MetadataReader, ReadersAreSound, ReaderIsSound, Validated
<1> QED
    BY <1>1, <1>2, <1>3, <1>4

\* A source publishes a version: no validator is of one that is yet to come.
LEMMA MetadataPublish ==
    ASSUME MetadataInv, NEW s \in Sources, M!Publish(s)
    PROVE  MetadataInv'
<1> USE DEF MetadataInv, M!Publish
<1>1. MetadataTypes'
    BY DEF MetadataTypes
<1>2. ASSUME NEW q \in Sources, NEW e \in MetadataEntry, Validated(q, e)
      PROVE  Validated(q, e)'
    <2>1. published[q] \in Nat /\ published'[q] \in Nat /\ published[q] <= published'[q]
        BY DEF MetadataTypes
    <2>2. published'[q] = published[q] \/ published'[q] = published[q] + 1
        BY DEF MetadataTypes
    <2> QED
        BY <1>2, <2>1, <2>2 DEF Validated, MetadataEntry
<1>3. CacheIsSound'
    BY <1>2 DEF MetadataTypes, CacheIsSound, EntryIsSound
<1>4. FetchIsExclusive'
    BY DEF FetchIsExclusive, Fetches
<1>5. ASSUME NEW r \in Readers
      PROVE  ReaderIsSound(r)'
    <2>1. reader[r] \in MetadataReader
        BY DEF MetadataTypes
    <2>2. ReaderIsSound(r)
        BY DEF ReadersAreSound
    <2> QED
        BY <1>2, <2>1, <2>2 DEF ReaderIsSound, MetadataReader
<1> QED
    BY <1>1, <1>3, <1>4, <1>5 DEF ReadersAreSound

\* A lookup begins.
LEMMA MetadataLookup ==
    ASSUME MetadataInv, NEW r \in Readers, NEW s \in Sources,
           NEW refresh \in BOOLEAN, M!Lookup(r, s, refresh)
    PROVE  MetadataInv'
<1> DEFINE own == [M!Idle EXCEPT !.at = "check", !.source = s, !.refresh = refresh,
                                 !.now = clock]
<1> USE MetadataAssumption
<1> USE DEF MetadataInv, M!Lookup
<1>1. M!Idle \in MetadataReader
    BY DEF MetadataReader, M!Idle, M!Steps
<1>2. own \in MetadataReader /\ own.at = "check" /\ own.source = s /\ own.now = clock
    <2>1. clock \in Nat
        BY DEF MetadataTypes
    <2> HIDE DEF MetadataInv, M!Lookup
    <2> QED
        BY <1>1, <2>1 DEF MetadataReader, M!Steps
<1>3. M!Set(r, own)
    OBVIOUS
<1> HIDE DEF own
<1>4. /\ reader' \in [Readers -> MetadataReader]
      /\ reader'[r] = own
      /\ \A q \in Readers \ {r} : reader'[q] = reader[q] /\ ReaderIsSound(q)'
    BY <1>2, <1>3, OtherReaders
<1>5. ReaderIsSound(r)'
    BY <1>2, <1>4 DEF ReaderIsSound, MetadataTypes
<1>6. MetadataTypes' /\ CacheIsSound'
    BY <1>4 DEF MetadataTypes, CacheIsSound, EntryIsSound, Validated
<1>7. FetchIsExclusive'
    BY <1>2, <1>4 DEF FetchIsExclusive, Fetches
<1> QED
    BY <1>4, <1>5, <1>6, <1>7 DEF ReadersAreSound

\* What an answer takes over from the reader, and what it does not.
LEMMA AnswerType ==
    ASSUME MetadataTypes, NEW r \in Readers, NEW entry \in MetadataEntry \cup {None},
           NEW stale \in BOOLEAN
    PROVE  /\ M!Answer(r, entry, stale) \in MetadataReader
           /\ M!Answer(r, entry, stale).at = "answer"
           /\ M!Answer(r, entry, stale).source = reader[r].source
           /\ M!Answer(r, entry, stale).now = reader[r].now
           /\ M!Answer(r, entry, stale).entry = entry
           /\ M!Answer(r, entry, stale).stale = stale
           /\ M!Answer(r, entry, stale).fetched = reader[r].fetched
<1>1. reader[r] \in MetadataReader
    BY DEF MetadataTypes
<1> QED
    BY <1>1 DEF M!Answer, MetadataReader, M!Steps

\* The cache is looked at: what it has is dropped once CACHE_TTL is over, and
\* what is left is the answer or the start of a fetch.
LEMMA MetadataCheck ==
    ASSUME MetadataInv, NEW r \in Readers, M!Check(r)
    PROVE  MetadataInv'
<1> DEFINE s == reader[r].source
           now0 == reader[r].now
           entry == M!Unexpired(cache[s], now0)
           fresh == M!IsFresh(entry, now0)
           stale == ~fresh
           fetching == [reader[r] EXCEPT !.at = "acquire", !.entry = entry,
                                         !.stale = stale]
<1> USE MetadataAssumption
<1>1. /\ reader[r] \in MetadataReader /\ reader[r].at = "check"
      /\ s \in Sources /\ now0 \in Nat /\ now0 <= clock
      /\ cache[s] \in MetadataEntry \cup {None} /\ fresh \in BOOLEAN
      /\ UNCHANGED <<clock, published, lastAttempt, fetcher>>
    BY DEF MetadataInv, MetadataTypes, MetadataReader, ReadersAreSound, ReaderIsSound,
           M!Check, M!IsFresh
<1>2. /\ entry \in MetadataEntry \cup {None}
      /\ entry # None => entry = cache[s] /\ now0 < entry.storedAt + CacheTtl
    BY <1>1 DEF M!Unexpired, M!Age, MetadataEntry
<1>3. fresh => entry # None /\ now0 < entry.storedAt + entry.ttl
    BY <1>1, <1>2 DEF M!IsFresh, M!Age, MetadataEntry
<1>4. entry # None => EntryIsSound(s, entry)
    BY <1>1, <1>2 DEF MetadataInv, CacheIsSound
<1>5. cache' = [cache EXCEPT ![s] = entry]
    BY DEF M!Check
<1>6. \/ fresh /\ M!Set(r, M!Answer(r, entry, FALSE))
      \/ M!Set(r, M!Answer(r, entry, stale))
      \/ M!Set(r, fetching)
    <2> DEFINE recent == lastAttempt[s] # None /\ now0 - lastAttempt[s] < RefreshInterval
    <2>1. M!Set(r, IF fresh /\ ~reader[r].refresh THEN M!Answer(r, entry, FALSE)
                   ELSE IF recent THEN M!Answer(r, entry, stale) ELSE fetching)
        BY DEF M!Check
    <2> HIDE DEF s, now0, entry, fresh, stale, recent, fetching
    <2>2. CASE fresh /\ ~reader[r].refresh
        BY <2>1, <2>2
    <2>3. CASE ~(fresh /\ ~reader[r].refresh) /\ recent
        BY <2>1, <2>3
    <2>4. CASE ~(fresh /\ ~reader[r].refresh) /\ ~recent
        BY <2>1, <2>4
    <2> QED
        BY <2>2, <2>3, <2>4
<1> DEFINE Fits(own) == /\ own \in MetadataReader
                        /\ own.source = s /\ own.now = now0 /\ own.entry = entry
                        /\ own.at \in {"answer", "acquire"}
                        /\ ~own.stale => fresh
<1> HIDE DEF entry
<1>6a. stale \in BOOLEAN /\ (~stale => fresh) /\ fresh \in BOOLEAN
    BY <1>1
<1> HIDE DEF fresh, stale
<1>7. PICK own : M!Set(r, own) /\ Fits(own)
    <2>1. Fits(fetching)
        BY <1>1, <1>2, <1>6a DEF MetadataReader, M!Steps
    <2>2. Fits(M!Answer(r, entry, stale))
        BY <1>1, <1>2, <1>6a, AnswerType DEF MetadataInv
    <2>3. ASSUME fresh
          PROVE  Fits(M!Answer(r, entry, FALSE))
        BY <1>1, <1>2, <2>3 DEF M!Answer, MetadataReader, M!Steps
    <2> HIDE DEF fetching, Fits
    <2> QED
        BY <1>6, <2>1, <2>2, <2>3
<1> HIDE DEF s, now0
<1>8. /\ reader' \in [Readers -> MetadataReader]
      /\ reader'[r] = own
      /\ \A q \in Readers \ {r} : reader'[q] = reader[q] /\ ReaderIsSound(q)'
    BY <1>1, <1>7, OtherReaders
<1>9. ReaderIsSound(r)'
    BY <1>1, <1>2, <1>3, <1>4, <1>7, <1>8
    DEF ReaderIsSound, EntryIsSound, Validated, MetadataReader, MetadataEntry
<1>10. MetadataTypes'
    BY <1>1, <1>2, <1>5, <1>8 DEF MetadataInv, MetadataTypes
<1>11. CacheIsSound'
    BY <1>1, <1>4, <1>5 DEF MetadataInv, MetadataTypes, CacheIsSound, EntryIsSound, Validated
<1>12. FetchIsExclusive'
    BY <1>1, <1>7, <1>8 DEF MetadataInv, FetchIsExclusive, Fetches
<1> QED
    BY <1>8, <1>9, <1>10, <1>11, <1>12 DEF MetadataInv, ReadersAreSound

\* fetch_lock is taken, or the answer is what the cache had.
LEMMA MetadataAcquire ==
    ASSUME MetadataInv, NEW r \in Readers, M!Acquire(r)
    PROVE  MetadataInv'
<1> DEFINE begun == [reader[r] EXCEPT !.at = "attempt", !.stale = FALSE,
                                      !.refresh = FALSE]
           had == M!Answer(r, reader[r].entry, reader[r].stale)
<1> USE MetadataAssumption
<1>1. /\ reader[r] \in MetadataReader /\ reader[r].at = "acquire" /\ ReaderIsSound(r)
      /\ reader[r].entry \in MetadataEntry \cup {None} /\ reader[r].stale \in BOOLEAN
      /\ UNCHANGED <<clock, published, cache, lastAttempt>>
    BY DEF MetadataInv, MetadataTypes, MetadataReader, ReadersAreSound, M!Acquire
<1>2. \/ fetcher = None /\ fetcher' = r /\ M!Set(r, begun)
      \/ fetcher # None /\ fetcher' = fetcher /\ M!Set(r, had)
    BY DEF M!Acquire
<1>3. /\ begun \in MetadataReader /\ begun.at = "attempt"
      /\ begun.source = reader[r].source /\ begun.now = reader[r].now
      /\ begun.entry = reader[r].entry
    BY <1>1 DEF MetadataReader, M!Steps
<1>4. /\ had \in MetadataReader /\ had.at = "answer"
      /\ had.source = reader[r].source /\ had.now = reader[r].now
      /\ had.entry = reader[r].entry /\ had.stale = reader[r].stale
    BY <1>1, AnswerType DEF MetadataInv
<1> HIDE DEF begun, had
<1>5. CASE fetcher = None /\ fetcher' = r /\ M!Set(r, begun)
    <2>1. /\ reader' \in [Readers -> MetadataReader]
          /\ reader'[r] = begun
          /\ \A q \in Readers \ {r} : reader'[q] = reader[q] /\ ReaderIsSound(q)'
        BY <1>1, <1>3, <1>5, OtherReaders
    <2>2. ReaderIsSound(r)'
        BY <1>1, <1>3, <2>1 DEF ReaderIsSound, Validated
    <2>3. FetchIsExclusive'
        BY <1>3, <1>5, <2>1 DEF MetadataInv, FetchIsExclusive, Fetches
    <2>4. MetadataTypes' /\ CacheIsSound'
        BY <1>1, <2>1 DEF MetadataInv, MetadataTypes, CacheIsSound, EntryIsSound, Validated
    <2> QED
        BY <2>1, <2>2, <2>3, <2>4 DEF MetadataInv, ReadersAreSound
<1>6. CASE fetcher # None /\ fetcher' = fetcher /\ M!Set(r, had)
    <2>1. /\ reader' \in [Readers -> MetadataReader]
          /\ reader'[r] = had
          /\ \A q \in Readers \ {r} : reader'[q] = reader[q] /\ ReaderIsSound(q)'
        BY <1>1, <1>4, <1>6, OtherReaders
    <2>2. ReaderIsSound(r)'
        BY <1>1, <1>4, <2>1 DEF ReaderIsSound, Validated
    <2>3. FetchIsExclusive'
        BY <1>1, <1>4, <1>6, <2>1 DEF MetadataInv, FetchIsExclusive, Fetches
    <2>4. MetadataTypes' /\ CacheIsSound'
        BY <1>1, <2>1 DEF MetadataInv, MetadataTypes, CacheIsSound, EntryIsSound, Validated
    <2> QED
        BY <2>1, <2>2, <2>3, <2>4 DEF MetadataInv, ReadersAreSound
<1> QED
    BY <1>2, <1>5, <1>6

\* The attempt is dated.
LEMMA MetadataAttempt ==
    ASSUME MetadataInv, NEW r \in Readers, M!Attempt(r)
    PROVE  MetadataInv'
<1> DEFINE own == [reader[r] EXCEPT !.at = "fetch"]
<1>1. /\ reader[r] \in MetadataReader /\ reader[r].at = "attempt" /\ ReaderIsSound(r)
      /\ UNCHANGED <<clock, published, cache, fetcher>>
      /\ M!Set(r, own)
    BY DEF MetadataInv, MetadataTypes, ReadersAreSound, M!Attempt
<1>2. /\ own \in MetadataReader /\ own.at = "fetch"
      /\ own.source = reader[r].source /\ own.now = reader[r].now
      /\ own.entry = reader[r].entry
    BY <1>1 DEF MetadataReader, M!Steps
<1> HIDE DEF own
<1>3. /\ reader' \in [Readers -> MetadataReader]
      /\ reader'[r] = own
      /\ \A q \in Readers \ {r} : reader'[q] = reader[q] /\ ReaderIsSound(q)'
    BY <1>1, <1>2, OtherReaders
<1>4. ReaderIsSound(r)'
    BY <1>1, <1>2, <1>3 DEF ReaderIsSound, Validated
<1>5. FetchIsExclusive'
    BY <1>1, <1>2, <1>3 DEF MetadataInv, FetchIsExclusive, Fetches
<1>6. MetadataTypes' /\ CacheIsSound'
    BY <1>1, <1>3 DEF MetadataInv, MetadataTypes, CacheIsSound, EntryIsSound, Validated
<1> QED
    BY <1>3, <1>4, <1>5, <1>6 DEF MetadataInv, ReadersAreSound

\* The source answers: "not modified" confirms the latest version, and so does
\* its document; the validator that is kept is of a version that was current.
LEMMA MetadataRespond ==
    ASSUME MetadataInv, NEW r \in Readers, NEW ttl \in MaxAges,
           NEW store \in BOOLEAN, NEW validated \in BOOLEAN,
           M!Respond(r, ttl, store, validated)
    PROVE  MetadataInv'
<1> DEFINE s == reader[r].source
           old == reader[r].entry
           unmodified == old # None /\ old.validator = published[s]
           version == IF unmodified THEN old.version ELSE published[s]
           validator == IF validated THEN published[s]
                        ELSE IF old # None THEN old.validator ELSE None
           kept == M!Min({ttl, CacheTtl})
           current == version = published[s]
           entry == [version |-> version, current |-> current, storedAt |-> 0,
                     ttl |-> kept, validator |-> validator]
           own == [reader[r] EXCEPT !.at = "store", !.keep = store, !.entry = entry]
<1> USE MetadataAssumption
<1>1. /\ reader[r] \in MetadataReader /\ reader[r].at = "fetch" /\ ReaderIsSound(r)
      /\ s \in Sources /\ published[s] \in Nat
      /\ old \in MetadataEntry \cup {None}
      /\ UNCHANGED <<clock, published, cache, lastAttempt, fetcher>>
    BY DEF MetadataInv, MetadataTypes, MetadataReader, ReadersAreSound, ReaderIsSound,
           M!Respond
<1>2. old # None => Validated(s, old) /\ old \in MetadataEntry
    BY <1>1 DEF ReaderIsSound
<1>3. version = published[s]
    <2>1. CASE unmodified
        <3>1. version = old.version /\ old.validator = published[s] /\ old # None
            BY <2>1
        <3>2. old.validator # None
            BY <1>1, <3>1
        <3>3. old.version = published[s]
            BY <1>2, <3>1, <3>2 DEF Validated
        <3> QED
            BY <3>1, <3>3
    <2>2. CASE ~unmodified
        BY <2>2
    <2> QED
        BY <2>1, <2>2
<1>4. /\ validator \in Nat \cup {None}
      /\ validator # None => validator <= published[s]
    BY <1>1, <1>2 DEF Validated, MetadataEntry
<1>5. kept \in Nat /\ kept <= CacheTtl
    BY MinOfTwo
<1>6. M!Set(r, own)
    BY DEF M!Respond
<1>7. current
    BY <1>3
<1>8. current \in BOOLEAN
    OBVIOUS
<1> HIDE DEF current, kept, validator, version
<1>9. entry \in MetadataEntry /\ entry # None
    <2>1. entry \in MetadataEntry
        BY <1>1, <1>3, <1>4, <1>5, <1>8 DEF MetadataEntry
    <2> QED
        BY <2>1 DEF MetadataEntry
<1>10. /\ entry.current /\ entry.ttl <= CacheTtl
       /\ Validated(s, entry)
    BY <1>1, <1>3, <1>4, <1>5, <1>7, <1>8 DEF Validated
<1> HIDE DEF entry
<1>11. /\ own \in MetadataReader /\ own.at = "store"
       /\ own.source = s /\ own.now = reader[r].now /\ own.entry = entry
    BY <1>1, <1>9 DEF MetadataReader, M!Steps
<1> HIDE DEF own
<1>12. /\ reader' \in [Readers -> MetadataReader]
       /\ reader'[r] = own
       /\ \A q \in Readers \ {r} : reader'[q] = reader[q] /\ ReaderIsSound(q)'
    BY <1>1, <1>6, <1>11, OtherReaders
<1>13. ReaderIsSound(r)'
    BY <1>1, <1>9, <1>10, <1>11, <1>12 DEF ReaderIsSound, Validated
<1>14. FetchIsExclusive'
    BY <1>1, <1>11, <1>12 DEF MetadataInv, FetchIsExclusive, Fetches
<1>15. MetadataTypes' /\ CacheIsSound'
    BY <1>1, <1>12 DEF MetadataInv, MetadataTypes, CacheIsSound, EntryIsSound, Validated
<1> QED
    BY <1>12, <1>13, <1>14, <1>15 DEF MetadataInv, ReadersAreSound

\* The entry is dated now, after the lookup began, and stored or dropped.
LEMMA MetadataStore ==
    ASSUME MetadataInv, NEW r \in Readers, M!Store(r)
    PROVE  MetadataInv'
<1> DEFINE s == reader[r].source
           entry == [reader[r].entry EXCEPT !.storedAt = clock]
           answer == M!Answer(r, entry, FALSE)
           own == [answer EXCEPT !.fetched = TRUE, !.keep = FALSE]
<1> USE MetadataAssumption
<1>1. /\ reader[r] \in MetadataReader /\ reader[r].at = "store" /\ ReaderIsSound(r)
      /\ s \in Sources /\ clock \in Nat /\ reader[r].now <= clock
      /\ reader[r].entry \in MetadataEntry
      /\ UNCHANGED <<clock, published, lastAttempt>> /\ fetcher' = None
    BY DEF MetadataInv, MetadataTypes, MetadataReader, ReadersAreSound, ReaderIsSound,
           M!Store
<1>2. /\ entry \in MetadataEntry
      /\ entry.storedAt = clock
      /\ EntryIsSound(s, entry)
    BY <1>1 DEF MetadataEntry, ReaderIsSound, EntryIsSound, Validated
<1>3. M!Set(r, own) /\ (cache' = [cache EXCEPT ![s] = entry]
                        \/ cache' = [cache EXCEPT ![s] = None])
    BY DEF M!Store
<1> HIDE DEF entry
<1>4. /\ answer \in MetadataReader /\ answer.at = "answer"
      /\ answer.source = s /\ answer.now = reader[r].now /\ answer.entry = entry
    BY <1>1, <1>2 DEF M!Answer, MetadataReader, M!Steps
<1> HIDE DEF answer
<1>5. /\ own \in MetadataReader /\ own.at = "answer" /\ own.fetched
      /\ own.source = s /\ own.now = reader[r].now /\ own.entry = entry
    BY <1>4 DEF MetadataReader
<1> HIDE DEF own
<1>6. /\ reader' \in [Readers -> MetadataReader]
      /\ reader'[r] = own
      /\ \A q \in Readers \ {r} : reader'[q] = reader[q] /\ ReaderIsSound(q)'
    BY <1>1, <1>3, <1>5, OtherReaders
<1>7. ReaderIsSound(r)'
    <2>1. own.now < clock + CacheTtl
        BY <1>1, <1>5 DEF MetadataReader
    <2>2. entry # None
        BY <1>2 DEF MetadataEntry
    <2> QED
        BY <1>1, <1>2, <1>5, <1>6, <2>1, <2>2 DEF ReaderIsSound, EntryIsSound
<1>8. MetadataTypes'
    BY <1>1, <1>2, <1>3, <1>6 DEF MetadataInv, MetadataTypes
<1>9. CacheIsSound'
    BY <1>1, <1>2, <1>3 DEF MetadataInv, MetadataTypes, CacheIsSound, EntryIsSound, Validated
<1>10. FetchIsExclusive'
    BY <1>1, <1>5, <1>6 DEF MetadataInv, FetchIsExclusive, Fetches
<1> QED
    BY <1>6, <1>7, <1>8, <1>9, <1>10 DEF MetadataInv, ReadersAreSound

\* A fetch without an answer ends in what the cache had, called stale.
LEMMA MetadataFetchFails ==
    ASSUME MetadataInv, NEW r \in Readers, M!FetchFails(r)
    PROVE  MetadataInv'
<1> DEFINE own == M!Answer(r, reader[r].entry, TRUE)
<1>1. /\ reader[r] \in MetadataReader /\ reader[r].at = "fetch" /\ ReaderIsSound(r)
      /\ reader[r].entry \in MetadataEntry \cup {None}
      /\ UNCHANGED <<clock, published, cache, lastAttempt>> /\ fetcher' = None
      /\ M!Set(r, own)
    BY DEF MetadataInv, MetadataTypes, MetadataReader, ReadersAreSound, M!FetchFails
<1>2. /\ own \in MetadataReader /\ own.at = "answer" /\ own.stale
      /\ own.source = reader[r].source /\ own.now = reader[r].now
      /\ own.entry = reader[r].entry
    BY <1>1, AnswerType DEF MetadataInv
<1> HIDE DEF own
<1>3. /\ reader' \in [Readers -> MetadataReader]
      /\ reader'[r] = own
      /\ \A q \in Readers \ {r} : reader'[q] = reader[q] /\ ReaderIsSound(q)'
    BY <1>1, <1>2, OtherReaders
<1>4. ReaderIsSound(r)'
    BY <1>1, <1>2, <1>3 DEF ReaderIsSound, Validated
<1>5. FetchIsExclusive'
    BY <1>1, <1>2, <1>3 DEF MetadataInv, FetchIsExclusive, Fetches
<1>6. MetadataTypes' /\ CacheIsSound'
    BY <1>1, <1>3 DEF MetadataInv, MetadataTypes, CacheIsSound, EntryIsSound, Validated
<1> QED
    BY <1>3, <1>4, <1>5, <1>6 DEF MetadataInv, ReadersAreSound

\* Any step of the cache, and any that is not one of its steps.
LEMMA MetadataStep ==
    ASSUME MetadataInv, M!Next \/ UNCHANGED metadataVars
    PROVE  MetadataInv'
<1>1. CASE UNCHANGED metadataVars
    BY <1>1 DEF MetadataInv, MetadataTypes, CacheIsSound, EntryIsSound, Validated,
                FetchIsExclusive, Fetches, ReadersAreSound, ReaderIsSound, metadataVars
<1>2. CASE M!Next
    BY <1>2, MetadataTick, MetadataPublish, MetadataLookup, MetadataCheck,
       MetadataAcquire, MetadataAttempt, MetadataRespond, MetadataStore,
       MetadataFetchFails DEF M!Next
<1> QED
    BY <1>1, <1>2

\* What an earlier process left in the cache is sound.
LEMMA MetadataInit == M!Init => MetadataInv
<1> SUFFICES ASSUME M!Init
             PROVE  MetadataInv
    OBVIOUS
<1> USE MetadataAssumption
<1> USE DEF M!Init
<1>1. ASSUME NEW e \in M!EarlierEntries
      PROVE  /\ e \in MetadataEntry
             /\ e.version = 0 /\ e.current /\ e.storedAt = 0 /\ e.ttl <= CacheTtl
             /\ e.validator \in {0, None}
    <2>1. PICK age \in MaxAges, v \in {0, None} :
             e = [version |-> 0, current |-> TRUE, storedAt |-> 0,
                  ttl |-> M!Min({age, CacheTtl}), validator |-> v]
        BY DEF M!EarlierEntries
    <2>2. age \in Nat /\ CacheTtl \in Nat
        OBVIOUS
    <2>3. M!Min({age, CacheTtl}) \in Nat /\ M!Min({age, CacheTtl}) <= CacheTtl
        BY <2>2, MinOfTwo
    <2> DEFINE ttl == M!Min({age, CacheTtl})
    <2> HIDE MetadataAssumption DEF M!Init, ttl
    <2>4. /\ e.version = 0 /\ e.current /\ e.storedAt = 0 /\ e.ttl <= CacheTtl
          /\ e.validator \in {0, None}
        BY <2>1, <2>3
    <2>5. e \in MetadataEntry
        BY <2>1, <2>3 DEF MetadataEntry
    <2> QED
        BY <2>4, <2>5
<1>2. M!Idle \in MetadataReader /\ M!Idle.at = "idle" /\ M!Idle.now = 0
    BY DEF M!Idle, MetadataReader, M!Steps
<1>3. MetadataTypes
    BY <1>1, <1>2 DEF MetadataTypes
<1>4. CacheIsSound
    BY <1>1 DEF CacheIsSound, EntryIsSound, Validated
<1>5. FetchIsExclusive
    BY <1>2 DEF FetchIsExclusive, Fetches
<1>6. ReadersAreSound
    BY <1>2 DEF ReadersAreSound, ReaderIsSound
<1> QED
    BY <1>3, <1>4, <1>5, <1>6 DEF MetadataInv

-----------------------------------------------------------------------------
(* The gateway's process under the command line. *)

CommandSteps ==
    {"idle", "read", "check", "reread", "verify", "signal", "poll", "force",
     "kill", "unlink", "purge", "popen", "record", "wait"}

Results ==
    {"none", "ownership_unverified", "not_running", "already_running", "stopped",
     "killed", "stop_timeout", "uninstalled", "starting", "running", "start_failed",
     "start_timeout", "failed", "interrupted"}

Process == [token : Nat, signalled : BOOLEAN]

Target == [pid : Pids, token : Nat]

CommandState ==
    [at : CommandSteps, kind : P!Kinds \cup {"remove"}, force : BOOLEAN,
     wait : BOOLEAN, target : Target \cup {None}, result : Results]

ProcessTypes ==
    /\ process \in [Pids -> Process \cup {None}]
    /\ record \in Target \cup {None}
    /\ issued \in 0..MaxTokens
    /\ command \in [Operators -> CommandState]
    /\ raced \in BOOLEAN

\* The token of a launch is nobody else's.
TokensAreUnique ==
    /\ \A p \in P!Gateways : process[p].token \in 1..issued
    /\ \A p, q \in P!Gateways : process[p].token = process[q].token => p = q

\* A PID and a token that were written down belong together: what runs with that
\* token runs under that PID.
NamesItsOwn(target) ==
    target # None =>
        /\ target.token \in 1..issued
        /\ \A p \in P!Gateways : process[p].token = target.token => p = target.pid

\* What a command knows at each step. One that launches keeps the PID of its
\* child from others; one that removes the PID file has seen its gateway gone.
KnowsItsTarget(c) ==
    /\ NamesItsOwn(c.target)
    /\ c.at \in {"reread", "verify", "signal", "poll", "force", "kill", "unlink",
                 "record", "wait"} => c.target # None
    /\ c.at \in {"record", "wait"} =>
          \/ process[c.target.pid] = None
          \/ process[c.target.pid].token = c.target.token
    /\ c.at = "unlink" => ~P!Owned(c.target)
    /\ c.at \in {"kill", "unlink"} => c.result \in {"stopped", "killed"}

\* Without a race the PID file says what a command has read until it is removed,
\* and nothing that lives when it is purged or replaced.
FileIsAsRead(c) ==
    /\ c.at \in {"check", "reread", "verify", "signal", "poll", "force", "kill",
                 "unlink"} => record \in {c.target, None}
    /\ c.at \in {"purge", "popen", "record"} => ~P!Owned(record)

CommandIsSound(c) == KnowsItsTarget(c) /\ (raced \/ FileIsAsRead(c))

CommandsAreSound == \A o \in Operators : CommandIsSound(command[o])

RacesAreNoted == P!Racing(command) => raced

ProcessInv ==
    /\ ProcessTypes /\ TokensAreUnique
    /\ NamesItsOwn(record) /\ CommandsAreSound
    /\ RacesAreNoted /\ P!GatewaysAreRecorded

\* Processes end, are told to end, or are strangers under a PID nobody keeps:
\* no gateway appears.
Quiet ==
    /\ process' \in [Pids -> Process \cup {None}]
    /\ \A p \in Pids :
          \/ process'[p] = None
          \/ /\ process[p] # None
             /\ process'[p].token = process[p].token
             /\ process[p].signalled => process'[p].signalled
          \/ process'[p].token = 0 /\ ~P!Exists(p)

\* What a command that ends may say of the gateway it was about.
Honest(o, c) ==
    c.at = "idle" =>
        /\ c.result \in {"stopped", "killed"} =>
              \A p \in P!Gateways : process[p].token # command[o].target.token
        /\ c.result = "running" => P!Owned(command[o].target)

\* Without new gateways, a target keeps its PID, and one that is gone stays so.
LEMMA QuietTargets ==
    ASSUME ProcessInv, Quiet, issued' = issued,
           NEW T \in Target \cup {None}, NamesItsOwn(T)
    PROVE  /\ NamesItsOwn(T)'
           /\ P!Owned(T)' => P!Owned(T)
<1> USE ProcessAssumption
<1>1. ASSUME NEW p \in P!Gateways'
      PROVE  p \in P!Gateways /\ process'[p].token = process[p].token
    BY DEF Quiet, P!Gateways
<1>2. NamesItsOwn(T)'
    BY <1>1 DEF NamesItsOwn
<1>3. ASSUME P!Owned(T)'
      PROVE  P!Owned(T)
    <2>1. T # None /\ T.pid \in Pids /\ T.token \in 1..issued
        BY <1>3 DEF P!Owned, NamesItsOwn, Target
    <2>2. process'[T.pid] # None /\ process'[T.pid].token = T.token /\ T.token # 0
        BY <1>3, <2>1 DEF P!Owned, ProcessInv, ProcessTypes
    <2> QED
        BY <2>1, <2>2 DEF P!Owned, Quiet
<1> QED
    BY <1>2, <1>3

\* What a command knows of its target stays true meanwhile.
LEMMA QuietCommands ==
    ASSUME ProcessInv, Quiet, issued' = issued, NEW o \in Operators,
           NEW c \in CommandState, c = command[o]
    PROVE  KnowsItsTarget(c)'
<1> USE ProcessAssumption
<1>1. KnowsItsTarget(c) /\ c.target \in Target \cup {None} /\ c.at \in CommandSteps
    BY DEF ProcessInv, CommandsAreSound, CommandIsSound, CommandState
<1>2. NamesItsOwn(c.target)' /\ (P!Owned(c.target)' => P!Owned(c.target))
    BY <1>1, QuietTargets DEF KnowsItsTarget
<1>3. ASSUME c.at \in {"record", "wait"}
      PROVE  process'[c.target.pid] = None \/ process'[c.target.pid].token = c.target.token
    <2>1. c.target # None /\ c.target.pid \in Pids
        BY <1>1, <1>3 DEF KnowsItsTarget, Target
    <2>2. P!Exists(c.target.pid)
        BY <1>3 DEF P!Exists, P!Unreaped
    <2> QED
        BY <1>1, <1>3, <2>1, <2>2 DEF KnowsItsTarget, Quiet
<1> QED
    BY <1>1, <1>2, <1>3 DEF KnowsItsTarget

\* A step of one command that adds no gateway: what has to be shown of it is what
\* the command knows afterwards, that a launch it gives up is accounted for, and
\* that it reports what is so.
LEMMA ProcessStep ==
    ASSUME ProcessInv, NEW o \in Operators, NEW c \in CommandState,
           P!Become(o, c), Quiet, issued' = issued,
           abandoned \subseteq abandoned',
           record' \in {record, None},
           record' # record => raced \/ ~P!Owned(record),
           KnowsItsTarget(c)', raced \/ FileIsAsRead(c)',
           command[o].at = "record" =>
              \A p \in P!Gateways' :
                  process'[p].token = command[o].target.token =>
                      process'[p].signalled \/ process'[p].token \in abandoned',
           Honest(o, c)
    PROVE  ProcessInv' /\ \A q \in Operators : P!Reports(q)
<1> USE ProcessAssumption
<1>1. /\ command' = [command EXCEPT ![o] = c]
      /\ command' \in [Operators -> CommandState] /\ command'[o] = c
      /\ \A q \in Operators \ {o} : command'[q] = command[q]
      /\ raced => raced'
      /\ raced' \in BOOLEAN
      /\ P!Racing(command') => raced'
    BY DEF P!Become, ProcessInv, ProcessTypes
<1>2. ProcessTypes'
    BY <1>1 DEF ProcessInv, ProcessTypes, Quiet
<1>3. ASSUME NEW p \in P!Gateways'
      PROVE  /\ p \in P!Gateways /\ process'[p].token = process[p].token
             /\ process[p].signalled => process'[p].signalled
    BY <1>3 DEF Quiet, P!Gateways
<1>4. TokensAreUnique'
    BY <1>3 DEF ProcessInv, TokensAreUnique
<1>5. NamesItsOwn(record)' /\ (P!Owned(record)' => P!Owned(record) /\ record' = record)
    <2>1. CASE record' = None
        BY <2>1 DEF NamesItsOwn, P!Owned
    <2>2. CASE record' = record
        <3>1. PICK T \in Target \cup {None} : T = record
            BY DEF ProcessInv, ProcessTypes
        <3>2. NamesItsOwn(T)' /\ (P!Owned(T)' => P!Owned(T))
            BY <3>1, QuietTargets DEF ProcessInv
        <3> QED
            BY <2>2, <3>1, <3>2 DEF NamesItsOwn, P!Owned
    <2> QED
        BY <2>1, <2>2
<1>6. ASSUME NEW q \in Operators
      PROVE  CommandIsSound(command[q])'
    <2>1. CASE q = o
        BY <1>1, <2>1 DEF CommandIsSound, KnowsItsTarget, NamesItsOwn, FileIsAsRead, P!Owned
    <2>2. CASE q # o
        <3>1. PICK d \in CommandState : d = command[q]
            BY DEF ProcessInv, ProcessTypes
        <3>2. KnowsItsTarget(d)'
            BY <3>1, QuietCommands
        <3>3. raced \/ FileIsAsRead(d)
            BY <3>1 DEF ProcessInv, CommandsAreSound, CommandIsSound
        <3>4. raced \/ FileIsAsRead(d)'
            BY <1>5, <3>3 DEF FileIsAsRead
        <3>5. d = command'[q]
            BY <1>1, <2>2, <3>1
        <3>6. CommandIsSound(d)'
            BY <1>1, <3>2, <3>4 DEF CommandIsSound
        <3> QED
            BY <3>5, <3>6 DEF CommandIsSound, KnowsItsTarget, NamesItsOwn,
                              FileIsAsRead, P!Owned
    <2> QED
        BY <2>1, <2>2
<1>7. RacesAreNoted'
    BY <1>1 DEF RacesAreNoted
<1>8. ASSUME NEW p \in P!Gateways', ~raced'
      PROVE  \/ process'[p].signalled \/ process'[p].token \in abandoned'
             \/ record' = [pid |-> p, token |-> process'[p].token]
             \/ \E q \in Operators : /\ command'[q].at = "record"
                                     /\ command'[q].target.token = process'[p].token
    <2>1. /\ p \in P!Gateways /\ process'[p].token = process[p].token
          /\ process[p].signalled => process'[p].signalled
        BY <1>3
    <2>2. \/ process[p].signalled \/ process[p].token \in abandoned
          \/ record = [pid |-> p, token |-> process[p].token]
          \/ \E q \in Operators : /\ command[q].at = "record"
                                  /\ command[q].target.token = process[p].token
        BY <1>1, <1>8, <2>1 DEF ProcessInv, P!GatewaysAreRecorded
    <2>3. ASSUME record = [pid |-> p, token |-> process[p].token]
          PROVE  record' = record
        <3>1. record # None /\ record.pid = p /\ record.token = process[p].token
            <4>1. p \in Pids /\ process[p].token \in Nat
                BY <2>1 DEF ProcessInv, ProcessTypes, Process, P!Gateways
            <4> QED
                BY <2>3, <4>1
        <3>2. P!Owned(record)
            BY <2>1, <3>1 DEF P!Owned, P!Gateways
        <3> QED
            BY <1>1, <1>8, <3>2
    <2>4. ASSUME NEW q \in Operators, command[q].at = "record",
                 command[q].target.token = process[p].token
          PROVE  \/ process'[p].signalled \/ process'[p].token \in abandoned'
                 \/ /\ command'[q].at = "record"
                    /\ command'[q].target.token = process'[p].token
        BY <1>1, <2>1, <2>4
    <2> QED
        BY <2>1, <2>2, <2>3, <2>4
<1>9. P!GatewaysAreRecorded'
    BY <1>8 DEF P!GatewaysAreRecorded
<1>10. ASSUME NEW q \in Operators
       PROVE  P!Reports(q)
    BY <1>1 DEF P!Reports, Honest
<1> QED
    BY <1>2, <1>4, <1>5, <1>6, <1>7, <1>9, <1>10 DEF ProcessInv, CommandsAreSound

\* The same for a step that changes nothing but the command. Its start, which
\* may be given up, is not over.
LEMMA CommandStep ==
    ASSUME ProcessInv, NEW o \in Operators, NEW c \in CommandState,
           P!Become(o, c), UNCHANGED <<process, record, issued, abandoned>>,
           command[o].at # "record",
           CommandIsSound(c), Honest(o, c)
    PROVE  ProcessInv' /\ \A q \in Operators : P!Reports(q)
<1>1. Quiet
    BY DEF ProcessInv, ProcessTypes, Quiet
<1>2. KnowsItsTarget(c)' /\ (raced \/ FileIsAsRead(c)')
    BY DEF CommandIsSound, KnowsItsTarget, NamesItsOwn, FileIsAsRead, P!Owned, P!Gateways
<1> QED
    BY <1>1, <1>2, ProcessStep

\* A command that goes on to its next step keeps everything else.
LEMMA GotoIs ==
    ASSUME ProcessInv, NEW o \in Operators, NEW step \in CommandSteps, P!Goto(o, step)
    PROVE  \E c \in CommandState :
              /\ P!Become(o, c)
              /\ c.at = step /\ c.target = command[o].target
              /\ c.result = command[o].result
<1>1. command[o] \in CommandState
    BY DEF ProcessInv, ProcessTypes
<1> DEFINE c == [command[o] EXCEPT !.at = step]
<1>2. /\ c \in CommandState /\ c.at = step /\ c.target = command[o].target
      /\ c.result = command[o].result
    BY <1>1 DEF CommandState
<1>3. P!Become(o, c)
    BY DEF P!Goto
<1> HIDE DEF c
<1> QED
    BY <1>2, <1>3

\* An operator without a command has no target.
LEMMA NoCommandIs ==
    /\ P!NoCommand \in CommandState
    /\ P!NoCommand.at = "idle" /\ P!NoCommand.target = None
    /\ P!NoCommand.result = "none"
BY DEF P!NoCommand, CommandState, CommandSteps, P!Kinds, Results

\* A command that reports is over.
LEMMA ReportIs ==
    ASSUME NEW o \in Operators, NEW result \in Results, P!Report(o, result)
    PROVE  \E c \in CommandState :
              P!Become(o, c) /\ c.at = "idle" /\ c.target = None /\ c.result = result
<1> DEFINE c == [P!NoCommand EXCEPT !.result = result]
<1>1. c \in CommandState /\ c.at = "idle" /\ c.target = None /\ c.result = result
    BY NoCommandIs DEF CommandState
<1>2. P!Become(o, c)
    BY DEF P!Report
<1> HIDE DEF c
<1> QED
    BY <1>1, <1>2

\* One that starts the gateway afterwards knows of nothing yet.
LEMMA StartAfterwardsIs ==
    ASSUME NEW o \in Operators, P!StartAfterwards(o)
    PROVE  \E c \in CommandState :
              P!Become(o, c) /\ c.at = "read" /\ c.target = None
<1> DEFINE waits == command[o].kind = "update"
           c == [P!NoCommand EXCEPT !.at = "read", !.wait = waits]
<1>1. waits \in BOOLEAN
    OBVIOUS
<1>2. P!Become(o, c)
    BY DEF P!StartAfterwards
<1> HIDE DEF waits
<1>3. c \in CommandState /\ c.at = "read" /\ c.target = None
    BY <1>1, NoCommandIs DEF CommandState, CommandSteps
<1> HIDE DEF c
<1> QED
    BY <1>2, <1>3

\* What becomes of a command whose gateway does not run.
LEMMA NotRunningIs ==
    ASSUME ProcessInv, NEW o \in Operators, P!NotRunning(o)
    PROVE  \E c \in CommandState :
              /\ P!Become(o, c)
              /\ \/ c.at = "read" /\ c.target = None
                 \/ c.at = "purge" /\ c.target = command[o].target
                 \/ /\ c.at = "idle" /\ c.target = None
                    /\ c.result \in {"ownership_unverified", "not_running"}
<1>1. \/ P!StartAfterwards(o) \/ P!Goto(o, "purge")
      \/ P!Report(o, "ownership_unverified") \/ P!Report(o, "not_running")
    BY DEF P!NotRunning
<1>2. CASE P!StartAfterwards(o)
    BY <1>2, StartAfterwardsIs
<1>3. CASE P!Goto(o, "purge")
    <2>1. "purge" \in CommandSteps
        BY DEF CommandSteps
    <2> QED
        BY <1>3, <2>1, GotoIs
<1>4. CASE P!Report(o, "ownership_unverified")
    <2>1. "ownership_unverified" \in Results
        BY DEF Results
    <2> QED
        BY <1>4, <2>1, ReportIs
<1>5. CASE P!Report(o, "not_running")
    <2>1. "not_running" \in Results
        BY DEF Results
    <2> QED
        BY <1>5, <2>1, ReportIs
<1> QED
    BY <1>1, <1>2, <1>3, <1>4, <1>5

\* What a step of the process part has to keep, and to report.
ProcessGoal == ProcessInv' /\ \A q \in Operators : P!Reports(q)

\* Nothing but processes changes, and no gateway appears.
LEMMA WorldStep ==
    ASSUME ProcessInv, Quiet, UNCHANGED <<record, issued, command, abandoned, raced>>
    PROVE  ProcessGoal
<1> USE ProcessAssumption
<1>1. ProcessTypes'
    BY DEF ProcessInv, ProcessTypes, Quiet
<1>2. ASSUME NEW p \in P!Gateways'
      PROVE  /\ p \in P!Gateways /\ process'[p].token = process[p].token
             /\ process[p].signalled => process'[p].signalled
    BY <1>2 DEF Quiet, P!Gateways
<1>3. TokensAreUnique'
    BY <1>2 DEF ProcessInv, TokensAreUnique
<1>4. PICK T \in Target \cup {None} : T = record
    BY DEF ProcessInv, ProcessTypes
<1>5. NamesItsOwn(T)' /\ (P!Owned(T)' => P!Owned(T))
    BY <1>4, QuietTargets DEF ProcessInv
<1>6. NamesItsOwn(record)'
    BY <1>4, <1>5 DEF NamesItsOwn
<1>7. ASSUME NEW q \in Operators
      PROVE  CommandIsSound(command[q])'
    <2>1. PICK d \in CommandState : d = command[q]
        BY DEF ProcessInv, ProcessTypes
    <2>2. KnowsItsTarget(d)'
        BY <2>1, QuietCommands
    <2>3. raced \/ FileIsAsRead(d)
        BY <2>1 DEF ProcessInv, CommandsAreSound, CommandIsSound
    <2>4. raced \/ FileIsAsRead(d)'
        BY <1>4, <1>5, <2>3 DEF FileIsAsRead, P!Owned
    <2> QED
        BY <2>1, <2>2, <2>4 DEF CommandIsSound, KnowsItsTarget, NamesItsOwn,
                                FileIsAsRead, P!Owned
<1>8. RacesAreNoted'
    BY DEF ProcessInv, RacesAreNoted
<1>9. P!GatewaysAreRecorded'
    BY <1>2 DEF ProcessInv, P!GatewaysAreRecorded
<1>10. ASSUME NEW q \in Operators
       PROVE  P!Reports(q)
    BY DEF P!Reports
<1> QED
    BY <1>1, <1>3, <1>6, <1>7, <1>8, <1>9, <1>10
    DEF ProcessGoal, ProcessInv, CommandsAreSound

\* A stranger starts, or a process ends.
LEMMA ForeignStartsStep ==
    ASSUME ProcessInv, NEW p \in Pids, P!ForeignStarts(p)
    PROVE  ProcessGoal
<1>1. Quiet
    BY DEF ProcessInv, ProcessTypes, Process, Quiet, P!ForeignStarts
<1> QED
    BY <1>1, WorldStep DEF P!ForeignStarts

\* A gateway that ends by itself.
LEMMA ExitsStep ==
    ASSUME ProcessInv, NEW p \in Pids, P!Exits(p)
    PROVE  ProcessGoal
<1>1. Quiet
    BY DEF ProcessInv, ProcessTypes, Process, Quiet, P!Exits
<1> QED
    BY <1>1, WorldStep DEF P!Exits

\* What is known of one command.
LEMMA OneCommand ==
    ASSUME ProcessInv, NEW o \in Operators
    PROVE  /\ command[o] \in CommandState
           /\ command[o].target \in Target \cup {None}
           /\ CommandIsSound(command[o])
BY DEF ProcessInv, ProcessTypes, CommandState, CommandsAreSound

\* A command that knows of no gateway, and one that goes on with its own.
LEMMA WithoutTarget ==
    ASSUME NEW c, c.at \in {"idle", "read"}, c.target = None
    PROVE  CommandIsSound(c)
BY DEF CommandIsSound, KnowsItsTarget, NamesItsOwn, FileIsAsRead

\* A command that only goes on to its next step.
LEMMA GoesOn ==
    ASSUME ProcessInv, NEW o \in Operators, NEW c,
           c.target = command[o].target, c.target # None,
           command[o].at \in {"check", "reread", "verify", "signal", "poll", "force"},
           c.at \in {"read", "reread", "verify", "signal", "poll", "force"}
    PROVE  CommandIsSound(c)
<1>1. CommandIsSound(command[o])
    BY OneCommand
<1> QED
    BY <1>1 DEF CommandIsSound, KnowsItsTarget, NamesItsOwn, FileIsAsRead

\* A command whose gateway is gone may launch one, or remove the file.
LEMMA FindsNothing ==
    ASSUME ProcessInv, NEW o \in Operators, NEW c,
           c.target = command[o].target, ~P!Owned(command[o].target),
           command[o].at \in {"check", "verify", "signal"},
           c.at \in {"purge", "popen"}
    PROVE  CommandIsSound(c)
<1>1. CommandIsSound(command[o])
    BY OneCommand
<1>2. FileIsAsRead(command[o]) => ~P!Owned(record)
    BY DEF FileIsAsRead, P!Owned
<1> QED
    BY <1>1, <1>2 DEF CommandIsSound, KnowsItsTarget, NamesItsOwn, FileIsAsRead

\* A command that only reports, and one that finds no gateway to stop.
LEMMA ReportStep ==
    ASSUME ProcessInv, NEW o \in Operators,
           NEW result \in Results \ {"stopped", "killed", "running"},
           P!Report(o, result), UNCHANGED <<process, record, issued, abandoned>>,
           command[o].at # "record"
    PROVE  ProcessGoal
<1>1. PICK c \in CommandState :
         P!Become(o, c) /\ c.at = "idle" /\ c.target = None /\ c.result = result
    BY ReportIs
<1>2. CommandIsSound(c) /\ Honest(o, c)
    BY <1>1, WithoutTarget DEF Honest
<1> QED
    BY <1>1, <1>2, CommandStep DEF ProcessGoal

\* A command that finds no gateway running.
LEMMA NotRunningStep ==
    ASSUME ProcessInv, NEW o \in Operators, P!NotRunning(o),
           UNCHANGED <<process, record, issued, abandoned>>,
           command[o].at \in {"check", "verify", "signal"},
           ~P!Owned(command[o].target)
    PROVE  ProcessGoal
<1>1. PICK c \in CommandState :
         /\ P!Become(o, c)
         /\ \/ c.at = "read" /\ c.target = None
            \/ c.at = "purge" /\ c.target = command[o].target
            \/ /\ c.at = "idle" /\ c.target = None
               /\ c.result \in {"ownership_unverified", "not_running"}
    BY NotRunningIs
<1>2. CommandIsSound(c)
    BY <1>1, WithoutTarget, FindsNothing
<1>3. Honest(o, c)
    BY <1>1 DEF Honest
<1> QED
    BY <1>1, <1>2, <1>3, CommandStep DEF ProcessGoal

\* A step that reads, and goes on.
LEMMA GotoStep ==
    ASSUME ProcessInv, NEW o \in Operators, NEW step \in CommandSteps \ {"idle"},
           P!Goto(o, step), UNCHANGED <<process, record, issued, abandoned>>,
           command[o].at # "record",
           ASSUME NEW c, c.at = step, c.target = command[o].target
           PROVE  CommandIsSound(c)
    PROVE  ProcessGoal
<1>1. PICK c \in CommandState :
         P!Become(o, c) /\ c.at = step /\ c.target = command[o].target
    BY GotoIs
<1>2. CommandIsSound(c)
    BY <1>1
<1>3. Honest(o, c)
    BY <1>1 DEF Honest
<1> QED
    BY <1>1, <1>2, <1>3, CommandStep DEF ProcessGoal

\* A command begins.
LEMMA BeginStep ==
    ASSUME ProcessInv, NEW o \in Operators, NEW kind \in P!Kinds,
           NEW force \in BOOLEAN, P!Begin(o, kind, force)
    PROVE  ProcessGoal
<1> DEFINE waits == kind = "start"
           begun == [P!NoCommand EXCEPT !.at = "read", !.kind = kind, !.force = force,
                                        !.wait = waits]
<1>1. waits \in BOOLEAN
    OBVIOUS
<1>2. /\ command[o].at = "idle" /\ P!Become(o, begun)
      /\ UNCHANGED <<process, record, issued, abandoned>>
    BY DEF P!Begin
<1> HIDE DEF waits
<1>3. begun \in CommandState /\ begun.at = "read" /\ begun.target = None
    BY <1>1, NoCommandIs DEF CommandState, CommandSteps
<1> HIDE DEF begun
<1>4. PICK c \in CommandState : c = begun
    BY <1>3
<1>5. CommandIsSound(c) /\ Honest(o, c)
    BY <1>3, <1>4, WithoutTarget DEF Honest
<1> QED
    BY <1>2, <1>4, <1>5, CommandStep DEF ProcessGoal

\* The PID file is read, for the first time or again.
LEMMA ReadStep ==
    ASSUME ProcessInv, NEW o \in Operators, P!Read(o)
    PROVE  ProcessGoal
<1> DEFINE found == [command[o] EXCEPT !.at = "check", !.target = record]
<1>1. /\ UNCHANGED <<process, record, issued, abandoned>>
      /\ \/ command[o].at = "read" /\ P!Become(o, found)
         \/ command[o].at = "reread" /\ P!Goto(o, "verify")
         \/ command[o].at = "reread" /\ P!Report(o, "ownership_unverified")
    BY DEF P!Read
<1>2. CASE command[o].at = "read" /\ P!Become(o, found)
    <2>1. found \in CommandState /\ found.at = "check" /\ found.target = record
        BY OneCommand DEF ProcessInv, ProcessTypes, CommandState, CommandSteps
    <2> HIDE DEF found
    <2>2. PICK c \in CommandState : c = found
        BY <2>1
    <2>3. CommandIsSound(c) /\ Honest(o, c)
        BY <2>1, <2>2 DEF Honest, CommandIsSound, KnowsItsTarget, FileIsAsRead, ProcessInv
    <2> QED
        BY <1>1, <1>2, <2>2, <2>3, CommandStep DEF ProcessGoal
<1>3. CASE command[o].at = "reread" /\ P!Goto(o, "verify")
    <2>1. command[o].target # None
        BY <1>3, OneCommand DEF CommandIsSound, KnowsItsTarget
    <2>2. ASSUME NEW c, c.at = "verify", c.target = command[o].target
          PROVE  CommandIsSound(c)
        BY <1>3, <2>1, <2>2, GoesOn
    <2>3. "verify" \in CommandSteps \ {"idle"}
        BY DEF CommandSteps
    <2> QED
        BY <1>1, <1>3, <2>2, <2>3, GotoStep
<1>4. CASE command[o].at = "reread" /\ P!Report(o, "ownership_unverified")
    <2>1. "ownership_unverified" \in Results \ {"stopped", "killed", "running"}
        BY DEF Results
    <2> QED
        BY <1>1, <1>4, <2>1, ReportStep
<1> QED
    BY <1>1, <1>2, <1>3, <1>4

\* Ownership is established: a start goes on without a gateway, the others with
\* one.
LEMMA CheckStep ==
    ASSUME ProcessInv, NEW o \in Operators, P!Check(o)
    PROVE  ProcessGoal
<1> DEFINE target == command[o].target
           removing == [command[o] EXCEPT !.at = "read", !.kind = "remove"]
<1>1. /\ UNCHANGED <<process, record, issued, abandoned>>
      /\ command[o].at = "check"
      /\ \/ \E result \in {"already_running", "not_running", "ownership_unverified"} :
               P!Report(o, result)
         \/ ~P!Owned(target) /\ P!Goto(o, "popen")
         \/ P!Owned(target) /\ \E step \in {"reread", "verify"} : P!Goto(o, step)
         \/ P!Owned(target) /\ P!Become(o, removing)
         \/ ~P!Owned(target) /\ P!NotRunning(o)
    BY DEF P!Check
<1>2. P!Owned(target) => target # None
    BY DEF P!Owned
<1>3. ASSUME NEW result \in {"already_running", "not_running", "ownership_unverified"},
             P!Report(o, result)
      PROVE  ProcessGoal
    <2>1. result \in Results \ {"stopped", "killed", "running"}
        BY DEF Results
    <2> QED
        BY <1>1, <1>3, <2>1, ReportStep
<1>4. CASE ~P!Owned(target) /\ P!Goto(o, "popen")
    <2>1. ASSUME NEW c, c.at = "popen", c.target = command[o].target
          PROVE  CommandIsSound(c)
        BY <1>1, <1>4, <2>1, FindsNothing
    <2>2. "popen" \in CommandSteps \ {"idle"}
        BY DEF CommandSteps
    <2> QED
        BY <1>1, <1>4, <2>1, <2>2, GotoStep
<1>5. ASSUME P!Owned(target), NEW step \in {"reread", "verify"}, P!Goto(o, step)
      PROVE  ProcessGoal
    <2>1. ASSUME NEW c, c.at = step, c.target = command[o].target
          PROVE  CommandIsSound(c)
        BY <1>1, <1>2, <1>5, <2>1, GoesOn
    <2>2. step \in CommandSteps \ {"idle"}
        BY DEF CommandSteps
    <2> QED
        BY <1>1, <1>5, <2>1, <2>2, GotoStep
<1>6. CASE P!Owned(target) /\ P!Become(o, removing)
    <2>1. removing \in CommandState /\ removing.at = "read" /\ removing.target = target
        BY OneCommand DEF CommandState, CommandSteps
    <2> HIDE DEF removing
    <2>2. PICK c \in CommandState : c = removing
        BY <2>1
    <2>3. CommandIsSound(c) /\ Honest(o, c)
        BY <1>1, <1>2, <1>6, <2>1, <2>2, GoesOn DEF Honest
    <2> QED
        BY <1>1, <1>6, <2>2, <2>3, CommandStep DEF ProcessGoal
<1>7. CASE ~P!Owned(target) /\ P!NotRunning(o)
    BY <1>1, <1>7, NotRunningStep
<1> QED
    BY <1>1, <1>3, <1>4, <1>5, <1>6, <1>7

\* The gateway is looked at once more before the signal.
LEMMA VerifyStep ==
    ASSUME ProcessInv, NEW o \in Operators, P!Verify(o)
    PROVE  ProcessGoal
<1>1. /\ UNCHANGED <<process, record, issued, abandoned>>
      /\ command[o].at = "verify"
      /\ \/ P!Owned(command[o].target) /\ P!Goto(o, "signal")
         \/ ~P!Owned(command[o].target) /\ P!NotRunning(o)
    BY DEF P!Verify
<1>2. CASE P!Owned(command[o].target) /\ P!Goto(o, "signal")
    <2>1. ASSUME NEW c, c.at = "signal", c.target = command[o].target
          PROVE  CommandIsSound(c)
        BY <1>1, <1>2, <2>1, GoesOn DEF P!Owned
    <2>2. "signal" \in CommandSteps \ {"idle"}
        BY DEF CommandSteps
    <2> QED
        BY <1>1, <1>2, <2>1, <2>2, GotoStep
<1>3. CASE ~P!Owned(command[o].target) /\ P!NotRunning(o)
    BY <1>1, <1>3, NotRunningStep
<1> QED
    BY <1>1, <1>2, <1>3

\* A signal starts nothing, and reaches whatever runs under the PID.
LEMMA SignalledIsQuiet ==
    ASSUME ProcessInv, NEW p \in Pids, process' = P!Signalled(p)
    PROVE  /\ Quiet
           /\ process'[p] # None => process'[p].signalled
<1>1. process \in [Pids -> Process \cup {None}]
    BY DEF ProcessInv, ProcessTypes
<1>2. CASE process[p] = None
    BY <1>1, <1>2 DEF P!Signalled, Quiet
<1>3. CASE process[p] # None
    <2>1. process' = [process EXCEPT ![p].signalled = TRUE]
        BY <1>3 DEF P!Signalled
    <2>2. process[p] \in Process
        BY <1>1, <1>3
    <2> QED
        BY <1>1, <1>3, <2>1, <2>2 DEF Quiet, Process
<1> QED
    BY <1>2, <1>3

\* The signal, to whoever has the PID by now.
LEMMA SignalStep ==
    ASSUME ProcessInv, NEW o \in Operators, P!Signal(o)
    PROVE  ProcessGoal
<1> DEFINE pid == command[o].target.pid
<1>1. /\ command[o].at = "signal" /\ process' = P!Signalled(pid)
      /\ UNCHANGED <<record, issued, abandoned>>
      /\ \/ P!Goto(o, "poll")
         \/ ~P!Exists(pid) /\ P!NotRunning(o)
    BY DEF P!Signal
<1>2. command[o].target # None /\ command[o].target \in Target /\ pid \in Pids
    BY <1>1, OneCommand DEF CommandIsSound, KnowsItsTarget, Target
<1>3. Quiet
    BY <1>1, <1>2, SignalledIsQuiet
<1>4. CASE P!Goto(o, "poll")
    <2>1. "poll" \in CommandSteps
        BY DEF CommandSteps
    <2>2. PICK c \in CommandState :
             P!Become(o, c) /\ c.at = "poll" /\ c.target = command[o].target
        BY <1>4, <2>1, GotoIs
    <2>3. CommandIsSound(c)
        BY <1>1, <1>2, <2>2, GoesOn
    <2>4. NamesItsOwn(c.target)'
        BY <1>1, <1>2, <1>3, <2>2, <2>3, QuietTargets DEF CommandIsSound, KnowsItsTarget
    <2>5. KnowsItsTarget(c)' /\ (raced \/ FileIsAsRead(c)')
        BY <1>1, <1>2, <2>2, <2>3, <2>4 DEF CommandIsSound, KnowsItsTarget, FileIsAsRead
    <2>6. Honest(o, c)
        BY <2>2 DEF Honest
    <2>7. abandoned \subseteq abandoned' /\ record' \in {record, None} /\ record' = record
          /\ issued' = issued /\ command[o].at # "record"
        BY <1>1
    <2> QED
        BY <1>3, <2>2, <2>5, <2>6, <2>7, ProcessStep DEF ProcessGoal
<1>5. CASE ~P!Exists(pid) /\ P!NotRunning(o)
    <2>1. process[pid] = None
        BY <1>5 DEF P!Exists
    <2>2. process' = process /\ ~P!Owned(command[o].target)
        BY <1>1, <2>1 DEF P!Signalled, P!Owned
    <2> QED
        BY <1>1, <1>5, <2>2, NotRunningStep
<1> QED
    BY <1>1, <1>4, <1>5

\* The gateway is seen to be gone.
LEMMA PollStep ==
    ASSUME ProcessInv, NEW o \in Operators, P!Poll(o)
    PROVE  ProcessGoal
<1> DEFINE gone == [command[o] EXCEPT !.at = "unlink", !.result = "stopped"]
<1>1. /\ command[o].at = "poll" /\ ~P!Owned(command[o].target)
      /\ P!Become(o, gone) /\ UNCHANGED <<process, record, issued, abandoned>>
    BY DEF P!Poll
<1>2. /\ gone \in CommandState /\ gone.at = "unlink"
      /\ gone.target = command[o].target /\ gone.result = "stopped"
    BY OneCommand DEF CommandState, CommandSteps, Results
<1> HIDE DEF gone
<1>3. PICK c \in CommandState : c = gone
    BY <1>2
<1>4. CommandIsSound(c) /\ Honest(o, c)
    BY <1>1, <1>2, <1>3, OneCommand
    DEF Honest, CommandIsSound, KnowsItsTarget, FileIsAsRead
<1> QED
    BY <1>1, <1>3, <1>4, CommandStep DEF ProcessGoal

\* A stop whose time is over: it goes on by force, or says so.
LEMMA TimeoutStep ==
    ASSUME ProcessInv, NEW o \in Operators, P!Timeout(o)
    PROVE  ProcessGoal
<1>1. /\ command[o].at = "poll" /\ UNCHANGED <<process, record, issued, abandoned>>
      /\ P!Goto(o, "force") \/ P!Report(o, "stop_timeout")
    BY DEF P!Timeout
<1>2. CASE P!Goto(o, "force")
    <2>1. command[o].target # None
        BY <1>1, OneCommand DEF CommandIsSound, KnowsItsTarget
    <2>2. ASSUME NEW c, c.at = "force", c.target = command[o].target
          PROVE  CommandIsSound(c)
        BY <1>1, <2>1, <2>2, GoesOn
    <2>3. "force" \in CommandSteps \ {"idle"}
        BY DEF CommandSteps
    <2> QED
        BY <1>1, <1>2, <2>2, <2>3, GotoStep
<1>3. CASE P!Report(o, "stop_timeout")
    <2>1. "stop_timeout" \in Results \ {"stopped", "killed", "running"}
        BY DEF Results
    <2> QED
        BY <1>1, <1>3, <2>1, ReportStep
<1> QED
    BY <1>1, <1>2, <1>3

\* --force finds the gateway alive, or gone.
LEMMA ForceStep ==
    ASSUME ProcessInv, NEW o \in Operators, P!Force(o)
    PROVE  ProcessGoal
<1> DEFINE step == IF P!Owned(command[o].target) THEN "kill" ELSE "unlink"
           forced == [command[o] EXCEPT !.result = "killed", !.at = step]
<1>1. /\ command[o].at = "force" /\ P!Become(o, forced)
      /\ UNCHANGED <<process, record, issued, abandoned>>
    BY DEF P!Force
<1>2. step \in {"kill", "unlink"} /\ (step = "unlink" => ~P!Owned(command[o].target))
    OBVIOUS
<1> HIDE DEF step
<1>3. /\ forced \in CommandState /\ forced.at = step
      /\ forced.target = command[o].target /\ forced.result = "killed"
    BY <1>2, OneCommand DEF CommandState, CommandSteps, Results
<1> HIDE DEF forced
<1>4. PICK c \in CommandState : c = forced
    BY <1>3
<1>5. CommandIsSound(c) /\ Honest(o, c)
    BY <1>1, <1>2, <1>3, <1>4, OneCommand
    DEF Honest, CommandIsSound, KnowsItsTarget, FileIsAsRead
<1> QED
    BY <1>1, <1>4, <1>5, CommandStep DEF ProcessGoal

\* And kills it.
LEMMA KillStep ==
    ASSUME ProcessInv, NEW o \in Operators, P!Kill(o)
    PROVE  ProcessGoal
<1> DEFINE pid == command[o].target.pid
<1>1. /\ command[o].at = "kill" /\ process' = [process EXCEPT ![pid] = None]
      /\ P!Goto(o, "unlink") /\ UNCHANGED <<record, issued, abandoned>>
    BY DEF P!Kill
<1>2. /\ command[o].target # None /\ command[o].target \in Target /\ pid \in Pids
      /\ CommandIsSound(command[o])
    BY <1>1, OneCommand DEF CommandIsSound, KnowsItsTarget, Target
<1>3. Quiet
    BY <1>1 DEF ProcessInv, ProcessTypes, Quiet
<1>4. "unlink" \in CommandSteps
    BY DEF CommandSteps
<1>5. PICK c \in CommandState :
         /\ P!Become(o, c) /\ c.at = "unlink" /\ c.target = command[o].target
         /\ c.result = command[o].result
    BY <1>1, <1>4, GotoIs
<1>6. NamesItsOwn(c.target)'
    BY <1>1, <1>2, <1>3, <1>5, QuietTargets DEF CommandIsSound, KnowsItsTarget
<1>7. ~P!Owned(c.target)'
    BY <1>1, <1>2, <1>5 DEF P!Owned, ProcessInv, ProcessTypes
<1>8. KnowsItsTarget(c)' /\ (raced \/ FileIsAsRead(c)')
    BY <1>1, <1>2, <1>5, <1>6, <1>7 DEF CommandIsSound, KnowsItsTarget, FileIsAsRead
<1>9. Honest(o, c)
    BY <1>5 DEF Honest
<1>10. abandoned \subseteq abandoned' /\ record' \in {record, None} /\ record' = record
       /\ issued' = issued /\ command[o].at # "record"
    BY <1>1
<1> QED
    BY <1>3, <1>5, <1>8, <1>9, <1>10, ProcessStep DEF ProcessGoal

\* The PID file is removed: without a race it named the gateway that is gone.
LEMMA UnlinkStep ==
    ASSUME ProcessInv, NEW o \in Operators, P!Unlink(o)
    PROVE  ProcessGoal
<1>1. /\ command[o].at = "unlink" /\ record' = None
      /\ UNCHANGED <<process, issued, abandoned>>
      /\ \/ P!StartAfterwards(o)
         \/ P!Goto(o, "purge")
         \/ P!Report(o, command[o].result)
    BY DEF P!Unlink
<1>2. /\ CommandIsSound(command[o]) /\ command[o].result \in Results
      /\ command[o].target # None
    BY <1>1, OneCommand DEF CommandState, CommandIsSound, KnowsItsTarget
<1>3. raced \/ ~P!Owned(record)
    BY <1>1, <1>2 DEF CommandIsSound, KnowsItsTarget, FileIsAsRead, P!Owned
<1>4. PICK c \in CommandState :
         /\ P!Become(o, c)
         /\ \/ c.at \in {"read", "idle"} /\ c.target = None
            \/ c.at = "purge" /\ c.target = command[o].target
         /\ c.at = "idle" => c.result = command[o].result
    <2>1. CASE P!StartAfterwards(o)
        BY <2>1, StartAfterwardsIs
    <2>2. CASE P!Goto(o, "purge")
        <3>1. "purge" \in CommandSteps
            BY DEF CommandSteps
        <3> QED
            BY <2>2, <3>1, GotoIs
    <2>3. CASE P!Report(o, command[o].result)
        BY <1>2, <2>3, ReportIs
    <2> QED
        BY <1>1, <2>1, <2>2, <2>3
<1>5. Quiet
    BY <1>1 DEF ProcessInv, ProcessTypes, Quiet
<1>6. NamesItsOwn(c.target)'
    BY <1>1, <1>2, <1>4 DEF CommandIsSound, KnowsItsTarget, NamesItsOwn, P!Gateways
<1>7. KnowsItsTarget(c)' /\ (raced \/ FileIsAsRead(c)')
    BY <1>1, <1>4, <1>6 DEF KnowsItsTarget, FileIsAsRead, P!Owned
<1>8. Honest(o, c)
    <2>1. ASSUME NEW p \in P!Gateways
          PROVE  process[p].token # command[o].target.token
        BY <1>1, <1>2 DEF CommandIsSound, KnowsItsTarget, NamesItsOwn, P!Owned, P!Gateways
    <2>2. c.at = "idle" => c.result # "running"
        BY <1>1, <1>2, <1>4 DEF CommandIsSound, KnowsItsTarget
    <2> QED
        BY <2>1, <2>2 DEF Honest
<1>9. abandoned \subseteq abandoned' /\ record' \in {record, None}
      /\ issued' = issued /\ command[o].at # "record"
    BY <1>1
<1> QED
    BY <1>3, <1>4, <1>5, <1>7, <1>8, <1>9, ProcessStep DEF ProcessGoal

\* The home directory is purged: without a race nothing in it names a gateway.
LEMMA PurgeStep ==
    ASSUME ProcessInv, NEW o \in Operators, NEW all \in BOOLEAN, P!Purge(o, all)
    PROVE  ProcessGoal
<1>1. /\ command[o].at = "purge" /\ record' \in {record, None}
      /\ P!Report(o, "uninstalled") /\ UNCHANGED <<process, issued, abandoned>>
    BY DEF P!Purge
<1>2. raced \/ ~P!Owned(record)
    BY <1>1, OneCommand DEF CommandIsSound, FileIsAsRead
<1>3. "uninstalled" \in Results
    BY DEF Results
<1>4. PICK c \in CommandState :
         /\ P!Become(o, c) /\ c.at = "idle" /\ c.target = None
         /\ c.result = "uninstalled"
    BY <1>1, <1>3, ReportIs
<1>5. Quiet
    BY <1>1 DEF ProcessInv, ProcessTypes, Quiet
<1>6. KnowsItsTarget(c)' /\ (raced \/ FileIsAsRead(c)')
    BY <1>4 DEF KnowsItsTarget, NamesItsOwn, FileIsAsRead
<1>7. Honest(o, c)
    BY <1>4 DEF Honest
<1>8. abandoned \subseteq abandoned' /\ issued' = issued /\ command[o].at # "record"
    BY <1>1
<1> QED
    BY <1>1, <1>2, <1>4, <1>5, <1>6, <1>7, <1>8, ProcessStep DEF ProcessGoal

\* A launch hands out a new token: no target named it before.
LEMMA LaunchTargets ==
    ASSUME ProcessInv, NEW p \in Pids, issued' = issued + 1,
           process' = [process EXCEPT ![p] = [token |-> issued', signalled |-> FALSE]],
           NEW T \in Target \cup {None}, NamesItsOwn(T)
    PROVE  /\ NamesItsOwn(T)'
           /\ P!Owned(T)' => P!Owned(T)
<1> USE ProcessAssumption
<1>1. process \in [Pids -> Process \cup {None}] /\ issued \in Nat
    BY DEF ProcessInv, ProcessTypes
<1>2. \A q \in P!Gateways : process[q].token \in 1..issued
    BY DEF ProcessInv, TokensAreUnique
<1>3. \A q \in Pids \ {p} : process'[q] = process[q]
    BY <1>1
<1>4. process'[p].token = issued + 1
    BY <1>1
<1>5. T # None => T.token \in 1..issued /\ T.pid \in Pids
    BY DEF NamesItsOwn, Target
<1>6. T # None => T.token # issued + 1
    BY <1>1, <1>5
<1>7. NamesItsOwn(T)'
    <2> SUFFICES ASSUME T # None
                 PROVE  NamesItsOwn(T)'
        BY DEF NamesItsOwn
    <2>1. T.token \in 1..issued'
        BY <1>1, <1>5
    <2>2. ASSUME NEW q \in P!Gateways', process'[q].token = T.token
          PROVE  q = T.pid
        <3>1. q # p
            BY <1>4, <1>6, <2>2
        <3>2. q \in P!Gateways /\ process[q].token = T.token
            BY <1>3, <2>2, <3>1 DEF P!Gateways
        <3> QED
            BY <3>2 DEF NamesItsOwn
    <2> QED
        BY <2>1, <2>2 DEF NamesItsOwn
<1>8. P!Owned(T)' => P!Owned(T)
    BY <1>3, <1>4, <1>5, <1>6 DEF P!Owned
<1> QED
    BY <1>7, <1>8

\* Popen: the child gets a PID nobody keeps, and until it is recorded its
\* command knows it.
LEMMA PopenStep ==
    ASSUME ProcessInv, NEW o \in Operators, NEW p \in Pids, P!Popen(o, p)
    PROVE  ProcessGoal
<1> DEFINE launched == [command[o] EXCEPT !.at = "record",
                                          !.target = [pid |-> p, token |-> issued']]
<1> USE ProcessAssumption
<1>1. /\ command[o].at = "popen" /\ issued < MaxTokens /\ ~P!Exists(p)
      /\ issued' = issued + 1
      /\ process' = [process EXCEPT ![p] = [token |-> issued', signalled |-> FALSE]]
      /\ P!Become(o, launched) /\ UNCHANGED <<record, abandoned>>
    BY DEF P!Popen
<1>2. issued \in Nat /\ issued' \in 0..MaxTokens /\ issued' \in 1..issued'
    BY <1>1 DEF ProcessInv, ProcessTypes
<1>3. /\ launched \in CommandState /\ launched.at = "record"
      /\ launched.target = [pid |-> p, token |-> issued']
    <2>1. [pid |-> p, token |-> issued'] \in Target
        BY <1>2 DEF Target
    <2> QED
        BY <2>1, OneCommand DEF CommandState, CommandSteps
<1> HIDE DEF launched
<1>4. PICK c \in CommandState : c = launched
    BY <1>3
<1>5. /\ c.at = "record" /\ c.target.pid = p /\ c.target.token = issued'
      /\ c.target # None
    <2>1. c.at = "record" /\ c.target = [pid |-> p, token |-> issued']
        BY <1>3, <1>4
    <2> QED
        BY <1>2, <2>1
<1>6. /\ command' = [command EXCEPT ![o] = c]
      /\ command' \in [Operators -> CommandState] /\ command'[o] = c
      /\ \A q \in Operators \ {o} : command'[q] = command[q]
      /\ raced => raced'
      /\ raced' \in BOOLEAN
      /\ P!Racing(command') => raced'
    BY <1>1, <1>4 DEF P!Become, ProcessInv, ProcessTypes
<1>7. /\ process' \in [Pids -> Process \cup {None}]
      /\ process'[p] = [token |-> issued', signalled |-> FALSE]
      /\ \A q \in Pids \ {p} : process'[q] = process[q]
    <2>1. [token |-> issued', signalled |-> FALSE] \in Process
        BY <1>2 DEF Process
    <2> QED
        BY <1>1, <2>1 DEF ProcessInv, ProcessTypes
<1>8. ProcessTypes'
    BY <1>1, <1>2, <1>6, <1>7 DEF ProcessInv, ProcessTypes
<1>9. ASSUME NEW q \in P!Gateways', q # p
      PROVE  q \in P!Gateways /\ process'[q] = process[q] /\ process[q].token \in 1..issued
    BY <1>7, <1>9 DEF P!Gateways, ProcessInv, TokensAreUnique
<1>10. TokensAreUnique'
    <2>1. \A q \in P!Gateways' \ {p} : process'[q].token \in 1..issued
        BY <1>9
    <2>2. process'[p].token = issued + 1
        BY <1>1, <1>7
    <2>3. \A q \in P!Gateways' : process'[q].token \in 1..issued'
        BY <1>1, <1>2, <2>1, <2>2
    <2>4. ASSUME NEW a \in P!Gateways', NEW b \in P!Gateways',
                 process'[a].token = process'[b].token
          PROVE  a = b
        <3>1. CASE a = p \/ b = p
            BY <1>2, <2>1, <2>2, <2>4, <3>1
        <3>2. CASE a # p /\ b # p
            BY <1>9, <2>4, <3>2 DEF ProcessInv, TokensAreUnique
        <3> QED
            BY <3>1, <3>2
    <2> QED
        BY <2>3, <2>4 DEF TokensAreUnique
<1>11. NamesItsOwn(record)' /\ (P!Owned(record)' => P!Owned(record))
    <2>1. PICK T \in Target \cup {None} : T = record
        BY DEF ProcessInv, ProcessTypes
    <2>2. NamesItsOwn(T)' /\ (P!Owned(T)' => P!Owned(T))
        BY <1>1, <2>1, LaunchTargets DEF ProcessInv
    <2> QED
        BY <1>1, <2>1, <2>2 DEF NamesItsOwn, P!Owned
<1>12. CommandIsSound(c)'
    <2>1. NamesItsOwn(c.target)'
        <3>1. ASSUME NEW q \in P!Gateways', process'[q].token = issued'
              PROVE  q = p
            BY <1>1, <1>2, <1>9, <3>1
        <3> QED
            BY <1>2, <1>5, <3>1 DEF NamesItsOwn
    <2>2. process'[c.target.pid].token = c.target.token
        BY <1>5, <1>7
    <2>3. raced \/ ~P!Owned(record)
        BY <1>1, OneCommand DEF CommandIsSound, FileIsAsRead
    <2> QED
        BY <1>5, <1>6, <1>11, <2>1, <2>2, <2>3
        DEF CommandIsSound, KnowsItsTarget, FileIsAsRead
<1>13. ASSUME NEW q \in Operators \ {o}
       PROVE  CommandIsSound(command[q])'
    <2>1. PICK d \in CommandState : d = command[q]
        BY DEF ProcessInv, ProcessTypes
    <2>2. CommandIsSound(d) /\ d.target \in Target \cup {None}
        BY <2>1, OneCommand
    <2>3. NamesItsOwn(d.target)' /\ (P!Owned(d.target)' => P!Owned(d.target))
        BY <1>1, <2>2, LaunchTargets DEF CommandIsSound, KnowsItsTarget
    <2>4. ASSUME d.at \in {"record", "wait"}
          PROVE  \/ process'[d.target.pid] = None
                 \/ process'[d.target.pid].token = d.target.token
        <3>1. d.target.pid # p
            BY <1>1, <2>1, <2>4 DEF P!Exists, P!Unreaped
        <3>2. d.target.pid \in Pids
            BY <2>2, <2>4 DEF CommandIsSound, KnowsItsTarget, Target
        <3> QED
            BY <1>7, <2>2, <2>4, <3>1, <3>2 DEF CommandIsSound, KnowsItsTarget
    <2>5. KnowsItsTarget(d)'
        BY <2>2, <2>3, <2>4 DEF CommandIsSound, KnowsItsTarget
    <2>6. raced \/ FileIsAsRead(d)'
        BY <1>1, <1>11, <2>2 DEF CommandIsSound, FileIsAsRead
    <2>7. d = command'[q]
        BY <1>6, <2>1
    <2> QED
        BY <1>6, <2>5, <2>6, <2>7
        DEF CommandIsSound, KnowsItsTarget, NamesItsOwn, FileIsAsRead, P!Owned
<1>14. CommandsAreSound'
    BY <1>6, <1>12, <1>13
    DEF CommandsAreSound, CommandIsSound, KnowsItsTarget, NamesItsOwn, FileIsAsRead, P!Owned
<1>15. ASSUME NEW q \in P!Gateways', ~raced'
       PROVE  \/ process'[q].signalled \/ process'[q].token \in abandoned'
              \/ record' = [pid |-> q, token |-> process'[q].token]
              \/ \E u \in Operators : /\ command'[u].at = "record"
                                      /\ command'[u].target.token = process'[q].token
    <2>1. CASE q = p
        BY <1>5, <1>6, <1>7, <2>1
    <2>2. CASE q # p
        <3>1. q \in P!Gateways /\ process'[q] = process[q]
            BY <1>9, <2>2
        <3>2. \/ process[q].signalled \/ process[q].token \in abandoned
              \/ record = [pid |-> q, token |-> process[q].token]
              \/ \E u \in Operators : /\ command[u].at = "record"
                                      /\ command[u].target.token = process[q].token
            BY <1>6, <1>15, <3>1 DEF ProcessInv, P!GatewaysAreRecorded
        <3>3. ASSUME NEW u \in Operators, command[u].at = "record"
              PROVE  command'[u] = command[u]
            BY <1>1, <1>6, <3>3
        <3> QED
            BY <1>1, <3>1, <3>2, <3>3
    <2> QED
        BY <2>1, <2>2
<1>16. P!GatewaysAreRecorded'
    BY <1>15 DEF P!GatewaysAreRecorded
<1>17. ASSUME NEW q \in Operators
       PROVE  P!Reports(q)
    BY <1>5, <1>6 DEF P!Reports
<1> QED
    BY <1>6, <1>8, <1>10, <1>11, <1>14, <1>16, <1>17
    DEF ProcessGoal, ProcessInv, RacesAreNoted

\* A launch that fails.
LEMMA PopenFailsStep ==
    ASSUME ProcessInv, NEW o \in Operators, P!PopenFails(o)
    PROVE  ProcessGoal
<1>1. "failed" \in Results \ {"stopped", "killed", "running"}
    BY DEF Results
<1> QED
    BY <1>1, ReportStep DEF P!PopenFails

\* The launch is over: without a race nobody else is at work, and what the PID
\* file named before does not live.
LEMMA RecordedStep ==
    ASSUME ProcessInv, NEW o \in Operators, NEW c \in CommandState,
           P!Become(o, c), command[o].at = "record", record' = command[o].target,
           UNCHANGED <<process, issued, abandoned>>,
           c.at \in {"wait", "idle"},
           c.target = IF c.at = "wait" THEN command[o].target ELSE None,
           c.at = "idle" => c.result = "starting"
    PROVE  ProcessGoal
<1>1. /\ command' = [command EXCEPT ![o] = c]
      /\ command' \in [Operators -> CommandState] /\ command'[o] = c
      /\ \A q \in Operators \ {o} : command'[q] = command[q]
      /\ raced => raced'
      /\ raced' \in BOOLEAN
      /\ P!Racing(command') => raced'
    BY DEF P!Become, ProcessInv, ProcessTypes
<1>2. /\ CommandIsSound(command[o]) /\ command[o].target \in Target
      /\ command[o].target # None
    BY OneCommand DEF CommandIsSound, KnowsItsTarget
<1>3. ProcessTypes'
    BY <1>1, <1>2 DEF ProcessInv, ProcessTypes
<1>4. TokensAreUnique'
    BY DEF ProcessInv, TokensAreUnique, P!Gateways
<1>5. NamesItsOwn(record)'
    BY <1>2 DEF CommandIsSound, KnowsItsTarget, NamesItsOwn, P!Gateways
<1>6. ASSUME NEW q \in Operators \ {o}, ~raced
      PROVE  command[q].at = "idle"
    BY <1>6 DEF ProcessInv, RacesAreNoted, P!Racing, P!Launching
<1>7. CommandIsSound(c)'
    <2>1. KnowsItsTarget(c)
        BY <1>2 DEF CommandIsSound, KnowsItsTarget, NamesItsOwn
    <2> QED
        BY <2>1 DEF CommandIsSound, KnowsItsTarget, NamesItsOwn, FileIsAsRead, P!Owned,
                    P!Gateways
<1>8. ASSUME NEW q \in Operators \ {o}
      PROVE  CommandIsSound(command[q])'
    <2>1. KnowsItsTarget(command[q])'
        BY <1>1, OneCommand
        DEF CommandIsSound, KnowsItsTarget, NamesItsOwn, P!Owned, P!Gateways
    <2>2. raced \/ FileIsAsRead(command[q])'
        BY <1>1, <1>6 DEF FileIsAsRead
    <2> QED
        BY <1>1, <2>1, <2>2 DEF CommandIsSound
<1>9. CommandsAreSound'
    BY <1>1, <1>7, <1>8
    DEF CommandsAreSound, CommandIsSound, KnowsItsTarget, NamesItsOwn, FileIsAsRead, P!Owned
<1>10. ASSUME NEW p \in P!Gateways', ~raced'
       PROVE  \/ process'[p].signalled \/ process'[p].token \in abandoned'
              \/ record' = [pid |-> p, token |-> process'[p].token]
    <2>1. /\ p \in P!Gateways /\ p \in Pids /\ process'[p] = process[p]
          /\ process[p].token \in Nat
        BY DEF ProcessInv, ProcessTypes, Process, P!Gateways
    <2>2. \/ process[p].signalled \/ process[p].token \in abandoned
          \/ record = [pid |-> p, token |-> process[p].token]
          \/ \E q \in Operators : /\ command[q].at = "record"
                                  /\ command[q].target.token = process[p].token
        BY <1>1, <1>10, <2>1 DEF ProcessInv, P!GatewaysAreRecorded
    <2>3. record # [pid |-> p, token |-> process[p].token]
        <3>1. ~P!Owned(record)
            BY <1>1, <1>2, <1>10 DEF CommandIsSound, FileIsAsRead
        <3> SUFFICES ASSUME record = [pid |-> p, token |-> process[p].token]
                     PROVE  P!Owned(record)
            BY <3>1
        <3>2. record # None /\ record.pid = p /\ record.token = process[p].token
            BY <2>1, ProcessAssumption
        <3> QED
            BY <2>1, <3>2 DEF P!Owned, P!Gateways
    <2>4. ASSUME NEW q \in Operators, command[q].at = "record",
                 command[q].target.token = process[p].token
          PROVE  record' = [pid |-> p, token |-> process'[p].token]
        <3>1. q = o
            BY <1>1, <1>6, <1>10, <2>4
        <3>2. command[o].target.pid = p
            BY <1>2, <2>1, <2>4, <3>1 DEF CommandIsSound, KnowsItsTarget, NamesItsOwn
        <3> QED
            BY <1>2, <2>1, <2>4, <3>1, <3>2 DEF Target
    <2> QED
        BY <2>1, <2>2, <2>3, <2>4
<1>11. P!GatewaysAreRecorded'
    BY <1>10 DEF P!GatewaysAreRecorded
<1>12. ASSUME NEW q \in Operators
       PROVE  P!Reports(q)
    BY <1>1 DEF P!Reports
<1> QED
    BY <1>1, <1>3, <1>4, <1>5, <1>9, <1>11, <1>12 DEF ProcessGoal, ProcessInv, RacesAreNoted

\* The PID file is written, or the child is told to end.
LEMMA RecordStep ==
    ASSUME ProcessInv, NEW o \in Operators, P!Record(o)
    PROVE  ProcessGoal
<1> DEFINE pid == command[o].target.pid
<1>1. /\ command[o].at = "record" /\ UNCHANGED <<issued, abandoned>>
      /\ \/ /\ record' = command[o].target /\ process' = process
            /\ P!Goto(o, "wait") \/ P!Report(o, "starting")
         \/ /\ process' = P!Signalled(pid) /\ record' = record
            /\ P!Report(o, "failed")
    BY DEF P!Record
<1>2. /\ CommandIsSound(command[o]) /\ command[o].target \in Target
      /\ command[o].target # None /\ pid \in Pids
    BY <1>1, OneCommand DEF CommandIsSound, KnowsItsTarget, Target
<1>3. "wait" \in CommandSteps /\ "starting" \in Results /\ "failed" \in Results
    BY DEF CommandSteps, Results
<1>4. CASE record' = command[o].target /\ process' = process /\ P!Goto(o, "wait")
    <2>1. PICK c \in CommandState :
             P!Become(o, c) /\ c.at = "wait" /\ c.target = command[o].target
        BY <1>3, <1>4, GotoIs
    <2> QED
        BY <1>1, <1>4, <2>1, RecordedStep
<1>5. CASE record' = command[o].target /\ process' = process /\ P!Report(o, "starting")
    <2>1. PICK c \in CommandState :
             /\ P!Become(o, c) /\ c.at = "idle" /\ c.target = None
             /\ c.result = "starting"
        BY <1>3, <1>5, ReportIs
    <2> QED
        BY <1>1, <1>5, <2>1, RecordedStep
<1>6. CASE process' = P!Signalled(pid) /\ record' = record /\ P!Report(o, "failed")
    <2>1. PICK c \in CommandState :
             /\ P!Become(o, c) /\ c.at = "idle" /\ c.target = None
             /\ c.result = "failed"
        BY <1>3, <1>6, ReportIs
    <2>2. Quiet /\ (process'[pid] # None => process'[pid].signalled)
        BY <1>2, <1>6, SignalledIsQuiet
    <2>3. ASSUME NEW p \in P!Gateways', process'[p].token = command[o].target.token
          PROVE  process'[p].signalled
        <3>1. p \in P!Gateways /\ process[p].token = command[o].target.token
            BY <2>2, <2>3 DEF Quiet, P!Gateways
        <3>2. p = pid
            BY <1>2, <3>1 DEF CommandIsSound, KnowsItsTarget, NamesItsOwn
        <3> QED
            BY <2>2, <2>3, <3>2 DEF P!Gateways
    <2>4. KnowsItsTarget(c)' /\ (raced \/ FileIsAsRead(c)')
        BY <2>1 DEF KnowsItsTarget, NamesItsOwn, FileIsAsRead
    <2>5. Honest(o, c)
        BY <2>1 DEF Honest
    <2>6. /\ abandoned \subseteq abandoned' /\ record' \in {record, None}
          /\ record' = record /\ issued' = issued
        BY <1>1, <1>6
    <2> QED
        BY <2>1, <2>2, <2>3, <2>4, <2>5, <2>6, ProcessStep DEF ProcessGoal
<1> QED
    BY <1>1, <1>4, <1>5, <1>6

\* A command that waits reports its gateway running only if what runs under the
\* PID it keeps is what it launched.
LEMMA WaitStep ==
    ASSUME ProcessInv, NEW o \in Operators, P!Wait(o)
    PROVE  ProcessGoal
<1>1. /\ command[o].at = "wait" /\ UNCHANGED <<process, record, issued, abandoned>>
      /\ \/ /\ P!Owned(record) /\ record.pid = command[o].target.pid
            /\ P!Report(o, "running")
         \/ \E result \in {"start_failed", "start_timeout"} : P!Report(o, result)
    BY DEF P!Wait
<1>2. ASSUME NEW result \in {"start_failed", "start_timeout"}, P!Report(o, result)
      PROVE  ProcessGoal
    <2>1. result \in Results \ {"stopped", "killed", "running"}
        BY DEF Results
    <2> QED
        BY <1>1, <1>2, <2>1, ReportStep
<1>3. CASE /\ P!Owned(record) /\ record.pid = command[o].target.pid
           /\ P!Report(o, "running")
    <2>1. "running" \in Results
        BY DEF Results
    <2>2. PICK c \in CommandState :
             /\ P!Become(o, c) /\ c.at = "idle" /\ c.target = None
             /\ c.result = "running"
        BY <1>3, <2>1, ReportIs
    <2>3. P!Owned(command[o].target)
        BY <1>1, <1>3, OneCommand DEF P!Owned, CommandIsSound, KnowsItsTarget
    <2>4. CommandIsSound(c) /\ Honest(o, c)
        BY <2>2, <2>3, WithoutTarget DEF Honest
    <2> QED
        BY <1>1, <2>2, <2>4, CommandStep DEF ProcessGoal
<1> QED
    BY <1>1, <1>2, <1>3

\* A command that is broken off gives up a launch it has not recorded.
LEMMA CrashStep ==
    ASSUME ProcessInv, NEW o \in Operators, P!Crash(o)
    PROVE  ProcessGoal
<1>1. /\ abandoned \subseteq abandoned'
      /\ command[o].at = "record" => command[o].target.token \in abandoned'
      /\ P!Report(o, "interrupted") /\ UNCHANGED <<process, record, issued>>
    BY DEF P!Crash
<1>2. "interrupted" \in Results
    BY DEF Results
<1>3. PICK c \in CommandState :
         /\ P!Become(o, c) /\ c.at = "idle" /\ c.target = None
         /\ c.result = "interrupted"
    BY <1>1, <1>2, ReportIs
<1>4. Quiet
    BY <1>1 DEF ProcessInv, ProcessTypes, Quiet
<1>5. KnowsItsTarget(c)' /\ (raced \/ FileIsAsRead(c)')
    BY <1>3 DEF KnowsItsTarget, NamesItsOwn, FileIsAsRead
<1>6. Honest(o, c)
    BY <1>3 DEF Honest
<1>7. record' \in {record, None} /\ record' = record /\ issued' = issued
    BY <1>1
<1> QED
    BY <1>1, <1>3, <1>4, <1>5, <1>6, <1>7, ProcessStep DEF ProcessGoal

\* Any step of the commands, and any that is not one of theirs.
LEMMA ProcessNext ==
    ASSUME ProcessInv, P!Next \/ UNCHANGED processVars
    PROVE  ProcessGoal
<1>1. CASE UNCHANGED processVars
    <2>1. Quiet
        BY <1>1 DEF ProcessInv, ProcessTypes, Quiet, processVars
    <2> QED
        BY <1>1, <2>1, WorldStep DEF processVars
<1>2. CASE P!Next
    BY <1>2, ForeignStartsStep, ExitsStep, BeginStep, ReadStep, CheckStep, VerifyStep,
       SignalStep, PollStep, TimeoutStep, ForceStep, KillStep, UnlinkStep, PurgeStep,
       PopenStep, PopenFailsStep, RecordStep, WaitStep, CrashStep DEF P!Next
<1> QED
    BY <1>1, <1>2

\* No command, no PID file and no process.
LEMMA ProcessInit == P!Init => ProcessInv
<1> SUFFICES ASSUME P!Init
             PROVE  ProcessInv
    OBVIOUS
<1> USE ProcessAssumption
<1> USE DEF P!Init
<1>1. ProcessTypes
    <2>1. process \in [Pids -> Process \cup {None}] /\ issued \in 0..MaxTokens
        OBVIOUS
    <2>2. command \in [Operators -> CommandState]
        BY NoCommandIs
    <2> QED
        BY <2>1, <2>2 DEF ProcessTypes
<1>2. TokensAreUnique /\ NamesItsOwn(record)
    BY DEF TokensAreUnique, NamesItsOwn, P!Gateways
<1>3. CommandsAreSound
    BY NoCommandIs, WithoutTarget DEF CommandsAreSound
<1>4. RacesAreNoted
    BY NoCommandIs DEF RacesAreNoted, P!Racing, P!Launching
<1>5. P!GatewaysAreRecorded
    BY DEF P!GatewaysAreRecorded, P!Gateways
<1> QED
    BY <1>1, <1>2, <1>3, <1>4, <1>5 DEF ProcessInv

-----------------------------------------------------------------------------
(* The reasoning effort of a request. *)

EffortTypes ==
    /\ ladder \subseteq 0..Top
    /\ base \in Bases
    /\ section \in Sections \cup {None}
    /\ replaced \in Collections \cup {None}

\* The inherited policy with the strategy's labels.
Loaded ==
    [E!Inherited EXCEPT
        !.labels = E!Labels,
        !.by_label = IF E!Fits THEN @ ELSE E!NoEntries]

\* A policy that is loaded is the inherited one with the strategy's labels, and
\* with the inherited map of labels only if that fits them.
PolicyIsLoaded ==
    policy # None =>
        /\ E!Loads
        /\ policy = Loaded

EffortInv ==
    /\ EffortTypes
    /\ PolicyIsLoaded
    /\ effort # None => policy # None
    /\ E!TypeOK
    /\ E!EffortFits

\* Levels are numbers.
LEMMA LevelsAreNumbers ==
    Top \in Nat /\ None \notin 0..Top /\ Unknown \notin 0..Top /\ None # Unknown
    BY EffortAssumption

\* A set of numbers that is not empty has a least element.
LEMMA LeastNumber ==
    ASSUME NEW S, S \subseteq Nat, S # {}
    PROVE  /\ (CHOOSE i \in S : \A j \in S : i <= j) \in S
           /\ \A k \in S : (CHOOSE i \in S : \A j \in S : i <= j) <= k
<1>1. PICK i \in S : \A j \in S : <<j, i>> \notin OpToRel(<, Nat)
    BY NatLessThanWellFounded, WFMin
<1>2. \A j \in S : i <= j
    <2> SUFFICES ASSUME NEW j \in S, j < i
                 PROVE  FALSE
        OBVIOUS
    <2>1. <<j, i>> \in OpToRel(<, Nat)
        BY DEF OpToRel
    <2> QED
        BY <1>1, <2>1
<1> QED
    BY <1>2

\* The first accepted level of a walk that holds one: the route accepts it, and
\* none that comes before it.
LEMMA FirstOfWalk ==
    ASSUME EffortTypes,
           NEW walk1 \in [1..(Top + 1) -> 0..Top],
           \E i \in 1..(Top + 1) : walk1[i] \in ladder
    PROVE  \E i \in 1..(Top + 1) :
               /\ walk1[i] = E!FirstAccepted(walk1) /\ walk1[i] \in ladder
               /\ \A j \in 1..(Top + 1) : walk1[j] \in ladder => i <= j
<1> DEFINE I == {i \in 1..Len(walk1) : walk1[i] \in ladder}
<1>1. Len(walk1) = Top + 1
    BY LevelsAreNumbers
<1>2. I # {} /\ I \subseteq Nat
    BY <1>1
<1>3. E!FirstAccepted(walk1) = walk1[E!Min(I)]
    BY <1>2 DEF E!FirstAccepted, E!SelectInSeq
<1>4. E!Min(I) \in I /\ \A j \in I : E!Min(I) <= j
    <2> HIDE DEF I
    <2> QED
        BY <1>2, LeastNumber DEF E!Min
<1> QED
    BY <1>1, <1>3, <1>4

\* Where a level is on the walk that clamps a wanted one.
LEMMA ClampIsNearest ==
    ASSUME EffortTypes, ladder # {}, NEW wanted \in 0..Top
    PROVE  /\ E!IsNearest(E!Clamp(wanted), wanted)
           /\ E!Clamp(wanted) \in 0..Top
<1> USE LevelsAreNumbers
<1> DEFINE w == [i \in 1..(Top + 1) |->
                    IF wanted + i - 1 <= Top THEN wanted + i - 1 ELSE Top + 1 - i]
<1>1. w \in [1..(Top + 1) -> 0..Top]
    OBVIOUS
<1>2. ASSUME NEW level \in 0..Top
      PROVE  /\ level >= wanted =>
                   level - wanted + 1 \in 1..(Top + 1) /\ w[level - wanted + 1] = level
             /\ level < wanted =>
                   Top + 1 - level \in 1..(Top + 1) /\ w[Top + 1 - level] = level
    OBVIOUS
<1>3. \E i \in 1..(Top + 1) : w[i] \in ladder
    <2>1. PICK level \in ladder : level \in 0..Top
        BY DEF EffortTypes
    <2> HIDE DEF w
    <2> QED
        BY <1>2, <2>1
<1>4. E!Clamp(wanted) = E!FirstAccepted(w)
    BY DEF E!Clamp
<1>5. ASSUME NEW i \in 1..(Top + 1)
      PROVE  w[i] = IF wanted + i - 1 <= Top THEN wanted + i - 1 ELSE Top + 1 - i
    OBVIOUS
<1> HIDE DEF w
<1>6. PICK i \in 1..(Top + 1) :
          /\ w[i] = E!Clamp(wanted) /\ w[i] \in ladder
          /\ \A j \in 1..(Top + 1) : w[j] \in ladder => i <= j
    BY <1>1, <1>3, <1>4, FirstOfWalk
<1>7. ASSUME NEW other \in ladder
      PROVE  /\ other \in 0..Top
             /\ other >= wanted => i <= other - wanted + 1
             /\ other < wanted => i <= Top + 1 - other
    BY <1>2, <1>6 DEF EffortTypes
<1>8. w[i] >= wanted => \A other \in ladder : other >= wanted => w[i] <= other
    BY <1>5, <1>7
<1>9. ~(w[i] >= wanted) => \A other \in ladder : other < wanted /\ other <= w[i]
    BY <1>5, <1>7
<1> QED
    BY <1>1, <1>6, <1>8, <1>9 DEF E!IsNearest

\* There is one nearest level.
LEMMA NearestIsOne ==
    ASSUME EffortTypes, NEW wanted \in 0..Top, NEW level, NEW other,
           E!IsNearest(level, wanted), E!IsNearest(other, wanted)
    PROVE  level = other
<1>1. level \in 0..Top /\ other \in 0..Top
    BY DEF E!IsNearest, EffortTypes
<1> QED
    BY <1>1, LevelsAreNumbers DEF E!IsNearest

\* The policy of a strategy, field by field.
LEMMA LoadedFields ==
    ASSUME EffortTypes
    PROVE  /\ Loaded.mode = IF section = None THEN base.mode
                            ELSE E!Given(section.mode, base.mode)
           /\ Loaded.fallback = IF section = None THEN base.fallback
                                ELSE E!Given(section.fallback, base.fallback)
           /\ Loaded.labels = E!Labels
           /\ Loaded.by_label = IF E!Fits THEN E!Inherited.by_label ELSE E!NoEntries
           /\ Loaded.by_tier = E!Inherited.by_tier
<1> DEFINE Fields == {"mode", "labels", "by_label", "by_tier", "fallback"}
<1>1. DOMAIN base = Fields
    BY EffortAssumption DEF EffortTypes
<1>2. DOMAIN E!Inherited = Fields
    BY <1>1 DEF E!Inherited
<1>3. /\ E!Inherited.mode = IF section = None THEN base.mode
                            ELSE E!Given(section.mode, base.mode)
      /\ E!Inherited.fallback = IF section = None THEN base.fallback
                                ELSE E!Given(section.fallback, base.fallback)
    BY <1>1 DEF E!Inherited
<1> QED
    BY <1>2, <1>3 DEF Loaded

\* The fields of a policy that was loaded.
LEMMA PolicyFields ==
    ASSUME EffortTypes, PolicyIsLoaded, policy # None
    PROVE  /\ policy.mode = IF section = None THEN base.mode
                            ELSE E!Given(section.mode, base.mode)
           /\ policy.fallback = IF section = None THEN base.fallback
                                ELSE E!Given(section.fallback, base.fallback)
           /\ policy.labels = E!Labels
           /\ policy.by_label = IF E!Fits THEN E!Inherited.by_label ELSE E!NoEntries
           /\ policy.by_tier = E!Inherited.by_tier
    BY LoadedFields DEF PolicyIsLoaded

\* The maps it is made of, and their types.
LEMMA InheritedMaps ==
    ASSUME EffortTypes
    PROVE  /\ E!Inherited.by_label =
                  IF section = None THEN base.by_label
                  ELSE E!Given(section.by_label, base.by_label)
           /\ E!Inherited.by_tier =
                  IF section = None \/ section.by_tier = None THEN base.by_tier
                  ELSE E!Updated(base.by_tier, section.by_tier)
<1>1. DOMAIN base = {"mode", "labels", "by_label", "by_tier", "fallback"}
    BY EffortAssumption DEF EffortTypes
<1>2. CASE section = None
    BY <1>2 DEF E!Inherited
<1>3. CASE section # None
    <2>1. E!Inherited.by_label = E!Given(section.by_label, base.by_label)
        BY <1>1, <1>3 DEF E!Inherited
    <2>2. E!Inherited.by_tier =
              E!Updated(base.by_tier, E!Given(section.by_tier, E!NoEntries))
        BY <1>1, <1>3 DEF E!Inherited
    <2>3. E!Updated(base.by_tier, E!NoEntries) = base.by_tier
        <3>1. base.by_tier \in [DOMAIN base.by_tier -> 0..Top]
            BY EffortAssumption DEF EffortTypes
        <3> QED
            BY <3>1 DEF E!Updated, E!NoEntries
    <2> QED
        BY <1>3, <2>1, <2>2, <2>3 DEF E!Given
<1> QED
    BY <1>2, <1>3

\* The least of some positions of a sequence of four.
LEMMA LeastOfFour ==
    ASSUME NEW S, S \subseteq 1..4, NEW c \in S, \A j \in S : c <= j
    PROVE  (CHOOSE i \in S : \A j \in S : i <= j) = c
<1>1. \A d \in S : (\A j \in S : d <= j) => d = c
    OBVIOUS
<1> QED
    BY <1>1

\* What an entry of a map says.
LEMMA EntryType ==
    ASSUME NEW map1, map1 \in [DOMAIN map1 -> 0..Top], NEW name
    PROVE  /\ E!Entry(map1, name) \in 0..Top \cup {None}
           /\ E!Entry(map1, name) # None => E!Entry(map1, name) = map1[name]
           /\ E!Entry(map1, name) # None <=> name \in DOMAIN map1
    BY EffortAssumption DEF E!Entry

\* What the policy of a strategy yields for a label is what its configuration
\* asks for, and a level.
LEMMA DerivedIsAsked ==
    ASSUME EffortTypes, PolicyIsLoaded, policy # None,
           NEW label \in DOMAIN policy.labels, NEW defaulted \in BOOLEAN
    PROVE  /\ E!Derived(label, defaulted) = E!Asked(label, defaulted)
           /\ E!Derived(label, defaulted) \in 0..Top
<1> DEFINE says(field) == section # None /\ section[field] # None
           usable == replaced = None \/ DOMAIN base.by_label \subseteq DOMAIN replaced
           m1 == E!Given(replaced, base.labels)
           m2 == IF says("by_label") THEN section.by_label
                 ELSE IF usable THEN base.by_label ELSE None
           m3 == IF says("by_tier") THEN section.by_tier ELSE None
           m4 == base.by_tier
           fallback == IF says("fallback") THEN section.fallback ELSE base.fallback
           maps == <<m1, m2, m3, m4>>
           saying == {i \in DOMAIN maps : E!Says(maps[i], label)}
<1>1. E!Asked(label, defaulted) =
          IF defaulted \/ saying = {} THEN fallback
          ELSE maps[CHOOSE i \in saying : \A j \in saying : i <= j][label]
    BY DEF E!Asked
<1>2. fallback = policy.fallback /\ fallback \in 0..Top
    BY PolicyFields, EffortAssumption DEF EffortTypes, E!Given
<1>3. /\ policy.labels = m1 /\ label \in DOMAIN m1
      /\ m1 # None /\ m1 \in [DOMAIN m1 -> 0..Top \cup {None}]
    BY PolicyFields, EffortAssumption DEF EffortTypes, E!Labels, E!Given
<1>4. /\ m2 # None => m2 \in [DOMAIN m2 -> 0..Top]
      /\ m3 # None => m3 \in [DOMAIN m3 -> 0..Top]
      /\ m4 # None => m4 \in [DOMAIN m4 -> 0..Top]
      /\ base.by_tier \in [DOMAIN base.by_tier -> 0..Top]
    BY EffortAssumption DEF EffortTypes
<1>5. E!Entry(policy.by_label, label) =
          IF E!Says(m2, label) THEN m2[label] ELSE None
    <2>1. m2 = IF E!Fits THEN E!Inherited.by_label ELSE None
        BY <1>3, PolicyFields, InheritedMaps 
           DEF PolicyIsLoaded, E!Loads, E!Fits, E!Given, E!Labels
    <2>2. E!Entry(E!NoEntries, label) = None
        BY DEF E!Entry, E!NoEntries
    <2>3. policy.by_label = IF E!Fits THEN m2 ELSE E!NoEntries
        BY <2>1, PolicyFields
    <2>4. E!Inherited.by_label # None
        BY InheritedMaps, EffortAssumption DEF EffortTypes, E!Given
    <2> HIDE DEF m2
    <2>5. CASE E!Fits
        BY <2>3, <2>5, <2>1, <2>4, <1>4, EntryType DEF E!Says
    <2>6. CASE ~E!Fits
        BY <2>1, <2>2, <2>3, <2>6 DEF E!Says
    <2> QED
        BY <2>5, <2>6
<1>6. E!Entry(policy.by_tier, label) =
          IF E!Says(m3, label) THEN m3[label]
          ELSE IF E!Says(m4, label) THEN m4[label] ELSE None
    <2>1. policy.by_tier = IF m3 = None THEN m4 ELSE E!Updated(m4, m3)
        BY PolicyFields, InheritedMaps
    <2> HIDE DEF m3
    <2>2. m4 # None
        BY EffortAssumption DEF EffortTypes
    <2> HIDE DEF m4
    <2>3. CASE m3 = None
        BY <2>1, <2>2, <2>3 DEF E!Says, E!Entry
    <2>4. CASE m3 # None
        <3>1. policy.by_tier = [name \in DOMAIN m4 \cup DOMAIN m3 |->
                  IF name \in DOMAIN m3 THEN m3[name] ELSE m4[name]]
            BY <2>1, <2>4 DEF E!Updated
        <3>2. E!Says(m3, label) <=> label \in DOMAIN m3
            BY <1>4, <2>4, EntryType DEF E!Says
        <3>3. E!Says(m4, label) <=> label \in DOMAIN m4
            BY <1>4, <2>2, EntryType DEF E!Says
        <3> QED
            BY <3>1, <3>2, <3>3 DEF E!Entry
    <2> QED
        BY <2>3, <2>4
<1>7. E!Entry(policy.labels, label) =
          IF E!Says(m1, label) THEN m1[label] ELSE None
    <2> HIDE DEF m1
    <2> QED
        BY <1>3 DEF E!Says, E!Entry
<1>8. /\ E!Says(m1, label) => m1[label] \in 0..Top
      /\ E!Says(m2, label) => m2[label] \in 0..Top
      /\ E!Says(m3, label) => m3[label] \in 0..Top
      /\ E!Says(m4, label) => m4[label] \in 0..Top
    BY <1>3, <1>4, EntryType DEF E!Says, E!Entry
<1>9. saying \subseteq 1..4
      /\ (1 \in saying <=> E!Says(m1, label)) /\ (2 \in saying <=> E!Says(m2, label))
      /\ (3 \in saying <=> E!Says(m3, label)) /\ (4 \in saying <=> E!Says(m4, label))
    <2> HIDE DEF m1, m2, m3, m4
    <2>1. DOMAIN maps = 1..4
        OBVIOUS
    <2>2. maps[1] = m1 /\ maps[2] = m2 /\ maps[3] = m3 /\ maps[4] = m4
        OBVIOUS
    <2> HIDE DEF maps
    <2> QED
        BY <2>1, <2>2
<1>10. maps[1] = m1 /\ maps[2] = m2 /\ maps[3] = m3 /\ maps[4] = m4
    <2> HIDE DEF m1, m2, m3, m4
    <2> QED
        OBVIOUS
<1>11. ~(None \in 0..Top)
    BY LevelsAreNumbers
<1> HIDE DEF saying, maps, m1, m2, m3, m4, fallback
<1>12. CASE defaulted
    BY <1>1, <1>2, <1>12 DEF E!Derived
<1>13. CASE ~defaulted /\ E!Says(m1, label)
    <2>1. (CHOOSE i \in saying : \A j \in saying : i <= j) = 1
        <3>1. 1 \in saying /\ \A j \in saying : 1 <= j
            BY <1>9, <1>13
        <3> QED
            BY <1>9, <3>1, LeastOfFour
    <2> QED
        BY <1>1, <1>7, <1>8, <1>9, <1>10, <1>11, <1>13, <2>1 DEF E!Derived, E!Given
<1>14. CASE ~defaulted /\ ~E!Says(m1, label) /\ E!Says(m2, label)
    <2>1. (CHOOSE i \in saying : \A j \in saying : i <= j) = 2
        <3>1. 2 \in saying /\ \A j \in saying : 2 <= j
            BY <1>9, <1>14
        <3> QED
            BY <1>9, <3>1, LeastOfFour
    <2> QED
        BY <1>1, <1>5, <1>7, <1>8, <1>9, <1>10, <1>11, <1>14, <2>1
           DEF E!Derived, E!Given
<1>15. CASE /\ ~defaulted /\ ~E!Says(m1, label) /\ ~E!Says(m2, label)
            /\ E!Says(m3, label)
    <2>1. (CHOOSE i \in saying : \A j \in saying : i <= j) = 3
        <3>1. 3 \in saying /\ \A j \in saying : 3 <= j
            BY <1>9, <1>15
        <3> QED
            BY <1>9, <3>1, LeastOfFour
    <2> QED
        BY <1>1, <1>5, <1>6, <1>7, <1>8, <1>9, <1>10, <1>11, <1>15, <2>1
           DEF E!Derived, E!Given
<1>16. CASE /\ ~defaulted /\ ~E!Says(m1, label) /\ ~E!Says(m2, label)
            /\ ~E!Says(m3, label) /\ E!Says(m4, label)
    <2>1. (CHOOSE i \in saying : \A j \in saying : i <= j) = 4
        <3>1. 4 \in saying /\ \A j \in saying : 4 <= j
            BY <1>9, <1>16
        <3> QED
            BY <1>9, <3>1, LeastOfFour
    <2> QED
        BY <1>1, <1>5, <1>6, <1>7, <1>8, <1>9, <1>10, <1>11, <1>16, <2>1
           DEF E!Derived, E!Given
<1>17. CASE /\ ~defaulted /\ ~E!Says(m1, label) /\ ~E!Says(m2, label)
            /\ ~E!Says(m3, label) /\ ~E!Says(m4, label)
    <2>1. saying = {}
        BY <1>9, <1>17
    <2> QED
        BY <1>1, <1>2, <1>5, <1>6, <1>7, <1>17, <2>1 DEF E!Derived, E!Given
<1> QED
    BY <1>12, <1>13, <1>14, <1>15, <1>16, <1>17

\* What is sent for a choice.
Sent(choice, requested) ==
    IF E!LeavesPayloadAlone(choice.source) THEN requested ELSE choice.level

EffortMode ==
    IF section = None THEN base.mode ELSE E!Given(section.mode, base.mode)

\* What EffortFits asks of a level that is sent.
SentFits(sent, asked, client) ==
    IF EffortMode = "off" \/ ladder = {} THEN sent = client
    ELSE IF EffortMode = "override" \/ (client = None /\ EffortMode # "preserve")
         THEN sent # None /\ E!IsNearest(sent, asked)
    ELSE IF client \in {None, Unknown} THEN sent = None
    ELSE /\ sent # None
         /\ E!IsNearest(sent, client) \/ (EffortMode = "cap" /\ E!IsNearest(sent, asked))
         /\ EffortMode = "cap" => \A level \in ladder :
                E!IsNearest(level, client) \/ E!IsNearest(level, asked) => sent <= level

\* Whatever a request asks for, what is sent for it fits.
LEMMA ChoiceFits ==
    ASSUME EffortTypes, PolicyIsLoaded, policy # None,
           NEW label \in DOMAIN policy.labels, NEW defaulted \in BOOLEAN,
           NEW requested \in 0..Top \cup {None, Unknown},
           NEW sent,
           sent = Sent(E!EffortFor(label, defaulted, requested), requested)
    PROVE  /\ SentFits(sent, E!Asked(label, defaulted), requested)
           /\ sent \in 0..Top \cup {None, Unknown}
<1> DEFINE asked == E!Asked(label, defaulted)
           derived == E!Clamp(E!Derived(label, defaulted))
           kept == E!Clamp(requested)
           choice == E!EffortFor(label, defaulted, requested)
<1>1. policy.mode = EffortMode
    BY PolicyFields DEF EffortMode
<1>2. ladder # {} => derived \in 0..Top /\ E!IsNearest(derived, asked)
    BY DerivedIsAsked, ClampIsNearest
<1>3. ladder # {} /\ requested \in 0..Top =>
          kept \in 0..Top /\ E!IsNearest(kept, requested)
    BY ClampIsNearest
<1>4. choice =
          CASE policy.mode = "off" -> [level |-> None, source |-> "off"]
            [] policy.mode # "off" /\ ladder = {} ->
                   [level |-> None, source |-> "undeclared"]
            [] OTHER ->
                 IF requested = None
                 THEN IF policy.mode = "preserve"
                      THEN [level |-> None, source |-> "client"]
                      ELSE [level |-> derived, source |-> "derived"]
                 ELSE IF policy.mode = "override"
                      THEN [level |-> derived, source |-> "derived"]
                 ELSE IF requested = Unknown
                      THEN [level |-> None, source |-> "invalid_client"]
                 ELSE IF policy.mode = "cap" /\ derived < kept
                      THEN [level |-> derived, source |-> "capped"]
                 ELSE [level |-> kept,
                       source |-> IF kept = requested THEN "client"
                                  ELSE "clamped_client"]
    BY DEF E!EffortFor
<1>5. sent = IF choice.source \in {"off", "undeclared"} THEN requested
             ELSE choice.level
    BY DEF Sent, E!LeavesPayloadAlone
<1> HIDE DEF derived, kept, choice, asked
<1>6. CASE policy.mode = "off" \/ ladder = {}
    <2>1. sent = requested
        BY <1>4, <1>5, <1>6
    <2> QED
        BY <1>1, <1>6, <2>1 DEF SentFits
<1>7. CASE /\ policy.mode # "off" /\ ladder # {}
           /\ policy.mode = "override" \/ (requested = None /\ policy.mode # "preserve")
    <2>1. choice = [level |-> derived, source |-> "derived"]
        BY <1>4, <1>7
    <2>2. sent = derived
        BY <1>5, <2>1
    <2> QED
        BY <1>1, <1>2, <1>7, <2>2, LevelsAreNumbers DEF SentFits, asked
<1>8. CASE /\ policy.mode \notin {"off", "override"} /\ ladder # {}
           /\ policy.mode = "preserve" \/ requested # None
           /\ requested \in {None, Unknown}
    <2>1. choice.level = None /\ choice.source \in {"client", "invalid_client"}
        BY <1>4, <1>8, LevelsAreNumbers
    <2>2. sent = None
        BY <1>5, <2>1
    <2> QED
        BY <1>1, <1>8, <2>2, LevelsAreNumbers DEF SentFits
<1>9. CASE /\ policy.mode \notin {"off", "override"} /\ ladder # {}
           /\ requested \in 0..Top
    <2>1. requested # None /\ requested # Unknown
        BY <1>9, LevelsAreNumbers
    <2>2. choice = IF policy.mode = "cap" /\ derived < kept
                   THEN [level |-> derived, source |-> "capped"]
                   ELSE [level |-> kept,
                         source |-> IF kept = requested THEN "client"
                                    ELSE "clamped_client"]
        BY <1>4, <1>9, <2>1
    <2>3. sent = IF policy.mode = "cap" /\ derived < kept THEN derived ELSE kept
        BY <1>5, <2>2
    <2>4. sent \in 0..Top /\ sent # None
        BY <1>2, <1>3, <1>9, <2>3, LevelsAreNumbers
    <2>5. E!IsNearest(sent, requested)
              \/ (policy.mode = "cap" /\ E!IsNearest(sent, asked))
        BY <1>2, <1>3, <1>9, <2>3
    <2>6. ASSUME policy.mode = "cap", NEW level \in ladder,
                 E!IsNearest(level, requested) \/ E!IsNearest(level, asked)
          PROVE  sent <= level
        <3>1. asked \in 0..Top
            BY DerivedIsAsked DEF asked
        <3>2. level = kept \/ level = derived
            BY <1>2, <1>3, <1>9, <2>6, <3>1, NearestIsOne
        <3>3. derived \in Nat /\ kept \in Nat
            BY <1>2, <1>3, <1>9, LevelsAreNumbers
        <3> QED
            BY <2>3, <2>6, <3>2, <3>3
    <2> QED
        BY <1>1, <1>9, <2>1, <2>4, <2>5, <2>6 DEF SentFits, asked
<1> QED
    BY <1>6, <1>7, <1>8, <1>9

\* Loading a configuration, with a policy of its own or the inherited one.
LEMMA EffortLoad ==
    ASSUME EffortInv, E!Load
    PROVE  EffortInv'
<1> USE DEF E!Load
<1>1. effort = None /\ effort' = None
    BY DEF EffortInv
<1>2. policy' = Loaded
    BY DEF Loaded
<1>3. EffortTypes' /\ PolicyIsLoaded'
    BY <1>2 DEF EffortInv, EffortTypes, PolicyIsLoaded, Loaded, E!Loads, E!Fits,
                E!Inherited, E!Labels, E!NoEntries, E!Given, E!Updated
<1>4. E!EffortFits'
    BY <1>1 DEF E!EffortFits
<1>5. Loaded.mode \in E!Modes /\ Loaded.fallback \in 0..Top
    BY LoadedFields, EffortAssumption DEF EffortInv, EffortTypes, E!Modes, E!Given
<1>6. DOMAIN Loaded.by_label \subseteq DOMAIN Loaded.labels
    BY LoadedFields DEF EffortInv, E!Fits, E!NoEntries
<1>7. E!TypeOK'
    <2> HIDE DEF E!Load
    <2> QED
        BY <1>1, <1>2, <1>5, <1>6 DEF E!TypeOK, E!Levels
<1> QED
    BY <1>1, <1>3, <1>4, <1>7 DEF EffortInv

\* Choosing the effort of a request.
LEMMA EffortChoose ==
    ASSUME EffortInv, NEW label \in DOMAIN policy.labels, NEW defaulted \in BOOLEAN,
           NEW requested \in 0..Top \cup {None, Unknown},
           E!Choose(label, defaulted, requested)
    PROVE  EffortInv'
<1> DEFINE choice == E!EffortFor(label, defaulted, requested)
           sent == IF E!LeavesPayloadAlone(choice.source) THEN requested
                   ELSE choice.level
           asked == E!Asked(label, defaulted)
<1>1. /\ policy # None /\ UNCHANGED <<ladder, base, section, replaced, policy>>
      /\ effort' = [label |-> label, defaulted |-> defaulted, requested |-> requested,
                    source |-> choice.source, sent |-> sent]
    BY DEF E!Choose
<1>2. SentFits(sent, asked, requested) /\ sent \in 0..Top \cup {None, Unknown}
    BY <1>1, ChoiceFits DEF EffortInv, Sent
<1> HIDE DEF sent, choice
<1>3. effort'.sent = sent /\ effort'.label = label /\ effort'.defaulted = defaulted
      /\ effort'.requested = requested
    BY <1>1
<1>4. E!Asked(label, defaulted)' = asked
    BY <1>1 DEF E!Asked, E!Given, E!Says, E!Entry
<1>5. E!EffortFits'
    <2>1. \A level, wanted :
              E!IsNearest(level, wanted)' <=> E!IsNearest(level, wanted)
        BY <1>1 DEF E!IsNearest
    <2> SUFFICES
            LET mode == IF section = None THEN base.mode
                        ELSE E!Given(section.mode, base.mode)
            IN  IF mode = "off" \/ ladder = {} THEN sent = requested
                ELSE IF mode = "override" \/ (requested = None /\ mode # "preserve")
                     THEN sent # None /\ E!IsNearest(sent, asked)
                ELSE IF requested \in {None, Unknown} THEN sent = None
                ELSE /\ sent # None
                     /\ \/ E!IsNearest(sent, requested)
                        \/ mode = "cap" /\ E!IsNearest(sent, asked)
                     /\ mode = "cap" => \A level \in ladder :
                            E!IsNearest(level, requested) \/ E!IsNearest(level, asked)
                                => sent <= level
        BY <1>1, <1>3, <1>4, <2>1 DEF E!EffortFits, E!Given
    <2> QED
        BY <1>2 DEF SentFits, EffortMode
<1>6. EffortTypes' /\ PolicyIsLoaded'
    BY <1>1 DEF EffortInv, EffortTypes, PolicyIsLoaded, Loaded, E!Loads, E!Fits,
                E!Inherited, E!Labels, E!NoEntries, E!Given, E!Updated
<1>7. E!TypeOK'
    BY <1>1, <1>2, <1>3 DEF EffortInv, E!TypeOK, E!Levels
<1> QED
    BY <1>1, <1>5, <1>6, <1>7 DEF EffortInv

\* A step of the reasoning effort.
LEMMA EffortStep ==
    ASSUME EffortInv, E!Next \/ UNCHANGED effortVars
    PROVE  EffortInv'
<1>1. CASE UNCHANGED effortVars
    <2>1. UNCHANGED <<ladder, base, section, replaced, policy, effort>>
        BY <1>1 DEF effortVars
    <2>2. EffortTypes' /\ PolicyIsLoaded' /\ E!TypeOK'
        BY <2>1 DEF EffortInv, EffortTypes, PolicyIsLoaded, Loaded, E!Loads, E!Fits,
                    E!Inherited, E!Labels, E!NoEntries, E!Given, E!Updated, E!TypeOK
    <2>3. \A label, defaulted : E!Asked(label, defaulted)' = E!Asked(label, defaulted)
        BY <2>1 DEF E!Asked, E!Given, E!Says, E!Entry
    <2>4. \A level, wanted : E!IsNearest(level, wanted)' <=> E!IsNearest(level, wanted)
        BY <2>1 DEF E!IsNearest
    <2>5. E!EffortFits'
        BY <2>1, <2>3, <2>4 DEF EffortInv, E!EffortFits, E!Given
    <2> QED
        BY <2>1, <2>2, <2>5 DEF EffortInv
<1>2. CASE E!Next
    BY <1>2, EffortLoad, EffortChoose DEF E!Next, E!Levels
<1> QED
    BY <1>1, <1>2

\* Nothing is loaded and nothing chosen.
LEMMA EffortInit == E!Init => EffortInv
    BY DEF E!Init, EffortInv, EffortTypes, PolicyIsLoaded, E!TypeOK, E!EffortFits, E!Levels

-----------------------------------------------------------------------------
(* What the adapters remember. *)

\* Records of turns, and the jobs of the recorder that are about them.
Turn == {C!Captured(r, content) : r \in Requests, content \in Contents}
            \cup {Earlier[i] : i \in DOMAIN Earlier}

Job == {[kind |-> "load", reader |-> r] : r \in Requests} \cup {C!Write(x) : x \in Turn}

TurnSteps == {"new", "hydrate", "load", "waiting", "install", "prepare", "answering", "done"}

Memory == [saved : Seq(Turn), hydrated : BOOLEAN, loading : BOOLEAN,
           pending : Seq(Turn) \cup {None}]

ContinuationTypes ==
    /\ enabled \in BOOLEAN /\ broken \in BOOLEAN /\ object \in Objects
    /\ memory \in [Objects -> Memory]
    /\ turn \in [Requests -> TurnSteps]
    /\ uses \in [Requests -> Objects]
    /\ batch \in [Requests -> Seq(Turn)]
    /\ queue \in Seq(Job) /\ Len(queue) <= QueueSize
    /\ durable \in Seq(Turn) /\ Len(durable) <= Limit

\* Records are parked exactly while a load is under way, which a hydrated object
\* never is again.
MemoryIsSound(own) ==
    /\ Len(own.saved) <= Limit
    /\ own.loading <=> own.pending # None
    /\ ~(own.hydrated /\ own.loading)

ContinuationInv ==
    /\ ContinuationTypes
    /\ \A o \in Objects : MemoryIsSound(memory[o])

\* What is assumed of the constants, in the terms of the proof.
LEMMA ContinuationFacts ==
    /\ Limit \in Nat /\ QueueSize \in Nat /\ 1 \in Objects
    /\ None \notin Seq(Turn) /\ <<>> \in Seq(Turn) /\ <<>> # None
    /\ Earlier \in Seq(Turn) /\ Len(Earlier) <= Limit
<1> DEFINE turns == {[id |-> r, key |-> content.key, own |-> content.own,
                      trace |-> content.trace] : r \in Requests, content \in Contents}
           before == {Earlier[i] : i \in DOMAIN Earlier}
<1>1. Turn = turns \cup before
    BY DEF Turn, C!Captured
<1>2. /\ Limit \in Nat /\ QueueSize \in Nat /\ 1 \in Objects
      /\ Earlier \in Seq(before) /\ Len(Earlier) <= Limit
      /\ None \notin Seq(turns \cup before)
    BY ContinuationAssumption
<1> HIDE DEF turns, before
<1>3. Earlier \in Seq(Turn)
    BY <1>1, <1>2
<1>4. None \notin Seq(Turn)
    BY <1>1, <1>2, Zenon
<1>5. <<>> \in Seq(Turn)
    OBVIOUS
<1>6. <<>> # None
    BY <1>4, <1>5
<1> QED
    BY <1>2, <1>3, <1>4, <1>5, <1>6

\* The newest records are records, and as many as the limit allows.
LEMMA RecentTurns ==
    ASSUME NEW records \in Seq(Turn)
    PROVE  C!Recent(records) \in Seq(Turn) /\ Len(C!Recent(records)) <= Limit
<1> DEFINE kept == C!Min({Limit, Len(records)})
<1>1. kept \in Nat /\ kept <= Limit /\ kept <= Len(records)
    <2>1. Limit \in Nat /\ Len(records) \in Nat
        BY ContinuationFacts
    <2>2. \E x \in {Limit, Len(records)} : \A y \in {Limit, Len(records)} : x <= y
        BY <2>1
    <2>3. kept \in {Limit, Len(records)} /\ \A y \in {Limit, Len(records)} : kept <= y
        BY <2>2 DEF C!Min
    <2> QED
        BY <2>1, <2>3
<1> HIDE DEF kept
<1>2. C!Recent(records) = SubSeq(records, Len(records) - kept + 1, Len(records))
    BY DEF C!Recent, kept
<1> QED
    BY <1>1, <1>2

\* Writes that are submitted stay within the queue.
LEMMA PersistedJobs ==
    ASSUME ContinuationTypes, NEW records \in Seq(Turn)
    PROVE  /\ C!Persisted(queue, records) \in Seq(Job)
           /\ Len(C!Persisted(queue, records)) <= QueueSize
<1> DEFINE free == QueueSize - Len(queue)
           room == IF ~enabled \/ broken THEN 0 ELSE C!Min({Len(records), free})
           writes == [i \in 1..room |-> C!Write(records[i])]
<1>1. Len(records) \in Nat /\ free \in Nat /\ QueueSize \in Nat
    BY ContinuationFacts DEF ContinuationTypes
<1>2. room \in Nat /\ room <= Len(records) /\ room <= free
    <2> HIDE DEF free
    <2>1. \E x \in {Len(records), free} : \A y \in {Len(records), free} : x <= y
        BY <1>1
    <2>2. C!Min({Len(records), free}) \in {Len(records), free}
          /\ \A y \in {Len(records), free} : C!Min({Len(records), free}) <= y
        BY <2>1 DEF C!Min
    <2> QED
        BY <1>1, <2>2
<1>3. C!Persisted(queue, records) = queue \o writes
    BY DEF C!Persisted
<1> HIDE DEF room
<1>4. writes \in Seq(Job) /\ Len(writes) = room
    <2>1. \A i \in 1..room : records[i] \in Turn
        BY <1>1, <1>2
    <2>2. \A i \in 1..room : C!Write(records[i]) \in Job
        BY <2>1 DEF Job
    <2>3. writes \in [1..room -> Job]
        BY <2>2
    <2> QED
        BY <1>2, <2>3
<1> HIDE DEF writes
<1> QED
    BY <1>1, <1>2, <1>3, <1>4 DEF ContinuationTypes

\* A step that changes one object's memory to a sound one keeps the rest sound.
LEMMA MemoryStep ==
    ASSUME ContinuationInv, NEW o \in Objects, NEW own \in Memory, MemoryIsSound(own),
           memory' = [memory EXCEPT ![o] = own]
    PROVE  /\ memory' \in [Objects -> Memory]
           /\ \A p \in Objects : MemoryIsSound(memory'[p])
<1>1. memory \in [Objects -> Memory]
    BY DEF ContinuationInv, ContinuationTypes
<1> QED
    BY <1>1 DEF ContinuationInv

\* Where nothing but a request's next step changes.
LEMMA TurnStep ==
    ASSUME ContinuationInv, NEW r \in Requests, NEW step \in TurnSteps
    PROVE  [turn EXCEPT ![r] = step] \in [Requests -> TurnSteps]
    BY DEF ContinuationInv, ContinuationTypes

\* A request begins.
LEMMA ContinuationBegin ==
    ASSUME ContinuationInv, NEW r \in Requests, C!Begin(r)
    PROVE  ContinuationInv'
<1>1. turn' \in [Requests -> TurnSteps]
    BY TurnStep DEF C!Begin, TurnSteps
<1>2. uses' \in [Requests -> Objects]
    BY DEF C!Begin, ContinuationInv, ContinuationTypes
<1> QED
    BY <1>1, <1>2 DEF C!Begin, ContinuationInv, ContinuationTypes

\* An adapter that was not read yet asks for what is on disk.
LEMMA ContinuationHydrate ==
    ASSUME ContinuationInv, NEW r \in Requests, C!Hydrate(r)
    PROVE  ContinuationInv'
<1> DEFINE own == memory[uses[r]]
           new == IF own.hydrated THEN own
                  ELSE IF ~enabled THEN [own EXCEPT !.hydrated = TRUE]
                  ELSE [own EXCEPT !.loading = TRUE, !.pending = <<>>]
<1>1. own \in Memory /\ uses[r] \in Objects /\ MemoryIsSound(own) /\ ~own.loading
    BY DEF ContinuationInv, ContinuationTypes, C!Hydrate
<1>2. new \in Memory /\ MemoryIsSound(new)
    <2> HIDE DEF own
    <2>1. CASE own.hydrated
        BY <1>1, <2>1
    <2>2. CASE ~own.hydrated /\ ~enabled
        BY <1>1, <2>2 DEF Memory, MemoryIsSound
    <2>3. CASE ~own.hydrated /\ enabled
        <3>1. new = [own EXCEPT !.loading = TRUE, !.pending = <<>>]
            BY <2>3
        <3>2. new \in Memory
            BY <1>1, <3>1, ContinuationFacts DEF Memory
        <3>3. new.saved = own.saved /\ new.loading = TRUE /\ new.pending = <<>>
              /\ new.hydrated = own.hydrated
            BY <1>1, <3>1 DEF Memory
        <3> QED
            BY <1>1, <2>3, <3>2, <3>3, ContinuationFacts DEF MemoryIsSound
    <2> QED
        BY <2>1, <2>2, <2>3
<1>3. memory' = [memory EXCEPT ![uses[r]] = new]
    BY DEF C!Hydrate, C!EnterHydration
<1>4. turn' \in [Requests -> TurnSteps]
    BY TurnStep DEF C!Hydrate, C!EnterHydration, TurnSteps
<1> HIDE DEF new
<1>5. memory' \in [Objects -> Memory] /\ \A p \in Objects : MemoryIsSound(memory'[p])
    BY <1>1, <1>2, <1>3, MemoryStep
<1> QED
    BY <1>4, <1>5 DEF C!Hydrate, C!EnterHydration, ContinuationInv, ContinuationTypes

\* The load is put in the recorder's queue, or refused.
LEMMA ContinuationSubmit ==
    ASSUME ContinuationInv, NEW r \in Requests, C!SubmitLoad(r)
    PROVE  ContinuationInv'
<1>1. turn' \in [Requests -> TurnSteps]
    BY TurnStep DEF C!SubmitLoad, TurnSteps
<1>2. queue' \in Seq(Job) /\ Len(queue') <= QueueSize
    <2>1. [kind |-> "load", reader |-> r] \in Job
        BY DEF Job
    <2>2. queue \in Seq(Job) /\ Len(queue) <= QueueSize /\ QueueSize \in Nat
        BY ContinuationFacts DEF ContinuationInv, ContinuationTypes
    <2>3. CASE C!Refuses(queue)
        BY <2>2, <2>3 DEF C!SubmitLoad
    <2>4. CASE ~C!Refuses(queue)
        <3>1. queue' = Append(queue, [kind |-> "load", reader |-> r])
            BY <2>4 DEF C!SubmitLoad
        <3>2. Len(queue) < QueueSize
            BY <2>2, <2>4 DEF C!Refuses
        <3> HIDE DEF Job
        <3>3. ASSUME NEW job \in Job
              PROVE  Append(queue, job) \in Seq(Job) /\ Len(Append(queue, job)) <= QueueSize
            BY <2>2, <3>2
        <3> QED
            BY <2>1, <3>1, <3>3
    <2> QED
        BY <2>3, <2>4
<1> QED
    BY <1>1, <1>2 DEF C!SubmitLoad, ContinuationInv, ContinuationTypes

\* What was loaded, and then what was parked meanwhile, is remembered.
LEMMA ContinuationInstall ==
    ASSUME ContinuationInv, NEW r \in Requests, C!Install(r)
    PROVE  ContinuationInv'
<1> DEFINE own == memory[uses[r]]
           pending == IF own.pending = None THEN <<>> ELSE own.pending
           saved == C!Recent(batch[r] \o pending)
           new == [saved |-> saved, hydrated |-> TRUE, loading |-> FALSE,
                   pending |-> None]
<1>1. own \in Memory /\ uses[r] \in Objects /\ batch[r] \in Seq(Turn)
    BY DEF ContinuationInv, ContinuationTypes
<1>2. pending \in Seq(Turn)
    BY <1>1 DEF Memory
<1>3. saved \in Seq(Turn) /\ Len(saved) <= Limit
    <2> HIDE DEF pending
    <2>1. batch[r] \o pending \in Seq(Turn)
        BY <1>1, <1>2
    <2> QED
        BY <2>1, RecentTurns
<1>4. /\ memory' = [memory EXCEPT ![uses[r]] = new]
      /\ queue' = C!Persisted(queue, pending)
    BY DEF C!Install
<1> HIDE DEF saved, own, pending
<1>5. new \in Memory /\ MemoryIsSound(new)
    BY <1>3 DEF Memory, MemoryIsSound
<1> HIDE DEF new
<1>6. memory' \in [Objects -> Memory] /\ \A p \in Objects : MemoryIsSound(memory'[p])
    BY <1>1, <1>4, <1>5, MemoryStep
<1>7. queue' \in Seq(Job) /\ Len(queue') <= QueueSize
    BY <1>2, <1>4, PersistedJobs DEF ContinuationInv
<1>8. turn' \in [Requests -> TurnSteps]
    BY TurnStep DEF C!Install, TurnSteps
<1> QED
    BY <1>6, <1>7, <1>8 DEF C!Install, ContinuationInv, ContinuationTypes

\* A turn is remembered, or parked while a load is under way.
LEMMA ContinuationSave ==
    ASSUME ContinuationInv, NEW r \in Requests, NEW content \in Contents,
           C!Save(r, content)
    PROVE  ContinuationInv'
<1> DEFINE x == C!Captured(r, content)
           own == memory[uses[r]]
           parked == own.loading /\ own.pending # None
           new == IF parked THEN [own EXCEPT !.pending = Append(@, x)]
                  ELSE [own EXCEPT !.saved = C!Recent(Append(@, x))]
<1>1. own \in Memory /\ uses[r] \in Objects /\ MemoryIsSound(own) /\ x \in Turn
    BY DEF ContinuationInv, ContinuationTypes, Turn
<1>2. /\ memory' = [memory EXCEPT ![uses[r]] = new]
      /\ queue' = IF parked THEN queue ELSE C!Persisted(queue, <<x>>)
    BY DEF C!Save
<1> HIDE DEF x
<1>3. own.saved \in Seq(Turn) /\ Append(own.saved, x) \in Seq(Turn) /\ <<x>> \in Seq(Turn)
    BY <1>1 DEF Memory
<1>4. new \in Memory /\ MemoryIsSound(new)
    <2> HIDE DEF own
    <2>1. CASE parked
        <3>1. own.pending \in Seq(Turn) /\ Append(own.pending, x) \in Seq(Turn)
            BY <1>1, <2>1 DEF Memory
        <3>2. Append(own.pending, x) # None
            BY <3>1, ContinuationFacts
        <3> QED
            BY <1>1, <2>1, <3>1, <3>2 DEF Memory, MemoryIsSound
    <2>2. CASE ~parked
        <3>1. C!Recent(Append(own.saved, x)) \in Seq(Turn)
              /\ Len(C!Recent(Append(own.saved, x))) <= Limit
            BY <1>3, RecentTurns
        <3> QED
            BY <1>1, <2>2, <3>1 DEF Memory, MemoryIsSound
    <2> QED
        BY <2>1, <2>2
<1>5. queue' \in Seq(Job) /\ Len(queue') <= QueueSize
    BY <1>2, <1>3, PersistedJobs DEF ContinuationInv, ContinuationTypes
<1> HIDE DEF new
<1>6. memory' \in [Objects -> Memory] /\ \A p \in Objects : MemoryIsSound(memory'[p])
    BY <1>1, <1>2, <1>4, MemoryStep
<1>7. turn' \in [Requests -> TurnSteps]
    BY TurnStep DEF C!Save, TurnSteps
<1> QED
    BY <1>5, <1>6, <1>7 DEF C!Save, ContinuationInv, ContinuationTypes

\* The steps of the recorder.
LEMMA ContinuationRecorder ==
    ASSUME ContinuationInv,
           C!RunWrite \/ C!RunLoad \/ C!RunFails \/ C!PruneSession
    PROVE  ContinuationInv'
<1> USE DEF ContinuationInv, ContinuationTypes
<1>1. queue # <<>> => Head(queue) \in Job /\ Tail(queue) \in Seq(Job)
                      /\ Len(Tail(queue)) <= QueueSize
    BY ContinuationFacts
<1>2. CASE C!RunWrite
    <2>1. Head(queue).record \in Turn
        BY <1>1, <1>2 DEF C!RunWrite, Job, C!Write
    <2>2. durable' \in Seq(Turn) /\ Len(durable') <= Limit
        <3>1. Append(durable, Head(queue).record) \in Seq(Turn)
            BY <2>1
        <3> QED
            BY <1>2, <3>1, RecentTurns DEF C!RunWrite
    <2> QED
        BY <1>1, <1>2, <2>2 DEF C!RunWrite
<1>3. CASE C!RunLoad
    <2>1. Head(queue).reader \in Requests
        BY <1>1, <1>3 DEF C!RunLoad, Job, C!Write
    <2>2. batch' \in [Requests -> Seq(Turn)]
        BY <1>3, <2>1, RecentTurns DEF C!RunLoad
    <2>3. turn' \in [Requests -> TurnSteps]
        BY <1>3, <2>1, TurnStep DEF C!RunLoad, TurnSteps
    <2> QED
        BY <1>1, <1>3, <2>2, <2>3 DEF C!RunLoad
<1>4. CASE C!RunFails
    <2>1. turn' \in [Requests -> TurnSteps]
        BY <1>4 DEF C!RunFails, TurnSteps
    <2>2. queue' \in Seq(Job) /\ Len(queue') <= QueueSize
        BY <1>4, ContinuationFacts DEF C!RunFails
    <2> QED
        BY <1>4, <2>1, <2>2 DEF C!RunFails
<1>5. CASE C!PruneSession
    <2>1. durable' \in Seq(Turn) /\ Len(durable') <= Limit
        BY <1>5, ContinuationFacts DEF C!PruneSession
    <2> QED
        BY <1>5, <2>1 DEF C!PruneSession
<1> QED
    BY <1>2, <1>3, <1>4, <1>5

\* A step of the adapters or of the recorder.
LEMMA ContinuationStep ==
    ASSUME ContinuationInv, C!Next \/ UNCHANGED continuationVars
    PROVE  ContinuationInv'
<1>1. CASE UNCHANGED continuationVars
    BY <1>1 DEF ContinuationInv, ContinuationTypes, continuationVars
<1>2. CASE C!Recreate
    BY <1>2 DEF C!Recreate, ContinuationInv, ContinuationTypes
<1>3. ASSUME NEW r \in Requests, C!Abandon(r) \/ \E messages \in Histories : C!Prepare(r, messages)
      PROVE  ContinuationInv'
    <2>1. turn' \in [Requests -> TurnSteps]
        BY <1>3, TurnStep DEF C!Abandon, C!Prepare, TurnSteps
    <2> QED
        BY <1>3, <2>1 DEF C!Abandon, C!Prepare, ContinuationInv, ContinuationTypes
<1> QED
    BY <1>1, <1>2, <1>3, ContinuationBegin, ContinuationHydrate, ContinuationSubmit,
       ContinuationInstall, ContinuationSave, ContinuationRecorder DEF C!Next

\* Nothing is remembered yet but what is on disk.
LEMMA ContinuationInit == C!Init => ContinuationInv
<1> SUFFICES ASSUME C!Init
             PROVE  ContinuationInv
    OBVIOUS
<1>1. C!Fresh \in Memory /\ MemoryIsSound(C!Fresh)
    <2>1. <<>> \in Seq(Turn) /\ 0 <= Limit
        BY ContinuationFacts
    <2> QED
        BY <2>1 DEF C!Fresh, Memory, MemoryIsSound
<1>2. durable \in Seq(Turn) /\ Len(durable) <= Limit
    BY ContinuationFacts DEF C!Init, Turn
<1>3. queue \in Seq(Job) /\ Len(queue) <= QueueSize
    BY ContinuationFacts DEF C!Init
<1>4. memory \in [Objects -> Memory] /\ \A o \in Objects : MemoryIsSound(memory[o])
    BY <1>1 DEF C!Init
<1>5. uses \in [Requests -> Objects] /\ batch \in [Requests -> Seq(Turn)]
    BY ContinuationFacts DEF C!Init
<1>6. turn \in [Requests -> TurnSteps]
    BY DEF C!Init, TurnSteps
<1> QED
    BY <1>2, <1>3, <1>4, <1>5, <1>6, ContinuationFacts
       DEF C!Init, ContinuationInv, ContinuationTypes

-----------------------------------------------------------------------------
(* The lists of the monitoring page. *)

Key == Nat \X Nat \X Nat

\* Cardinality is the same in every module.
LEMMA SameCardinality == \A S : L!Cardinality(S) = Cardinality(S)
    BY DEF L!Cardinality, Cardinality

\* Keys are totally ordered.
LEMMA KeysAreOrdered ==
    ASSUME NEW a \in Key, NEW b \in Key, NEW c \in Key
    PROVE  /\ ~L!Less(a, a)
           /\ L!Less(a, b) /\ L!Less(b, c) => L!Less(a, c)
           /\ a = b \/ L!Less(a, b) \/ L!Less(b, a)
           /\ ~(L!Less(a, b) /\ L!Less(b, a))
           /\ ~L!Less(a, b) /\ ~L!Less(b, c) => ~L!Less(a, c)
    BY DEF Key, L!Less

\* A finite set has an element that none of it is above.
LEMMA Extreme ==
    ASSUME NEW S, IsFiniteSet(S), S # {}, NEW R,
           \A x \in S : <<x, x>> \notin R,
           \A x, y, z \in S : <<x, y>> \in R /\ <<y, z>> \in R => <<x, z>> \in R
    PROVE  \E x \in S : \A y \in S : <<x, y>> \notin R
<1> DEFINE Above(x) == {y \in S : <<x, y>> \in R}
           N == {Cardinality(Above(x)) : x \in S}
<1>1. \A x \in S : IsFiniteSet(Above(x)) /\ Cardinality(Above(x)) \in Nat
    BY FS_Subset, FS_CardinalityType
<1>2. N \subseteq Nat /\ N # {}
    <2> HIDE DEF Above
    <2> QED
        BY <1>1
<1>3. PICK n \in N : \A m \in N : n <= m
    <2> HIDE DEF N
    <2> QED
        BY <1>2, LeastNumber
<1>4. PICK x \in S : n = Cardinality(Above(x))
    OBVIOUS
<1>5. ASSUME NEW y \in S, <<x, y>> \in R
      PROVE  FALSE
    <2>1. Above(y) \subseteq Above(x) /\ y \in Above(x) /\ y \notin Above(y)
        BY <1>5
    <2>2. /\ Cardinality(Above(y)) <= Cardinality(Above(x))
          /\ Cardinality(Above(y)) # Cardinality(Above(x))
        <3> HIDE DEF Above
        <3> QED
            BY <1>1, <2>1, FS_Subset
    <2>3. Cardinality(Above(x)) <= Cardinality(Above(y))
        <3> HIDE DEF Above
        <3> QED
            BY <1>3, <1>4
    <2> QED
        BY <1>1, <2>2, <2>3
<1> QED
    BY <1>5

\* Entries of a list: finitely many, each with a key of its own.
Listed(offered) ==
    /\ IsFiniteSet(offered)
    /\ \A x \in offered : x.key \in Key
    /\ \A x, y \in offered : x.key = y.key => x = y
    /\ \A x, y \in offered : x.item = y.item => x = y

\* A page and the cursor after it divide the entries that are left: what is on
\* the page is not below the cursor, what is not yet shown is, and nothing comes
\* back that was above the cursor before.
LEMMA PageDivides ==
    ASSUME NEW offered, Listed(offered), NEW cursor \in Key \cup {None},
           NEW rest, rest = L!Below(offered, cursor),
           NEW page, page = L!First(rest)
    PROVE  /\ page \subseteq rest /\ rest \subseteq offered
           /\ page # rest =>
                 /\ L!LastKey(page) \in Key
                 /\ \A x \in page : ~L!Less(x.key, L!LastKey(page))
                 /\ \A x \in rest \ page : L!Less(x.key, L!LastKey(page))
                 /\ \A k \in Key : cursor # None /\ ~L!Less(k, cursor) =>
                        ~L!Less(k, L!LastKey(page))
<1> DEFINE Above(x) == {y \in rest : L!Less(x.key, y.key)}
           R == {p \in rest \X rest : L!Less(p[1].key, p[2].key)}
           Q == {p \in rest \X rest : L!Less(p[2].key, p[1].key)}
<1>1. page \subseteq rest /\ rest \subseteq offered
    BY DEF L!Below, L!First
<1>2. page = {x \in rest : Cardinality(Above(x)) < PageSize}
    BY SameCardinality DEF L!First
<1>3. IsFiniteSet(rest) /\ \A x \in rest : x.key \in Key
    BY <1>1, FS_Subset DEF Listed
<1>4. \A x \in rest : IsFiniteSet(Above(x)) /\ Cardinality(Above(x)) \in Nat
    BY <1>3, FS_Subset, FS_CardinalityType
<1>5. SUFFICES ASSUME page # rest
               PROVE  /\ L!LastKey(page) \in Key
                      /\ \A x \in page : ~L!Less(x.key, L!LastKey(page))
                      /\ \A x \in rest \ page : L!Less(x.key, L!LastKey(page))
                      /\ \A k \in Key : cursor # None /\ ~L!Less(k, cursor) =>
                             ~L!Less(k, L!LastKey(page))
    BY <1>1
<1>6. page # {}
    <2>1. PICK x \in rest : \A y \in rest : <<x, y>> \notin R
        <3>1. rest # {}
            BY <1>1, <1>5
        <3>2. \A x \in rest : <<x, x>> \notin R
            BY <1>3, KeysAreOrdered
        <3>3. \A x, y, z \in rest : <<x, y>> \in R /\ <<y, z>> \in R => <<x, z>> \in R
            BY <1>3, KeysAreOrdered
        <3> HIDE DEF R
        <3> QED
            BY <1>3, <3>1, <3>2, <3>3, Extreme
    <2>2. Above(x) = {}
        BY <2>1
    <2> QED
        BY <1>2, <2>1, <2>2, FS_EmptySet, ListAssumption
<1>7. \E x \in page : \A y \in page : ~L!Less(y.key, x.key)
    <2>1. PICK x \in page : \A y \in page : <<x, y>> \notin Q
        <3>1. IsFiniteSet(page)
            BY <1>1, <1>3, FS_Subset
        <3>2. \A x \in page : <<x, x>> \notin Q
            BY <1>1, <1>3, KeysAreOrdered
        <3>3. \A x, y, z \in page : <<x, y>> \in Q /\ <<y, z>> \in Q => <<x, z>> \in Q
            BY <1>1, <1>3, KeysAreOrdered
        <3> HIDE DEF Q
        <3> QED
            BY <1>6, <3>1, <3>2, <3>3, Extreme
    <2> QED
        BY <1>1, <2>1
<1>8. PICK last \in page : last.key = L!LastKey(page)
    <2>1. \E key \in {x.key : x \in page} : \A x \in page : ~L!Less(x.key, key)
        BY <1>7
    <2> QED
        BY <2>1 DEF L!LastKey
<1>9. \A x \in page : ~L!Less(x.key, L!LastKey(page))
    <2>1. \E key \in {x.key : x \in page} : \A x \in page : ~L!Less(x.key, key)
        BY <1>7
    <2> QED
        BY <2>1 DEF L!LastKey
<1>10. last \in rest /\ last.key \in Key
    BY <1>1, <1>3
<1>11. ASSUME NEW x \in rest \ page
       PROVE  L!Less(x.key, last.key)
    <2>1. x.key \in Key /\ x.key # last.key
        BY <1>1, <1>3, <1>10 DEF Listed
    <2>2. ASSUME L!Less(last.key, x.key)
          PROVE  FALSE
        <3>1. Above(x) \subseteq Above(last)
            BY <1>3, <1>10, <2>1, <2>2, KeysAreOrdered
        <3>2. Cardinality(Above(x)) <= Cardinality(Above(last))
            <4> HIDE DEF Above
            <4> QED
                BY <1>4, <1>10, <3>1, FS_Subset
        <3> HIDE DEF Above
        <3>3. Cardinality(Above(last)) < PageSize /\ ~(Cardinality(Above(x)) < PageSize)
            BY <1>2
        <3> QED
            BY <1>4, <1>10, <3>2, <3>3, ListAssumption
    <2> QED
        BY <1>10, <2>1, <2>2, KeysAreOrdered
<1>12. ASSUME NEW k \in Key, cursor # None, ~L!Less(k, cursor)
       PROVE  ~L!Less(k, last.key)
    <2>1. L!Less(last.key, cursor) /\ cursor \in Key
        BY <1>10, <1>12 DEF L!Below
    <2> QED
        BY <1>10, <1>12, <2>1, KeysAreOrdered
<1> QED
    BY <1>8, <1>9, <1>10, <1>11, <1>12

Row == [id : Nat, rowid : Nat, session : Sessions, at : 0..MaxNow]

Memories == [Sessions -> 0..MaxNow \cup {None}]

WalkSteps == {"closed", "look", "read", "done", "lost", "invalid_cursor", "unknown_session"}

Walk ==
    [list : L!Lists \cup {None}, session : Sessions \cup {None}, at : WalkSteps,
     cursor : Key \cup {None}, signed : BOOLEAN, found : Memories \cup {None},
     shown : SUBSET [item : Nat, page : Nat], pages : Nat, evidence : SUBSET BOOLEAN]

Numbered(records, n) ==
    /\ \A row \in records : row.id \in 1..n /\ row.rowid \in 1..n
    /\ \A a, b \in records : a.id = b.id \/ a.rowid = b.rowid => a = b

WorldTypes ==
    /\ now \in 0..MaxNow /\ serial \in 0..MaxRows
    /\ rows \subseteq Row /\ Numbered(rows, serial)
    /\ live \in Memories

Walking == walk.at \in {"look", "read"}

\* What a walk knows of itself.
WalkIsSound ==
    /\ walk \in Walk
    /\ walk.at = "closed" =>
          walk.shown = {} /\ walk.evidence = {} /\ walk.pages = 0 /\ walk.list = None
    /\ walk.at # "closed" => walk.list \in L!Lists
    /\ Walking =>
          /\ walk.list \in {"requests", "requests:retained"} => walk.session # None
          /\ walk.cursor = None =>
                walk.shown = {} /\ walk.evidence = {} /\ walk.pages = 0
    /\ walk.at = "read" /\ walk.list = "sessions" =>
          walk.found \in Memories /\ \A i \in steady : walk.found[i] = live[i]

\* What the list of the walk holds now, with or without the evidence.
Current(evidence) ==
    IF walk.list = "sessions"
    THEN {[item |-> s, key |-> L!LiveKey(s, live[s], evidence)] :
             s \in {t \in Sessions : live[t] # None}}
    ELSE L!Entries(walk.list, evidence)

\* The walk is still to come to an entry.
Ahead(x) == walk.cursor = None \/ L!Less(x.key, walk.cursor)

ShownOnce(i) == \E entry \in walk.shown : L!Shown(i) = {entry}

\* Whether every page so far was read with this evidence, and the list is one
\* that can be read so.
ReadWith(evidence) ==
    walk.evidence \subseteq {evidence} /\ (evidence \/ walk.list = "sessions")

\* An entry that stays where it is is in the list. Before the walk comes to it,
\* it has not been shown; afterwards, and at the end, it has been shown once.
SteadyAreShown ==
    /\ Walking =>
          \A evidence \in BOOLEAN :
              /\ \A i \in steady : \E x \in Current(evidence) : x.item = i
              /\ ReadWith(evidence) =>
                    \A x \in Current(evidence) : x.item \in steady =>
                        IF Ahead(x) THEN L!Shown(x.item) = {} ELSE ShownOnce(x.item)
    /\ walk.at = "done" =>
          \A evidence \in BOOLEAN :
              walk.evidence = {evidence} /\ ReadWith(evidence) =>
                  \A i \in steady : ShownOnce(i)

\* What was shown of a recorded list is shown once, is not ahead of the walk any
\* more, and can only come back to the list of sessions when it had left it.
ShownStayBehind ==
    walk.at # "closed" /\ walk.list # "sessions" =>
        /\ \A y, z \in walk.shown :
              y.item = z.item /\ y.item \notin emptied => y = z
        /\ \A y \in walk.shown :
              IF walk.list = "sessions:retained"
              THEN y.item \in Sessions
                   /\ (y.item \notin emptied => L!Of(rows, y.item) # {})
              ELSE y.item <= serial
        /\ Walking =>
              \A x \in Current(TRUE), y \in walk.shown :
                  y.item = x.item /\ y.item \notin emptied => ~Ahead(x)

ListInv == WorldTypes /\ WalkIsSound /\ SteadyAreShown /\ ShownStayBehind

\* A bounded set of numbers that is not empty has a greatest element.
LEMMA GreatestNumber ==
    ASSUME NEW b \in Nat, NEW S, S \subseteq 0..b, S # {}
    PROVE  L!Max(S) \in S /\ \A j \in S : j <= L!Max(S)
<1> DEFINE bounds == {u \in Nat : \A j \in S : j <= u}
<1>1. b \in bounds /\ bounds \subseteq Nat
    OBVIOUS
<1>2. PICK u \in bounds : \A v \in bounds : u <= v
    <2> HIDE DEF bounds
    <2> QED
        BY <1>1, LeastNumber
<1>3. u \in Nat /\ \A j \in S : j <= u
    OBVIOUS
<1>4. u \in S
    <2> SUFFICES ASSUME u \notin S
                 PROVE  FALSE
        OBVIOUS
    <2>1. \A j \in S : j < u
        <3> HIDE DEF bounds
        <3>1. \A j \in S : j \in Nat /\ j # u
            OBVIOUS
        <3> QED
            BY <1>3, <3>1
    <2>2. u > 0
        <3> HIDE DEF bounds
        <3>1. PICK j \in S : TRUE
            OBVIOUS
        <3>2. j \in 0..b
            OBVIOUS
        <3>3. j \in Nat /\ j < u
            BY <2>1, <3>2
        <3> QED
            BY <1>3, <3>3
    <2>3. u - 1 \in bounds
        BY <1>3, <2>1, <2>2
    <2>4. u <= u - 1
        <3> HIDE DEF bounds
        <3> QED
            BY <1>2, <2>3
    <2> QED
        BY <1>3, <2>4
<1>5. \E x \in S : \A j \in S : x >= j
    BY <1>3, <1>4
<1>6. L!Max(S) \in S /\ \A j \in S : L!Max(S) >= j
    BY <1>5 DEF L!Max
<1> QED
    BY <1>6

\* The time of a session's newest request.
LEMMA LastOfSession ==
    ASSUME NEW records, records \subseteq Row, NEW s
    PROVE  /\ L!Of(records, s) = {} <=> L!LastAt(records, s) = None
           /\ L!Of(records, s) # {} =>
                 /\ L!LastAt(records, s) \in 0..MaxNow
                 /\ \E row \in L!Of(records, s) : row.at = L!LastAt(records, s)
                 /\ \A row \in L!Of(records, s) : row.at <= L!LastAt(records, s)
<1> USE ListAssumption
<1>1. CASE L!Of(records, s) = {}
    BY <1>1 DEF L!LastAt
<1>2. CASE L!Of(records, s) # {}
    <2> DEFINE times == {row.at : row \in L!Of(records, s)}
    <2>1. times \subseteq 0..MaxNow /\ times # {}
        BY <1>2 DEF L!Of, Row
    <2>2. L!LastAt(records, s) = L!Max(times)
        BY <1>2 DEF L!LastAt
    <2>3. L!Max(times) \in times /\ \A t \in times : t <= L!Max(times)
        <3> HIDE DEF times
        <3> QED
            BY <2>1, GreatestNumber
    <2>4. L!Max(times) \in 0..MaxNow /\ L!Max(times) # None
        BY <2>1, <2>3
    <2>5. \E row \in L!Of(records, s) : row.at = L!Max(times)
        BY <2>3
    <2>6. \A row \in L!Of(records, s) : row.at <= L!Max(times)
        BY <2>3
    <2> HIDE DEF times
    <2> QED
        BY <1>2, <2>2, <2>4, <2>5, <2>6
<1> QED
    BY <1>1, <1>2

\* Numbered rows are finitely many.
LEMMA RowsAreFinite ==
    ASSUME NEW n \in Nat, NEW records, records \subseteq Row, Numbered(records, n)
    PROVE  IsFiniteSet(records)
<1> DEFINE f == [row \in records |-> row.id]
<1>1. f \in [records -> 1..n]
    BY DEF Numbered
<1>2. \A a, b \in records : f[a] = f[b] => a = b
    BY DEF Numbered
<1> HIDE DEF f
<1>3. f \in Injection(records, 1..n)
    BY <1>1, <1>2 DEF Injection, IsInjective
<1> QED
    BY <1>3, FS_Injection, FS_Interval

\* The newest requests: of a session that keeps any, the newest one is kept.
LEMMA NewestKeepsLast ==
    ASSUME NEW n \in Nat, NEW records, records \subseteq Row, Numbered(records, n)
    PROVE  /\ L!Newest(records) \subseteq records
           /\ \A s : L!Of(L!Newest(records), s) # {} =>
                  L!LastAt(L!Newest(records), s) = L!LastAt(records, s)
<1> DEFINE K(row) == <<1, row.at, row.rowid>>
           Above(row) == {other \in records : L!Less(K(row), K(other))}
<1>1. L!Newest(records) = {row \in records : Cardinality(Above(row)) < MaxRetained}
    BY SameCardinality DEF L!Newest
<1>2. \A row \in records : K(row) \in Key
    <2> SUFFICES ASSUME NEW row \in records
                 PROVE  K(row) \in Key
        OBVIOUS
    <2>1. row.at \in Nat /\ row.rowid \in Nat
        BY ListAssumption DEF Row
    <2> QED
        BY <2>1 DEF Key
<1>3. \A row \in records : IsFiniteSet(Above(row)) /\ Cardinality(Above(row)) \in Nat
    BY RowsAreFinite, FS_Subset, FS_CardinalityType
<1>4. L!Newest(records) \subseteq records
    BY <1>1
<1>5. ASSUME NEW s, L!Of(L!Newest(records), s) # {}
      PROVE  L!LastAt(L!Newest(records), s) = L!LastAt(records, s)
    <2>1. PICK k \in L!Newest(records) : k.session = s
        BY <1>5 DEF L!Of
    <2>2. L!Of(L!Newest(records), s) \subseteq L!Of(records, s) /\ k \in L!Of(records, s)
        BY <1>4, <2>1 DEF L!Of
    <2>3. PICK m \in L!Of(records, s) : m.at = L!LastAt(records, s)
        BY <2>2, LastOfSession
    <2>4. k \in records /\ m \in records /\ k.at <= m.at
        BY <1>4, <2>2, <2>3, LastOfSession DEF L!Of
    <2>5. m \in L!Newest(records) \/ k.at = m.at
        <3> SUFFICES ASSUME k.at # m.at
                     PROVE  m \in L!Newest(records)
            OBVIOUS
        <3>1. L!Less(K(k), K(m))
            BY <2>4, ListAssumption DEF L!Less, Row
        <3>2. Above(m) \subseteq Above(k)
            <4> HIDE DEF K
            <4> QED
                BY <1>2, <2>4, <3>1, KeysAreOrdered
        <3> HIDE DEF Above
        <3>3. Cardinality(Above(m)) <= Cardinality(Above(k))
            BY <1>3, <2>4, <3>2, FS_Subset
        <3>4. Cardinality(Above(k)) < MaxRetained
            BY <1>1, <2>1
        <3> QED
            BY <1>1, <1>3, <2>4, <3>3, <3>4, ListAssumption
    <2>6. PICK top \in L!Of(L!Newest(records), s) : top.at = L!LastAt(records, s)
        BY <2>1, <2>3, <2>4, <2>5 DEF L!Of
    <2>7. L!Newest(records) \subseteq Row
        BY <1>4
    <2>8. \A row \in L!Of(L!Newest(records), s) : row.at <= L!LastAt(records, s)
        BY <2>2, LastOfSession
    <2>9. /\ top.at <= L!LastAt(L!Newest(records), s)
          /\ L!LastAt(L!Newest(records), s) \in 0..MaxNow
          /\ \E row \in L!Of(L!Newest(records), s) :
                 row.at = L!LastAt(L!Newest(records), s)
        BY <1>5, <2>7, LastOfSession
    <2>10. L!LastAt(records, s) \in 0..MaxNow
        BY <2>2, LastOfSession
    <2> QED
        BY <2>6, <2>8, <2>9, <2>10, ListAssumption
<1> QED
    BY <1>4, <1>5

\* Three numbers make a key.
LEMMA KeyOf ==
    ASSUME NEW a \in Nat, NEW b \in Nat, NEW c \in Nat
    PROVE  <<a, b, c>> \in Key /\ <<a, b, c>>[3] = c
    BY DEF Key

\* The key of a session in memory.
LEMMA LiveKeys ==
    ASSUME WorldTypes, NEW s \in Sessions, NEW updated \in 0..MaxNow,
           NEW evidence \in BOOLEAN
    PROVE  L!LiveKey(s, updated, evidence) \in Key /\ L!LiveKey(s, updated, evidence)[3] = s
<1>1. L!Of(rows, s) # {} => L!LastAt(rows, s) \in Nat
    BY LastOfSession, ListAssumption DEF WorldTypes
<1>2. s \in Nat /\ updated \in Nat
    BY ListAssumption
<1>3. CASE evidence /\ L!Of(rows, s) # {}
    <2>1. L!LiveKey(s, updated, evidence) = <<1, L!LastAt(rows, s), s>>
        BY <1>3 DEF L!LiveKey
    <2>2. L!LastAt(rows, s) \in Nat
        BY <1>1, <1>3
    <2> QED
        BY <1>2, <2>1, <2>2, KeyOf
<1>4. CASE ~(evidence /\ L!Of(rows, s) # {})
    <2>1. L!LiveKey(s, updated, evidence) = <<0, updated, s>>
        BY <1>4 DEF L!LiveKey
    <2> QED
        BY <1>2, <2>1, KeyOf
<1> QED
    BY <1>3, <1>4

\* Entries with an item each, whose keys tell them apart.
LEMMA ListedByItem ==
    ASSUME NEW offered, NEW items, IsFiniteSet(items),
           \A x \in offered : x.item \in items /\ x.key \in Key,
           \A x, y \in offered : x.item = y.item => x = y,
           \A x, y \in offered : x.key = y.key => x = y
    PROVE  Listed(offered)
<1> DEFINE f == [x \in offered |-> x.item]
<1>1. f \in [offered -> items] /\ \A x, y \in offered : f[x] = f[y] => x = y
    OBVIOUS
<1> HIDE DEF f
<1>2. f \in Injection(offered, items)
    BY <1>1 DEF Injection, IsInjective
<1> QED
    BY <1>2, FS_Injection DEF Listed

\* Sessions with keys that end in them.
LEMMA SessionsAreListed ==
    ASSUME NEW offered,
           \A x \in offered :
               x.item \in Sessions /\ x.key \in Key /\ x.key[3] = x.item,
           \A x, y \in offered : x.item = y.item => x = y
    PROVE  Listed(offered)
<1>1. IsFiniteSet(Sessions)
    BY ListAssumption
<1> QED
    BY <1>1, ListedByItem

\* The keys of the entries of a page, and what they are entries of.
LEMMA EntriesAreListed ==
    ASSUME WorldTypes, walk.list \in L!Lists, NEW evidence \in BOOLEAN,
           walk.list = "sessions" => walk.found \in Memories
    PROVE  /\ Listed(L!Entries(walk.list, evidence))
           /\ \A x \in L!Entries(walk.list, evidence) : x.item \in Nat
<1>1. CASE walk.list = "sessions"
    <2> DEFINE some == {t \in Sessions : walk.found[t] # None}
               key == [s \in some |-> L!LiveKey(s, walk.found[s], evidence)]
    <2>1. \A s \in some : key[s] \in Key /\ key[s][3] = s
        <3>1. \A s \in some : s \in Sessions /\ walk.found[s] \in 0..MaxNow
            BY <1>1 DEF Memories
        <3> QED
            BY <3>1, LiveKeys
    <2>2. L!Entries(walk.list, evidence) = {[item |-> s, key |-> key[s]] : s \in some}
        BY <1>1 DEF L!Entries
    <2>3. some \subseteq Sessions
        OBVIOUS
    <2> HIDE DEF some, key
    <2>4. \A x \in L!Entries(walk.list, evidence) : x.item \in Nat
        BY <2>2, <2>3, ListAssumption
    <2>5. \A x \in L!Entries(walk.list, evidence) :
              /\ x.item \in some /\ x.key = key[x.item]
              /\ x = [item |-> x.item, key |-> key[x.item]]
        BY <2>2
    <2>6. Listed(L!Entries(walk.list, evidence))
        BY <2>1, <2>3, <2>5, SessionsAreListed
    <2> QED
        BY <2>4, <2>6
<1>2. CASE walk.list = "sessions:retained"
    <2> DEFINE some == {t \in Sessions : L!Of(rows, t) # {}}
               key == [s \in some |-> <<1, L!LastAt(rows, s), s>>]
    <2>1. \A s \in some : key[s] \in Key /\ key[s][3] = s
        <3>1. \A s \in some : s \in Nat /\ L!LastAt(rows, s) \in Nat
            BY LastOfSession, ListAssumption DEF WorldTypes
        <3> QED
            BY <3>1, KeyOf
    <2>2. L!Entries(walk.list, evidence) = {[item |-> s, key |-> key[s]] : s \in some}
        BY <1>2 DEF L!Entries
    <2>3. some \subseteq Sessions
        OBVIOUS
    <2> HIDE DEF some, key
    <2>4. \A x \in L!Entries(walk.list, evidence) : x.item \in Nat
        BY <2>2, <2>3, ListAssumption
    <2>5. \A x \in L!Entries(walk.list, evidence) :
              /\ x.item \in some /\ x.key = key[x.item]
              /\ x = [item |-> x.item, key |-> key[x.item]]
        BY <2>2
    <2>6. Listed(L!Entries(walk.list, evidence))
        BY <2>1, <2>3, <2>5, SessionsAreListed
    <2> QED
        BY <2>4, <2>6
<1>3. CASE walk.list \notin {"sessions", "sessions:retained"}
    <2> DEFINE offered == L!Entries(walk.list, evidence)
    <2>1. offered = {[item |-> row.id, key |-> <<1, row.at, row.rowid>>] :
                        row \in L!Of(rows, walk.session)}
        BY <1>3 DEF L!Entries
    <2>2. \A row \in L!Of(rows, walk.session) :
              row \in rows /\ row.id \in 1..serial /\ row.at \in Nat /\ row.rowid \in Nat
              /\ row.id \in Nat
        BY ListAssumption DEF L!Of, WorldTypes, Numbered, Row
    <2>3. \A row \in L!Of(rows, walk.session) : <<1, row.at, row.rowid>> \in Key
        BY <2>2, KeyOf
    <2>4. serial \in Nat /\ IsFiniteSet(1..serial)
        BY FS_Interval, ListAssumption DEF WorldTypes
    <2>5. \A x \in offered : x.item \in 1..serial /\ x.item \in Nat /\ x.key \in Key
        BY <2>1, <2>2, <2>3
    <2>6. \A x, y \in offered : x.item = y.item \/ x.key = y.key => x = y
        <3> SUFFICES ASSUME NEW a \in L!Of(rows, walk.session),
                            NEW b \in L!Of(rows, walk.session),
                            a.id = b.id \/ <<1, a.at, a.rowid>> = <<1, b.at, b.rowid>>
                     PROVE  a = b
            BY <2>1
        <3>1. a.id = b.id \/ a.rowid = b.rowid
            OBVIOUS
        <3> QED
            BY <2>2, <3>1 DEF WorldTypes, Numbered
    <2> HIDE DEF offered
    <2>7. Listed(offered)
        BY <2>4, <2>5, <2>6, ListedByItem
    <2> QED
        BY <2>5, <2>7 DEF offered
<1> QED
    BY <1>1, <1>2, <1>3

\* The keys of what is in the list now.
LEMMA CurrentKeys ==
    ASSUME WorldTypes, walk.list \in L!Lists, NEW evidence \in BOOLEAN
    PROVE  \A x \in Current(evidence) : x.key \in Key
<1>1. CASE walk.list = "sessions"
    <2>1. \A s \in Sessions : live[s] # None => live[s] \in 0..MaxNow
        BY DEF WorldTypes, Memories
    <2> QED
        BY <1>1, <2>1, LiveKeys DEF Current
<1>2. CASE walk.list # "sessions"
    BY <1>2, EntriesAreListed DEF Current, Listed
<1> QED
    BY <1>1, <1>2

\* An entry that stays where it is keeps its key.
LEMMA SteadyStay ==
    ASSUME WorldTypes, WorldTypes', walk'.list = walk.list, walk'.session = walk.session,
           NEW i, L!Position(rows', live', i) = L!Position(rows, live, i),
           NEW evidence \in BOOLEAN, NEW x, x.item = i
    PROVE  x \in Current(evidence)' <=> x \in Current(evidence)
<1>1. rows \subseteq Row /\ rows' \subseteq Row
    BY DEF WorldTypes
<1>2. L!LastAt(rows', i) = L!LastAt(rows, i) => (L!Of(rows', i) = {} <=> L!Of(rows, i) = {})
    BY <1>1, LastOfSession
<1>3. CASE walk.list = "sessions"
    <2>1. live'[i] = live[i] /\ L!LastAt(rows', i) = L!LastAt(rows, i)
        BY <1>3 DEF L!Position
    <2>2. L!LiveKey(i, live[i], evidence)' = L!LiveKey(i, live[i], evidence)
        BY <1>2, <2>1 DEF L!LiveKey
    <2>3. x \in Current(evidence) <=>
              /\ i \in Sessions /\ live[i] # None
              /\ x = [item |-> i, key |-> L!LiveKey(i, live[i], evidence)]
        BY <1>3 DEF Current
    <2>4. x \in Current(evidence)' <=>
              /\ i \in Sessions /\ live'[i] # None
              /\ x = [item |-> i, key |-> L!LiveKey(i, live[i], evidence)']
        BY <1>3 DEF Current
    <2> QED
        BY <2>1, <2>2, <2>3, <2>4
<1>4. CASE walk.list = "sessions:retained"
    <2>1. L!LastAt(rows', i) = L!LastAt(rows, i)
        BY <1>4 DEF L!Position
    <2>2. x \in Current(evidence) <=>
              /\ i \in Sessions /\ L!Of(rows, i) # {}
              /\ x = [item |-> i, key |-> <<1, L!LastAt(rows, i), i>>]
        BY <1>4 DEF Current, L!Entries
    <2>3. x \in Current(evidence)' <=>
              /\ i \in Sessions /\ L!Of(rows', i) # {}
              /\ x = [item |-> i, key |-> <<1, L!LastAt(rows', i), i>>]
        BY <1>4 DEF Current, L!Entries
    <2> QED
        BY <1>2, <2>1, <2>2, <2>3
<1>5. CASE walk.list \notin {"sessions", "sessions:retained"}
    <2>1. {row \in rows' : row.id = i} = {row \in rows : row.id = i}
        BY <1>5 DEF L!Position
    <2>2. x \in Current(evidence) <=>
              \E row \in {r \in rows : r.id = i} :
                  /\ row.session = walk.session
                  /\ x = [item |-> row.id, key |-> <<1, row.at, row.rowid>>]
        BY <1>5 DEF Current, L!Entries, L!Of
    <2>3. x \in Current(evidence)' <=>
              \E row \in {r \in rows' : r.id = i} :
                  /\ row.session = walk.session
                  /\ x = [item |-> row.id, key |-> <<1, row.at, row.rowid>>]
        BY <1>5 DEF Current, L!Entries, L!Of
    <2> QED
        BY <2>1, <2>2, <2>3
<1> QED
    BY <1>3, <1>4, <1>5

\* What a step of the gateway beside the walk may do to the requests.
RowsGoOn ==
    /\ serial <= serial'
    /\ \A row \in rows' : row \in rows \/ row.id > serial
    /\ \A s : L!Of(rows, s) # {} /\ L!Of(rows', s) # {} =>
                  L!LastAt(rows, s) <= L!LastAt(rows', s)

\* Such a step leaves the walk as it is, or loses the page that is being read.
WalkWaits ==
    /\ walk' \in Walk
    /\ walk'.list = walk.list /\ walk'.session = walk.session
    /\ walk'.cursor = walk.cursor /\ walk'.found = walk.found
    /\ walk'.shown = walk.shown /\ walk'.pages = walk.pages
    /\ walk'.evidence = walk.evidence
    /\ walk'.at = walk.at \/ (walk.at = "read" /\ walk'.at = "lost")

\* What was shown stays behind the walk while requests come and are pruned.
LEMMA ShownWait ==
    ASSUME ListInv, WorldTypes', WalkWaits, RowsGoOn, L!StaySteady
    PROVE  ShownStayBehind'
<1> SUFFICES ASSUME walk.at # "closed", walk.list # "sessions"
             PROVE  /\ \A y \in walk.shown :
                          IF walk.list = "sessions:retained"
                          THEN y.item \in Sessions
                               /\ (y.item \notin emptied' => L!Of(rows', y.item) # {})
                          ELSE y.item <= serial'
                    /\ \A y, z \in walk.shown :
                          y.item = z.item /\ y.item \notin emptied' => y = z
                    /\ Walking =>
                          \A x \in Current(TRUE)', y \in walk.shown :
                              y.item = x.item /\ y.item \notin emptied' => ~Ahead(x)
    BY DEF WalkWaits, ShownStayBehind, Walking, Ahead
<1>1. emptied \subseteq emptied'
    BY DEF L!StaySteady
<1>2. \A y, z \in walk.shown : y.item = z.item /\ y.item \notin emptied' => y = z
    BY <1>1 DEF ListInv, ShownStayBehind
<1>3. ASSUME NEW y \in walk.shown
      PROVE  IF walk.list = "sessions:retained"
             THEN y.item \in Sessions
                  /\ (y.item \notin emptied' => L!Of(rows, y.item) # {} /\ L!Of(rows', y.item) # {})
             ELSE y.item <= serial /\ y.item <= serial' /\ y.item \in Nat
    <2>1. IF walk.list = "sessions:retained"
          THEN y.item \in Sessions /\ (y.item \notin emptied => L!Of(rows, y.item) # {})
          ELSE y.item <= serial
        BY DEF ListInv, ShownStayBehind
    <2>2. CASE walk.list = "sessions:retained"
        BY <1>1, <2>1, <2>2 DEF L!StaySteady
    <2>3. CASE walk.list # "sessions:retained"
        <3>1. y.item \in Nat
            BY DEF ListInv, WalkIsSound, Walk
        <3> QED
            BY <2>1, <2>3, <3>1, ListAssumption DEF RowsGoOn, WorldTypes, ListInv
    <2> QED
        BY <2>2, <2>3
<1>4. ASSUME Walking, NEW x \in Current(TRUE)', NEW y \in walk.shown,
             y.item = x.item, y.item \notin emptied'
      PROVE  ~Ahead(x)
    <2>1. y.item \notin emptied
        BY <1>1, <1>4
    <2>2. \A e \in Current(TRUE) : e.item = y.item => ~Ahead(e)
        BY <1>4, <2>1 DEF ListInv, ShownStayBehind
    <2>3. CASE walk.list = "sessions:retained"
        <3> DEFINE s == y.item
                   e == [item |-> s, key |-> <<1, L!LastAt(rows, s), s>>]
        <3>1. x = [item |-> s, key |-> <<1, L!LastAt(rows', s), s>>]
            BY <1>4, <2>3 DEF Current, L!Entries, WalkWaits
        <3>2. s \in Sessions /\ L!Of(rows, s) # {} /\ L!Of(rows', s) # {}
            BY <1>3, <1>4, <2>3
        <3>3. e \in Current(TRUE)
            BY <2>3, <3>2 DEF Current, L!Entries
        <3>4. walk.cursor # None /\ ~L!Less(e.key, walk.cursor)
            BY <2>2, <3>3 DEF Ahead
        <3>5. walk.cursor \in Key
            BY <3>4 DEF ListInv, WalkIsSound, Walk
        <3>6. s \in Nat /\ L!LastAt(rows, s) \in Nat /\ L!LastAt(rows', s) \in Nat
            <4>1. rows \subseteq Row /\ rows' \subseteq Row
                BY DEF ListInv, WorldTypes
            <4>2. L!LastAt(rows, s) \in 0..MaxNow
                BY <3>2, <4>1, LastOfSession
            <4>3. L!LastAt(rows', s) \in 0..MaxNow
                BY <3>2, <4>1, LastOfSession
            <4>4. 0..MaxNow \subseteq Nat /\ Sessions \subseteq Nat
                BY ListAssumption
            <4> HIDE DEF s
            <4> QED
                BY <3>2, <4>2, <4>3, <4>4
        <3>7. L!LastAt(rows, s) <= L!LastAt(rows', s)
            BY <3>2 DEF RowsGoOn
        <3> HIDE DEF s
        <3>8. e.key \in Key /\ x.key \in Key
            BY <3>1, <3>6, KeyOf
        <3>9. ~L!Less(x.key, e.key)
            BY <3>1, <3>6, <3>7 DEF L!Less
        <3> QED
            BY <3>4, <3>5, <3>8, <3>9, KeysAreOrdered DEF Ahead
    <2>4. CASE walk.list # "sessions:retained"
        <3>1. PICK row \in L!Of(rows', walk.session) :
                  x = [item |-> row.id, key |-> <<1, row.at, row.rowid>>]
            BY <1>4, <2>4 DEF Current, L!Entries, WalkWaits
        <3>2. row.id <= serial /\ row.id \in Nat /\ row \in rows'
            BY <1>3, <1>4, <2>4, <3>1 DEF L!Of
        <3>3. row \in rows
            BY <3>2, ListAssumption DEF RowsGoOn, ListInv, WorldTypes
        <3>4. row \in L!Of(rows, walk.session)
            BY <3>1, <3>3 DEF L!Of
        <3>5. x \in Current(TRUE)
            BY <2>4, <3>1, <3>4 DEF Current, L!Entries
        <3> QED
            BY <1>4, <2>2, <3>5
    <2> QED
        BY <2>3, <2>4
<1> QED
    BY <1>2, <1>3, <1>4

\* A step of the gateway beside the walk.
LEMMA ListWorld ==
    ASSUME ListInv, WorldTypes', WalkWaits, RowsGoOn, L!StaySteady
    PROVE  ListInv'
<1> USE DEF WalkWaits
<1>1. \A i \in steady' :
          i \in steady /\ L!Position(rows', live', i) = L!Position(rows, live, i)
    BY DEF L!StaySteady
<1>2. WalkIsSound'
    <2>1. ASSUME walk'.at = "read", walk'.list = "sessions"
          PROVE  walk'.found \in Memories /\ \A i \in steady' : walk'.found[i] = live'[i]
        <3>1. walk.at = "read" /\ walk.list = "sessions"
            BY <2>1
        <3>2. \A i \in steady' : live'[i] = live[i]
            BY <1>1, <3>1 DEF L!Position
        <3> QED
            BY <1>1, <3>1, <3>2 DEF ListInv, WalkIsSound
    <2>2. walk'.at = "closed" <=> walk.at = "closed"
        OBVIOUS
    <2>3. Walking' => Walking
        BY DEF Walking
    <2> QED
        BY <2>1, <2>2, <2>3 DEF ListInv, WalkIsSound
<1>3. /\ \A i : L!Shown(i)' = L!Shown(i) /\ (ShownOnce(i)' <=> ShownOnce(i))
      /\ \A x : Ahead(x)' <=> Ahead(x)
      /\ \A evidence : ReadWith(evidence)' <=> ReadWith(evidence)
      /\ Walking' => Walking
      /\ walk'.at = "done" => walk.at = "done"
    BY DEF L!Shown, ShownOnce, Ahead, ReadWith, Walking
<1>4. SteadyAreShown'
    <2>1. ASSUME Walking', NEW evidence \in BOOLEAN, NEW i \in steady'
          PROVE  \E x \in Current(evidence)' : x.item = i
        <3>1. PICK x \in Current(evidence) : x.item = i
            BY <1>1, <1>3, <2>1 DEF ListInv, SteadyAreShown
        <3>2. x \in Current(evidence)'
            BY <1>1, <3>1, SteadyStay DEF ListInv
        <3> QED
            BY <3>1, <3>2
    <2>2. ASSUME Walking', NEW evidence \in BOOLEAN, ReadWith(evidence),
                 NEW x \in Current(evidence)', x.item \in steady'
          PROVE  IF Ahead(x) THEN L!Shown(x.item) = {} ELSE ShownOnce(x.item)
        <3>1. x \in Current(evidence) /\ x.item \in steady
            BY <1>1, <2>2, SteadyStay DEF ListInv
        <3> QED
            BY <1>3, <2>2, <3>1 DEF ListInv, SteadyAreShown
    <2>3. ASSUME walk'.at = "done", NEW evidence \in BOOLEAN,
                 walk.evidence = {evidence}, ReadWith(evidence), NEW i \in steady'
          PROVE  ShownOnce(i)
        BY <1>1, <1>3, <2>3 DEF ListInv, SteadyAreShown
    <2> QED
        BY <1>3, <2>1, <2>2, <2>3 DEF SteadyAreShown
<1> QED
    BY <1>2, <1>4, ShownWait DEF ListInv

\* A step that is not seen in a list at all.
LEMMA ListPause ==
    ASSUME ListInv, now' \in 0..MaxNow,
           UNCHANGED <<rows, live, serial, walk, steady, emptied>>
    PROVE  ListInv'
<1>1. /\ \A x : Ahead(x)' <=> Ahead(x)
      /\ \A evidence : ReadWith(evidence)' <=> ReadWith(evidence)
      /\ \A evidence : Current(evidence)' = Current(evidence)
      /\ \A i : L!Shown(i)' = L!Shown(i) /\ (ShownOnce(i)' <=> ShownOnce(i))
      /\ (Walking' <=> Walking)
    BY DEF Ahead, ReadWith, Current, L!Entries, L!LiveKey, L!Of, L!LastAt, L!Shown,
           ShownOnce, Walking
<1>2. WorldTypes' /\ WalkIsSound'
    BY <1>1 DEF ListInv, WorldTypes, WalkIsSound
<1>3. SteadyAreShown'
    BY <1>1 DEF ListInv, SteadyAreShown
<1>4. ShownStayBehind'
    BY <1>1 DEF ListInv, ShownStayBehind, L!Of
<1> QED
    BY <1>2, <1>3, <1>4 DEF ListInv

\* The clock is in no list.
LEMMA ListTick ==
    ASSUME ListInv, L!Tick
    PROVE  ListInv'
<1>1. now' \in 0..MaxNow
    BY ListAssumption DEF L!Tick, ListInv, WorldTypes
<1> QED
    BY <1>1, ListPause DEF L!Tick

\* Rows that only become fewer, the last ones of their sessions staying.
LEMMA FewerRows ==
    ASSUME ListInv, NEW n \in Nat, serial <= n,
           NEW records, records \subseteq Row, Numbered(records, n),
           \A row \in records : row \in rows \/ row.id > serial,
           rows \subseteq records,
           NEW prunes \in BOOLEAN,
           rows' = IF prunes THEN L!Newest(records) ELSE records
    PROVE  /\ rows' \subseteq Row /\ Numbered(rows', n)
           /\ \A row \in rows' : row \in rows \/ row.id > serial
           /\ \A s : L!Of(rows, s) # {} /\ L!Of(rows', s) # {} =>
                         L!LastAt(rows, s) <= L!LastAt(rows', s)
<1>1. rows' \subseteq records
      /\ \A s : L!Of(rows', s) # {} => L!LastAt(rows', s) = L!LastAt(records, s)
    BY NewestKeepsLast
<1>2. ASSUME NEW s, L!Of(rows, s) # {}, L!Of(rows', s) # {}
      PROVE  L!LastAt(rows, s) <= L!LastAt(rows', s)
    <2>1. rows \subseteq Row
        BY DEF ListInv, WorldTypes
    <2>2. PICK row \in L!Of(rows, s) : row.at = L!LastAt(rows, s)
        BY <1>2, <2>1, LastOfSession
    <2>3. row \in L!Of(records, s)
        BY DEF L!Of
    <2>4. row.at <= L!LastAt(records, s)
        BY <2>3, LastOfSession
    <2> QED
        BY <1>1, <1>2, <2>2, <2>4
<1> QED
    BY <1>1, <1>2 DEF Numbered

\* The oldest requests are pruned.
LEMMA ListPrune ==
    ASSUME ListInv, L!Prune
    PROVE  ListInv'
<1>1. serial \in Nat /\ rows \subseteq Row /\ Numbered(rows, serial) /\ serial' = serial
      /\ rows' = L!Newest(rows)
    BY ListAssumption DEF ListInv, WorldTypes, L!Prune
<1>2. /\ rows' \subseteq Row /\ Numbered(rows', serial)
      /\ \A row \in rows' : row \in rows \/ row.id > serial
      /\ \A s : L!Of(rows, s) # {} /\ L!Of(rows', s) # {} =>
                    L!LastAt(rows, s) <= L!LastAt(rows', s)
    <2>1. rows' = IF TRUE THEN L!Newest(rows) ELSE rows
        BY <1>1
    <2>2. serial <= serial /\ \A row \in rows : row \in rows \/ row.id > serial
        BY <1>1
    <2> QED
        BY <1>1, <2>1, <2>2, FewerRows
<1>3. WorldTypes'
    BY <1>1, <1>2 DEF ListInv, WorldTypes, L!Prune
<1>4. RowsGoOn
    BY <1>1, <1>2 DEF RowsGoOn
<1>5. WalkWaits
    BY DEF ListInv, WalkIsSound, WalkWaits, L!Prune
<1> QED
    BY <1>3, <1>4, <1>5, ListWorld DEF L!Prune

\* A request is recorded, and the oldest may be pruned.
LEMMA ListRecord ==
    ASSUME ListInv, NEW s \in Sessions, NEW at \in 0..now, NEW prunes \in BOOLEAN,
           L!RecordRequest(s, at, prunes)
    PROVE  ListInv'
<1> DEFINE used == {0} \cup {row.rowid : row \in rows}
           rowid == 1 + L!Max(used)
           new == [id |-> serial + 1, rowid |-> rowid, session |-> s, at |-> at]
           all == rows \cup {new}
<1>1. /\ serial \in Nat /\ serial < MaxRows /\ serial' = serial + 1 /\ now \in 0..MaxNow
      /\ rows \subseteq Row /\ Numbered(rows, serial)
    BY ListAssumption DEF ListInv, WorldTypes, L!RecordRequest
<1>2. rows' = IF prunes THEN L!Newest(all) ELSE all
    BY DEF L!RecordRequest
<1>3. rowid \in 1..(serial + 1) /\ \A row \in rows : row.rowid < rowid
    <2>1. used \subseteq 0..serial /\ used # {}
        BY <1>1 DEF Numbered
    <2>2. L!Max(used) \in used /\ \A j \in used : j <= L!Max(used)
        <3> HIDE DEF used
        <3> QED
            BY <1>1, <2>1, GreatestNumber
    <2>3. L!Max(used) \in 0..serial /\ \A row \in rows : row.rowid <= L!Max(used)
        BY <2>1, <2>2
    <2> HIDE DEF used
    <2>4. \A row \in rows : row.rowid \in 1..serial
        BY <1>1 DEF Numbered
    <2> QED
        BY <1>1, <2>3, <2>4
<1> HIDE DEF rowid
<1>4. new \in Row /\ new.id = serial + 1 /\ new.rowid = rowid
    BY <1>1, <1>3, ListAssumption DEF Row
<1> HIDE DEF new
<1>5. all \subseteq Row /\ Numbered(all, serial + 1)
    <2>1. \A row \in all : row.id \in 1..(serial + 1) /\ row.rowid \in 1..(serial + 1)
        BY <1>1, <1>3, <1>4 DEF Numbered
    <2>2. \A row \in rows : row.id # new.id /\ row.rowid # new.rowid
        BY <1>1, <1>3, <1>4 DEF Numbered
    <2>3. \A a, b \in all : a.id = b.id \/ a.rowid = b.rowid => a = b
        BY <1>1, <2>2 DEF Numbered
    <2> QED
        BY <1>1, <1>4, <2>1, <2>3 DEF Numbered
<1>6. serial <= serial + 1 /\ serial + 1 \in Nat
      /\ (\A row \in all : row \in rows \/ row.id > serial) /\ rows \subseteq all
    BY <1>1, <1>4
<1> HIDE DEF all
<1>7. /\ rows' \subseteq Row /\ Numbered(rows', serial + 1)
      /\ \A row \in rows' : row \in rows \/ row.id > serial
      /\ \A t : L!Of(rows, t) # {} /\ L!Of(rows', t) # {} =>
                    L!LastAt(rows, t) <= L!LastAt(rows', t)
    BY <1>1, <1>2, <1>5, <1>6, FewerRows
<1>8. WorldTypes'
    <2>1. serial' \in 0..MaxRows
        BY <1>1, ListAssumption
    <2>2. Numbered(rows', serial')
        BY <1>1, <1>7
    <2>3. now' \in 0..MaxNow /\ live' \in Memories
        BY DEF ListInv, WorldTypes, L!RecordRequest
    <2> QED
        BY <1>7, <2>1, <2>2, <2>3 DEF WorldTypes
<1>9. RowsGoOn
    BY <1>1, <1>6, <1>7 DEF RowsGoOn
<1>10. WalkWaits
    BY DEF ListInv, WalkIsSound, WalkWaits, L!RecordRequest
<1> QED
    BY <1>8, <1>9, <1>10, ListWorld DEF L!RecordRequest

\* Rows that stay as they are.
LEMMA SameRows ==
    ASSUME ListInv, UNCHANGED <<rows, serial>>
    PROVE  RowsGoOn
<1>1. \A s : L!Of(rows, s) # {} => L!LastAt(rows, s) \in 0..MaxNow
    BY LastOfSession DEF ListInv, WorldTypes
<1> QED
    BY <1>1, ListAssumption DEF ListInv, WorldTypes, RowsGoOn

\* A session is updated or forgotten.
LEMMA ListMemory ==
    ASSUME ListInv, NEW s \in Sessions, L!Update(s) \/ L!Drop(s)
    PROVE  ListInv'
<1>1. WorldTypes'
    <2>1. live' \in Memories
        BY DEF ListInv, WorldTypes, Memories, L!Update, L!Drop
    <2> QED
        BY <2>1 DEF ListInv, WorldTypes, L!Update, L!Drop
<1>2. RowsGoOn
    BY SameRows DEF L!Update, L!Drop
<1>3. WalkWaits
    BY DEF ListInv, WalkIsSound, WalkWaits, L!Update, L!Drop
<1> QED
    BY <1>1, <1>2, <1>3, ListWorld DEF L!Update, L!Drop

\* The gateway starts again: its memory is empty.
LEMMA ListRestart ==
    ASSUME ListInv, L!Restart
    PROVE  ListInv'
<1>1. WorldTypes'
    <2>1. live' \in Memories
        BY DEF Memories, L!Restart
    <2> QED
        BY <2>1 DEF ListInv, WorldTypes, L!Restart
<1>2. RowsGoOn
    BY SameRows DEF L!Restart
<1>3. WalkWaits
    <2>1. walk \in Walk
        BY DEF ListInv, WalkIsSound
    <2> QED
        BY <2>1 DEF Walk, WalkSteps, WalkWaits, L!Restart
<1> QED
    BY <1>1, <1>2, <1>3, ListWorld DEF L!Restart

\* Opening a walk.
LEMMA ListOpen ==
    ASSUME ListInv, NEW list \in L!Lists, NEW s \in Sessions \cup {None}, L!Open(list, s)
    PROVE  ListInv'
<1>1. /\ walk'.list = list /\ walk'.session = s /\ walk'.at = "look"
      /\ walk'.cursor = None /\ walk'.signed = TRUE /\ walk'.found = None
      /\ walk'.shown = {} /\ walk'.pages = 0 /\ walk'.evidence = {}
      /\ walk' \in Walk
    BY DEF L!Open, L!NoWalk, Walk, WalkSteps
<1>2. UNCHANGED <<rows, live, now, serial, emptied>>
    BY DEF L!Open
<1>3. list \in {"sessions", "sessions:retained"} <=> s = None
    BY DEF L!Open
<1>4. WorldTypes'
    BY <1>2 DEF ListInv, WorldTypes
<1>5. WalkIsSound'
    BY <1>1, <1>3 DEF WalkIsSound, Walking
<1>6. ASSUME NEW evidence \in BOOLEAN, NEW i \in steady'
      PROVE  \E x \in Current(evidence)' : x.item = i
    <2>1. CASE list = "sessions"
        <3>1. i \in {t \in Sessions : live[t] # None}
            BY <2>1 DEF L!Open
        <3>2. [item |-> i, key |-> L!LiveKey(i, live[i], evidence)'] \in Current(evidence)'
            BY <1>1, <1>2, <2>1, <3>1 DEF Current
        <3> QED
            BY <3>2
    <2>2. CASE list = "sessions:retained"
        <3>1. i \in {t \in Sessions : L!Of(rows', t) # {}}
            BY <1>2, <2>2 DEF L!Open
        <3>2. [item |-> i, key |-> <<1, L!LastAt(rows', i), i>>] \in Current(evidence)'
            BY <1>1, <2>2, <3>1 DEF Current, L!Entries
        <3> QED
            BY <3>2
    <2>3. CASE list \notin {"sessions", "sessions:retained"}
        <3>1. i \in {row.id : row \in L!Of(rows', s)}
            BY <1>2, <2>3 DEF L!Open
        <3>2. PICK row \in L!Of(rows', s) : i = row.id
            BY <3>1
        <3>3. [item |-> i, key |-> <<1, row.at, row.rowid>>] \in Current(evidence)'
            BY <1>1, <2>3, <3>2 DEF Current, L!Entries
        <3> QED
            BY <3>3
    <2> QED
        BY <2>1, <2>2, <2>3
<1>7. SteadyAreShown'
    BY <1>1, <1>6 DEF SteadyAreShown, Ahead, L!Shown
<1>8. ShownStayBehind'
    BY <1>1 DEF ShownStayBehind
<1> QED
    BY <1>4, <1>5, <1>7, <1>8 DEF ListInv

\* While the rows and the memory stay, so does what the list holds.
LEMMA SameList ==
    ASSUME UNCHANGED <<rows, live>>, walk'.list = walk.list, walk'.session = walk.session,
           walk.list \in L!Lists, NEW evidence
    PROVE  Current(evidence)' = Current(evidence)
<1>1. CASE walk.list = "sessions"
    BY <1>1 DEF Current, L!LiveKey, L!Of, L!LastAt
<1>2. CASE walk.list = "sessions:retained"
    BY <1>2 DEF Current, L!Entries, L!Of, L!LastAt
<1>3. CASE walk.list \notin {"sessions", "sessions:retained"}
    BY <1>3 DEF Current, L!Entries, L!Of
<1> QED
    BY <1>1, <1>2, <1>3

\* The first part of a page shows nothing yet.
LEMMA ListLook ==
    ASSUME ListInv, NEW available \in BOOLEAN, L!Look(available)
    PROVE  ListInv'
<1>1. /\ UNCHANGED <<rows, live, now, serial, steady, emptied>>
      /\ walk.at = "look" /\ walk \in Walk /\ walk.list \in L!Lists /\ live \in Memories
    BY DEF L!Look, ListInv, WalkIsSound, WorldTypes
<1> DEFINE Steps == WalkSteps \ {"closed", "look", "done"}
<1>2. \/ walk.list = "sessions" /\ walk' = [walk EXCEPT !.at = "read", !.found = live]
      \/ walk.list = "requests:retained"
            /\ walk' = [walk EXCEPT !.at = "done", !.evidence = walk.evidence \cup {FALSE}]
      \/ \E step \in Steps :
            walk' = [walk EXCEPT !.at = step] /\ (walk.list = "sessions" => step # "read")
    BY <1>1 DEF L!Look, L!Goto, WalkSteps, L!Lists
<1>3. /\ walk' \in Walk
      /\ walk'.list = walk.list /\ walk'.session = walk.session
      /\ walk'.cursor = walk.cursor /\ walk'.shown = walk.shown
      /\ walk'.pages = walk.pages
      /\ walk'.at \in Steps \cup {"done"}
      /\ walk'.at # "done" => walk'.evidence = walk.evidence
      /\ walk'.at = "done" => walk.list = "requests:retained" /\ FALSE \in walk'.evidence
      /\ walk'.at = "read" /\ walk.list = "sessions" => walk'.found = live
    <2>1. CASE walk.list = "sessions" /\ walk' = [walk EXCEPT !.at = "read", !.found = live]
        BY <1>1, <2>1 DEF Walk, WalkSteps
    <2>2. CASE walk.list = "requests:retained"
            /\ walk' = [walk EXCEPT !.at = "done", !.evidence = walk.evidence \cup {FALSE}]
        BY <1>1, <2>2 DEF Walk, WalkSteps
    <2>3. ASSUME NEW step \in Steps, walk' = [walk EXCEPT !.at = step],
                 walk.list = "sessions" => step # "read"
          PROVE  /\ walk' \in Walk
                 /\ walk'.list = walk.list /\ walk'.session = walk.session
                 /\ walk'.cursor = walk.cursor /\ walk'.shown = walk.shown
                 /\ walk'.pages = walk.pages
                 /\ walk'.at \in Steps \cup {"done"}
                 /\ walk'.at # "done" => walk'.evidence = walk.evidence
                 /\ walk'.at = "done" => walk.list = "requests:retained" /\ FALSE \in walk'.evidence
                 /\ walk'.at = "read" /\ walk.list = "sessions" => walk'.found = live
        BY <1>1, <2>3 DEF Walk, WalkSteps
    <2> QED
        BY <1>2, <2>1, <2>2, <2>3
<1> HIDE DEF Steps
<1>4. walk'.at \notin {"closed", "look"}
    BY <1>3 DEF Steps
<1>6. \A evidence : Current(evidence)' = Current(evidence)
    BY <1>1, <1>3, SameList
<1>7. /\ \A x : Ahead(x)' <=> Ahead(x)
      /\ \A i : L!Shown(i)' = L!Shown(i) /\ (ShownOnce(i)' <=> ShownOnce(i))
      /\ Walking
    BY <1>1, <1>3 DEF Ahead, L!Shown, ShownOnce, Walking
<1>8. WorldTypes'
    BY <1>1 DEF ListInv, WorldTypes
<1>9. WalkIsSound'
    BY <1>1, <1>3, <1>4, <1>7 DEF ListInv, WalkIsSound, Walking
<1>10. SteadyAreShown'
    <2>1. ASSUME Walking', NEW evidence \in BOOLEAN
          PROVE  /\ \A i \in steady : \E x \in Current(evidence) : x.item = i
                 /\ ReadWith(evidence)' =>
                        \A x \in Current(evidence) : x.item \in steady =>
                            IF Ahead(x) THEN L!Shown(x.item) = {} ELSE ShownOnce(x.item)
        <3>1. ReadWith(evidence)' => ReadWith(evidence)
            BY <1>3, <1>4, <2>1 DEF ReadWith, Walking
        <3> QED
            BY <1>7, <3>1 DEF ListInv, SteadyAreShown
    <2>2. ASSUME walk'.at = "done", NEW evidence \in BOOLEAN
          PROVE  ~(walk'.evidence = {evidence} /\ ReadWith(evidence)')
        BY <1>3, <2>2 DEF ReadWith
    <2> QED
        BY <1>1, <1>6, <1>7, <2>1, <2>2 DEF SteadyAreShown
<1>11. ShownStayBehind'
    <2>1. \A y : L!Of(rows', y) = L!Of(rows, y)
        BY <1>1
    <2> QED
        BY <1>1, <1>3, <1>6, <1>7, <2>1 DEF ListInv, ShownStayBehind
<1> QED
    BY <1>8, <1>9, <1>10, <1>11 DEF ListInv

\* What a page adds to what was shown of an item.
LEMMA ShownAfter ==
    ASSUME NEW page, NEW n, NEW i,
           \A z : z \in walk'.shown <=>
                    \/ z \in walk.shown
                    \/ \E entry \in page : z = [item |-> entry.item, page |-> n]
    PROVE  /\ (\A x \in page : x.item # i) =>
                  L!Shown(i)' = L!Shown(i) /\ (ShownOnce(i) => ShownOnce(i)')
           /\ (\E x \in page : x.item = i) /\ L!Shown(i) = {} => ShownOnce(i)'
<1>1. L!Shown(i)' = L!Shown(i) \cup
          {entry \in {[item |-> e.item, page |-> n] : e \in page} : entry.item = i}
    BY DEF L!Shown
<1>2. ASSUME \A x \in page : x.item # i
      PROVE  L!Shown(i)' = L!Shown(i) /\ (ShownOnce(i) => ShownOnce(i)')
    <2>1. L!Shown(i)' = L!Shown(i)
        BY <1>1, <1>2
    <2> QED
        BY <2>1 DEF ShownOnce
<1>3. ASSUME NEW x \in page, x.item = i, L!Shown(i) = {}
      PROVE  ShownOnce(i)'
    <2>1. L!Shown(i)' = {[item |-> i, page |-> n]}
        BY <1>1, <1>3
    <2>2. [item |-> i, page |-> n] \in walk'.shown
        BY <1>3
    <2> QED
        BY <2>1, <2>2 DEF ShownOnce
<1> QED
    BY <1>2, <1>3

\* The second part of a page: what is on it was not shown before, the next page
\* goes on below it, and at the end nothing is left.
LEMMA ListRead ==
    ASSUME ListInv, NEW available \in BOOLEAN, L!Read(available)
    PROVE  ListInv'
<1> DEFINE offered == IF available \/ walk.list = "sessions"
                      THEN L!Entries(walk.list, available) ELSE {}
           rest == L!Below(offered, walk.cursor)
           page == L!First(rest)
           more == page # rest
           last == L!LastKey(page)
<1>1. /\ UNCHANGED <<rows, live, now, serial, steady, emptied>>
      /\ walk.at = "read" /\ walk \in Walk /\ walk.list \in L!Lists /\ WorldTypes
      /\ walk.cursor \in Key \cup {None} /\ walk.pages \in Nat /\ Walking
      /\ walk.list = "sessions" =>
            walk.found \in Memories /\ \A i \in steady : walk.found[i] = live[i]
    BY DEF L!Read, ListInv, WalkIsSound, Walk, Walking
<1>2. walk' = [walk EXCEPT
                 !.at = IF more THEN "look" ELSE "done",
                 !.cursor = IF more THEN last ELSE None,
                 !.signed = TRUE, !.found = None, !.pages = walk.pages + 1,
                 !.shown = walk.shown \cup
                    {[item |-> entry.item, page |-> walk.pages] : entry \in page},
                 !.evidence = walk.evidence \cup {available}]
    BY DEF L!Read
<1>3. Listed(offered) /\ \A x \in offered : x.item \in Nat
    <2>1. CASE available \/ walk.list = "sessions"
        <3>1. offered = L!Entries(walk.list, available)
            BY <2>1
        <3>2. /\ Listed(L!Entries(walk.list, available))
              /\ \A x \in L!Entries(walk.list, available) : x.item \in Nat
            BY <1>1, EntriesAreListed
        <3> HIDE DEF offered
        <3> QED
            BY <3>1, <3>2
    <2>2. CASE ~(available \/ walk.list = "sessions")
        BY <2>2, FS_EmptySet DEF Listed
    <2> QED
        BY <2>1, <2>2
<1>4. available /\ walk.list # "sessions" => offered = Current(TRUE)
    BY DEF Current
<1>5. ASSUME available \/ walk.list = "sessions",
             NEW x \in Current(available), x.item \in steady
      PROVE  x \in offered
    <2>1. CASE walk.list # "sessions"
        BY <1>5, <2>1 DEF Current
    <2>2. CASE walk.list = "sessions"
        <3>1. PICK s \in {t \in Sessions : live[t] # None} :
                  x = [item |-> s, key |-> L!LiveKey(s, live[s], available)]
            BY <2>2 DEF Current
        <3>2. s \in Sessions /\ walk.found[s] = live[s] /\ walk.found[s] # None
            BY <1>1, <1>5, <2>2, <3>1
        <3> QED
            BY <2>2, <3>1, <3>2 DEF L!Entries
    <2> QED
        BY <2>1, <2>2
<1>6. \A x : x \in offered => (x \in rest <=> Ahead(x))
    BY DEF L!Below, Ahead
<1> HIDE DEF offered
<1>7. /\ page \subseteq rest /\ rest \subseteq offered
      /\ more =>
            /\ last \in Key
            /\ \A x \in page : ~L!Less(x.key, last)
            /\ \A x \in rest \ page : L!Less(x.key, last)
            /\ \A k \in Key : walk.cursor # None /\ ~L!Less(k, walk.cursor) =>
                   ~L!Less(k, last)
    BY <1>1, <1>3, PageDivides
<1> HIDE DEF page, last, rest
<1>8. /\ walk'.list = walk.list /\ walk'.session = walk.session
      /\ walk'.at = IF more THEN "look" ELSE "done"
      /\ walk'.cursor = IF more THEN last ELSE None
      /\ walk'.shown = walk.shown \cup
            {[item |-> entry.item, page |-> walk.pages] : entry \in page}
      /\ walk'.evidence = walk.evidence \cup {available}
      /\ walk'.pages = walk.pages + 1
    <2> HIDE DEF more
    <2> QED
        BY <1>1, <1>2 DEF Walk
<1> HIDE DEF more
<1>9. \A z : z \in walk'.shown <=>
                \/ z \in walk.shown
                \/ \E entry \in page : z = [item |-> entry.item, page |-> walk.pages]
    BY <1>8
<1> USE DEF more
<1>10. walk' \in Walk
    <2>1. \A entry \in page : [item |-> entry.item, page |-> walk.pages] \in [item : Nat, page : Nat]
        BY <1>1, <1>3, <1>7
    <2>2. {[item |-> entry.item, page |-> walk.pages] : entry \in page}
              \in SUBSET [item : Nat, page : Nat]
        BY <2>1
    <2>3. (IF more THEN last ELSE None) \in Key \cup {None}
        BY <1>7
    <2>4. PICK added : added = {[item |-> entry.item, page |-> walk.pages] : entry \in page}
        OBVIOUS
    <2>5. PICK cursor \in Key \cup {None} : cursor = IF more THEN last ELSE None
        BY <2>3
    <2>6. PICK at \in WalkSteps : at = IF more THEN "look" ELSE "done"
        BY DEF WalkSteps
    <2>7. walk' = [walk EXCEPT !.at = at, !.cursor = cursor, !.signed = TRUE,
                     !.found = None, !.pages = walk.pages + 1,
                     !.shown = walk.shown \cup added,
                     !.evidence = walk.evidence \cup {available}]
        BY <1>2, <2>4, <2>5, <2>6
    <2>8. PICK shown \in SUBSET [item : Nat, page : Nat] : shown = walk.shown \cup added
        <3>1. walk.shown \in SUBSET [item : Nat, page : Nat]
            BY <1>1 DEF Walk
        <3> QED
            BY <2>2, <2>4, <3>1
    <2>9. PICK evidence \in SUBSET BOOLEAN : evidence = walk.evidence \cup {available}
        <3>1. walk.evidence \in SUBSET BOOLEAN
            BY <1>1 DEF Walk
        <3> QED
            BY <3>1
    <2>10. PICK pages \in Nat : pages = walk.pages + 1
        BY <1>1
    <2>11. walk' = [walk EXCEPT !.at = at, !.cursor = cursor, !.signed = TRUE,
                      !.found = None, !.pages = pages, !.shown = shown,
                      !.evidence = evidence]
        BY <2>7, <2>8, <2>9, <2>10
    <2> QED
        BY <1>1, <2>11 DEF Walk
<1>11. last \in Key => last # None
    BY ListAssumption DEF Key
<1>12. \A evidence : Current(evidence)' = Current(evidence)
    BY <1>1, <1>8, SameList
<1>13. WorldTypes'
    BY <1>1 DEF WorldTypes
<1>14. WalkIsSound'
    BY <1>1, <1>7, <1>8, <1>10, <1>11 DEF ListInv, WalkIsSound, Walking
<1>15. \A x : more => (Ahead(x)' <=> L!Less(x.key, last))
    BY <1>7, <1>8, <1>11 DEF Ahead
<1>16. ASSUME ReadWith(available)', NEW x \in Current(available), x.item \in steady
       PROVE  /\ x \notin rest \ page => ShownOnce(x.item)'
              /\ x \in rest \ page => L!Shown(x.item)' = {}
    <2>1. ReadWith(available) /\ (available \/ walk.list = "sessions")
        BY <1>8, <1>16 DEF ReadWith
    <2>2. x \in offered
        BY <1>5, <1>16, <2>1
    <2>3. IF Ahead(x) THEN L!Shown(x.item) = {} ELSE ShownOnce(x.item)
        BY <1>1, <1>16, <2>1 DEF ListInv, SteadyAreShown
    <2>4. \A y \in page : y.item = x.item => y = x
        BY <1>3, <1>7, <2>2 DEF Listed
    <2>5. \/ x \in page /\ L!Shown(x.item) = {}
          \/ (\A y \in page : y.item # x.item)
                /\ (x \in rest => L!Shown(x.item) = {})
                /\ (x \notin rest => ShownOnce(x.item))
        BY <1>6, <1>7, <2>2, <2>3, <2>4
    <2>6. CASE x \in page /\ L!Shown(x.item) = {}
        <3>1. ShownOnce(x.item)'
            BY <1>9, <2>6, ShownAfter
        <3> QED
            BY <2>6, <3>1
    <2>7. CASE /\ \A y \in page : y.item # x.item
               /\ x \in rest => L!Shown(x.item) = {}
               /\ x \notin rest => ShownOnce(x.item)
        <3>1. L!Shown(x.item)' = L!Shown(x.item) /\ (ShownOnce(x.item) => ShownOnce(x.item)')
            BY <1>9, <2>7, ShownAfter
        <3>2. x \notin page
            BY <2>7
        <3> QED
            BY <2>7, <3>1, <3>2
    <2> QED
        BY <2>5, <2>6, <2>7
<1>17. SteadyAreShown'
    <2>1. \A evidence \in BOOLEAN : ReadWith(evidence)' => evidence = available
        BY <1>8 DEF ReadWith
    <2>2. \A evidence \in BOOLEAN : \A i \in steady : \E x \in Current(evidence) : x.item = i
        BY <1>1 DEF ListInv, SteadyAreShown
    <2>3. ASSUME Walking', NEW evidence \in BOOLEAN, ReadWith(evidence)',
                 NEW x \in Current(evidence), x.item \in steady
          PROVE  IF Ahead(x)' THEN L!Shown(x.item)' = {} ELSE ShownOnce(x.item)'
        <3>1. evidence = available /\ more
            BY <1>8, <2>1, <2>3 DEF Walking
        <3>2. x.key \in Key
            BY <1>1, CurrentKeys
        <3>3. Ahead(x)' <=> x \in rest \ page
            <4>1. x \in offered
                BY <1>5, <1>8, <2>3, <3>1 DEF ReadWith
            <4> QED
                BY <1>6, <1>7, <1>15, <3>1, <3>2, <4>1 DEF Ahead
        <3> QED
            BY <1>16, <2>3, <3>1, <3>3
    <2>4. ASSUME walk'.at = "done", NEW evidence \in BOOLEAN,
                 ReadWith(evidence)', NEW i \in steady
          PROVE  ShownOnce(i)'
        <3>1. evidence = available /\ ~more
            BY <1>8, <2>1, <2>4
        <3>2. PICK x \in Current(available) : x.item = i
            BY <2>2
        <3>3. x \notin rest \ page
            BY <3>1
        <3> QED
            BY <1>16, <2>4, <3>1, <3>2, <3>3
    <2> QED
        BY <1>1, <1>12, <2>2, <2>3, <2>4 DEF SteadyAreShown
<1>18. ASSUME walk.list # "sessions"
       PROVE  ShownStayBehind'
    <2> DEFINE Added == {[item |-> entry.item, page |-> walk.pages] : entry \in page}
    <2>1. \A z \in Added : \E x \in page : z.item = x.item /\ z.page = walk.pages
              /\ z = [item |-> x.item, page |-> walk.pages]
        OBVIOUS
    <2>2. walk'.shown = walk.shown \cup Added
        BY <1>8
    <2> HIDE DEF Added
    <2>3. page # {} => available /\ offered = Current(TRUE)
        BY <1>4, <1>7, <1>18 DEF offered
    <2>4. /\ \A y, z \in walk.shown :
                y.item = z.item /\ y.item \notin emptied => y = z
          /\ \A y \in walk.shown :
                IF walk.list = "sessions:retained"
                THEN y.item \in Sessions
                     /\ (y.item \notin emptied => L!Of(rows, y.item) # {})
                ELSE y.item <= serial
          /\ \A x \in Current(TRUE), y \in walk.shown :
                y.item = x.item /\ y.item \notin emptied => ~Ahead(x)
        BY <1>1, <1>18 DEF ListInv, ShownStayBehind
    <2>5. ASSUME NEW y \in walk.shown, NEW z \in Added, y.item = z.item,
                 y.item \notin emptied
          PROVE  FALSE
        <3>1. PICK x \in page : z.item = x.item
            BY <2>1
        <3>2. x \in Current(TRUE) /\ Ahead(x)
            BY <1>6, <1>7, <2>3
        <3> QED
            BY <2>4, <2>5, <3>1, <3>2
    <2>6. \A y, z \in Added : y.item = z.item => y = z
        BY <2>1
    <2>7. \A y, z \in walk'.shown : y.item = z.item /\ y.item \notin emptied => y = z
        BY <2>2, <2>4, <2>5, <2>6
    <2>8. ASSUME NEW z \in Added
          PROVE  IF walk.list = "sessions:retained"
                 THEN z.item \in Sessions /\ L!Of(rows, z.item) # {}
                 ELSE z.item <= serial
        <3>1. PICK x \in page : z.item = x.item
            BY <2>1
        <3>2. x \in L!Entries(walk.list, available)
            BY <1>7, <1>18, <2>3 DEF offered
        <3>3. CASE walk.list = "sessions:retained"
            <4>1. x.item \in {t \in Sessions : L!Of(rows, t) # {}}
                BY <3>2, <3>3 DEF L!Entries
            <4> QED
                BY <3>1, <3>3, <4>1
        <3>4. CASE walk.list # "sessions:retained"
            <4>1. L!Entries(walk.list, available) =
                      {[item |-> row.id, key |-> <<1, row.at, row.rowid>>] :
                          row \in L!Of(rows, walk.session)}
                <5>1. walk.list \notin {"sessions", "sessions:retained"}
                    BY <1>18, <3>4
                <5> QED
                    BY <5>1 DEF L!Entries
            <4>2. PICK row \in L!Of(rows, walk.session) : x.item = row.id
                BY <3>2, <4>1
            <4>3. row \in rows
                BY DEF L!Of
            <4>4. row.id \in 1..serial
                BY <1>1, <4>3 DEF WorldTypes, Numbered
            <4> QED
                BY <3>1, <3>4, <4>2, <4>4
        <3> QED
            BY <3>3, <3>4
    <2>9. ASSUME Walking', NEW x \in Current(TRUE), NEW y \in walk'.shown,
                 y.item = x.item, y.item \notin emptied
          PROVE  ~Ahead(x)'
        <3>1. more
            BY <1>8, <2>9 DEF Walking
        <3>2. x.key \in Key
            BY <1>1, CurrentKeys
        <3>3. CASE y \in walk.shown
            <4>1. walk.cursor # None /\ ~L!Less(x.key, walk.cursor)
                BY <2>4, <2>9, <3>3 DEF Ahead
            <4> QED
                BY <1>7, <1>15, <3>1, <3>2, <4>1
        <3>4. CASE y \in Added
            <4>1. PICK e \in page : y.item = e.item
                BY <2>1, <3>4
            <4>2. e \in offered /\ x \in offered
                BY <1>7, <2>3
            <4>3. e = x
                BY <1>3, <2>9, <4>1, <4>2 DEF Listed
            <4> QED
                BY <1>7, <1>15, <3>1, <4>3
        <3> QED
            BY <2>2, <3>3, <3>4
    <2>10. \A s : L!Of(rows', s) = L!Of(rows, s)
        BY <1>1
    <2>11. \A y \in walk'.shown :
              IF walk.list = "sessions:retained"
              THEN y.item \in Sessions /\ (y.item \notin emptied => L!Of(rows, y.item) # {})
              ELSE y.item <= serial
        BY <2>2, <2>4, <2>8
    <2> QED
        BY <1>1, <1>8, <1>12, <2>7, <2>9, <2>10, <2>11 DEF ShownStayBehind
<1>19. walk.list = "sessions" => ShownStayBehind'
    BY <1>8 DEF ShownStayBehind
<1> QED
    BY <1>13, <1>14, <1>17, <1>18, <1>19 DEF ListInv

\* A step of the lists.
LEMMA ListStep ==
    ASSUME ListInv, L!Next \/ UNCHANGED listVars
    PROVE  ListInv'
<1>1. CASE UNCHANGED listVars
    <2>1. now' \in 0..MaxNow
        BY <1>1 DEF listVars, ListInv, WorldTypes
    <2> QED
        BY <1>1, <2>1, ListPause DEF listVars
<1>2. CASE L!Next
    <2>1. CASE \E s \in Sessions : L!Update(s) \/ L!Drop(s)
        BY <2>1, ListMemory
    <2>2. CASE \E s \in Sessions, at \in 0..now, prunes \in BOOLEAN : L!RecordRequest(s, at, prunes)
        BY <2>2, ListRecord
    <2>3. CASE \E list \in L!Lists, s \in Sessions \cup {None} : L!Open(list, s)
        BY <2>3, ListOpen
    <2>4. CASE \E available \in BOOLEAN : L!Look(available) \/ L!Read(available)
        BY <2>4, ListLook, ListRead
    <2> QED
        BY <1>2, <2>1, <2>2, <2>3, <2>4, ListTick, ListPrune, ListRestart DEF L!Next
<1> QED
    BY <1>1, <1>2

\* A list nobody walks yet.
LEMMA ListInit ==
    ASSUME L!Init
    PROVE  ListInv
<1>1. WorldTypes
    BY ListAssumption DEF L!Init, WorldTypes, Numbered, Memories
<1>2. /\ walk.list = None /\ walk.at = "closed" /\ walk.shown = {} /\ walk.evidence = {}
      /\ walk.pages = 0
    BY DEF L!Init, L!NoWalk
<1>3. walk \in Walk
    BY DEF L!Init, L!NoWalk, Walk, WalkSteps
<1> QED
    BY <1>1, <1>2, <1>3 DEF ListInv, WalkIsSound, SteadyAreShown, ShownStayBehind, Walking

\* What the invariant says of a walk's end and of its pages.
LEMMA WalksAreComplete ==
    ASSUME ListInv
    PROVE  L!TypeOK /\ L!PagesAreComplete
<1>1. L!TypeOK
    <2>1. walk \in Walk
        BY DEF ListInv, WalkIsSound
    <2>2. walk.evidence \subseteq BOOLEAN /\ walk.pages \in Nat
        BY <2>1 DEF Walk
    <2>3. walk.at = "look" /\ walk.pages > 0 => walk.cursor # None
        BY <2>2 DEF ListInv, WalkIsSound, Walking
    <2> QED
        BY <2>2, <2>3 DEF ListInv, WorldTypes, Numbered, L!TypeOK
<1>2. ASSUME walk.at = "done",
             walk.evidence = {TRUE} \/ (walk.evidence = {FALSE} /\ walk.list = "sessions"),
             NEW i \in steady
      PROVE  L!Cardinality(L!Shown(i)) = 1
    <2>1. ShownOnce(i)
        BY <1>2 DEF ListInv, SteadyAreShown, ReadWith
    <2>2. PICK entry : L!Shown(i) = {entry}
        BY <2>1 DEF ShownOnce
    <2> QED
        BY <2>2, SameCardinality, FS_Singleton
<1>3. ASSUME walk.list # "sessions", NEW y \in walk.shown, y.item \notin emptied
      PROVE  L!Shown(y.item) = {y}
    <2>1. walk.at # "closed"
        BY DEF ListInv, WalkIsSound
    <2> QED
        BY <1>3, <2>1 DEF ListInv, ShownStayBehind, L!Shown
<1> QED
    BY <1>1, <1>2, <1>3 DEF L!PagesAreComplete

-----------------------------------------------------------------------------
(* The parts together. *)

\* A step of the gateway is one of the part a behaviour is one of.
LEMMA PartStep ==
    ASSUME [Next \/ Done]_vars
    PROVE  /\ part' = part
           /\ part = "metadata" => M!Next \/ UNCHANGED metadataVars
           /\ part = "process" => P!Next \/ UNCHANGED processVars
           /\ part = "effort" => E!Next \/ UNCHANGED effortVars
           /\ part = "continuations" => C!Next \/ UNCHANGED continuationVars
           /\ part = "lists" => L!Next \/ UNCHANGED listVars
<1>1. CASE Next
    BY <1>1 DEF Next
<1>2. CASE UNCHANGED vars
    BY <1>2 DEF vars
<1>3. CASE Done
    BY <1>2, <1>3 DEF Done
<1> QED
    BY <1>1, <1>2, <1>3

PartInv ==
    /\ part = "metadata" => MetadataInv
    /\ part = "process" => ProcessInv
    /\ part = "effort" => EffortInv
    /\ part = "continuations" => ContinuationInv
    /\ part = "lists" => ListInv

\* The invariant holds of the part a behaviour starts in, and of no other.
LEMMA PartInit == Init => PartInv
    BY MetadataInit, ProcessInit, EffortInit, ContinuationInit, ListInit DEF Init, PartInv

\* It is kept by every step of that part.
LEMMA PartKept == PartInv /\ [Next \/ Done]_vars => PartInv'
    BY PartStep, MetadataStep, ProcessNext, EffortStep, ContinuationStep, ListStep
       DEF PartInv, ProcessGoal

\* The invariant of the part a behaviour is one of.
LEMMA PartsAreSound == Spec => []PartInv
    BY PartInit, PartKept, PTL DEF Spec

\* An answer of the metadata cache is no older than a source or a bypass allows,
\* comes from the latest document its source confirmed, and says so when it is
\* stale, whatever the readers, the clock and the sources do meanwhile.
THEOREM AnswersAreHonest == Spec => []AnswersHonestly
<1>1. PartInv => AnswersHonestly
    BY DEF PartInv, MetadataInv, ReadersAreSound, ReaderIsSound, AnswersHonestly,
           M!AnswersHonestly
<1> QED
    BY <1>1, PartsAreSound, PTL

\* A gateway that nobody told to end is the one the PID file names once its
\* start is over, unless that start was broken off or raced with another command.
THEOREM RunningIsRecorded == Spec => []GatewaysAreRecorded
<1>1. PartInv => GatewaysAreRecorded
    BY DEF PartInv, ProcessInv, GatewaysAreRecorded
<1> QED
    BY <1>1, PartsAreSound, PTL

\* What a command reports is so: after "stopped" or "killed" the gateway it set
\* out to end does not run under any PID, and "running" names one that does.
THEOREM CommandsReportWhatIs == Spec => ReportsAreReal
<1>1. PartInv /\ [Next \/ Done]_vars =>
          (part = "process" => \A o \in Operators : P!Reports(o))
    BY PartStep, ProcessNext DEF PartInv, ProcessGoal
<1> QED
    BY <1>1, PartsAreSound, PTL DEF Spec, ReportsAreReal

\* The reasoning effort that is sent for a request is a level its route accepts,
\* the nearest to what the configuration or the client asked for, as the mode of
\* the policy says; what names no level is never passed on in its place.
THEOREM EffortIsNearest == Spec => []EffortFits
<1>1. PartInv => EffortFits
    BY DEF PartInv, EffortInv, EffortFits
<1> QED
    BY <1>1, PartsAreSound, PTL

\* A client that follows the cursors of a list to its end, with the evidence at
\* hand for every page or for none, sees every entry that stays in its place
\* exactly once, whatever is recorded, pruned, updated and forgotten between the
\* pages; and what it saw of a recorded list is not shown to it again.
THEOREM PagesShowAllOnce == Spec => []PagesAreComplete
<1>1. PartInv => PagesAreComplete
    BY WalksAreComplete DEF PartInv, PagesAreComplete
<1> QED
    BY <1>1, PartsAreSound, PTL

\* What is remembered and what waits to be written is limited.
LEMMA ContinuationIsTyped == ContinuationInv => C!TypeOK
    BY ContinuationAssumption
       DEF ContinuationInv, ContinuationTypes, MemoryIsSound, TurnSteps, C!TypeOK

\* What an entry of the metadata cache, its fetcher and its readers are.
LEMMA MetadataIsTyped == MetadataInv => M!TypeOK
<1> SUFFICES ASSUME MetadataInv
             PROVE  M!TypeOK
    OBVIOUS
<1>1. clock \in 0..MaxTime
    BY DEF MetadataInv, MetadataTypes
<1>2. \A r \in Readers : reader[r].at \in M!Steps /\ reader[r].now <= clock
    BY DEF MetadataInv, MetadataTypes, MetadataReader, ReadersAreSound, ReaderIsSound
<1>3. ASSUME NEW s \in Sources, cache[s] # None
      PROVE  cache[s].ttl <= CacheTtl /\ cache[s].version \in 0..published[s]
    <2>1. cache[s] \in MetadataEntry /\ published[s] \in Nat
        BY <1>3 DEF MetadataInv, MetadataTypes
    <2>2. EntryIsSound(s, cache[s])
        BY <1>3 DEF MetadataInv, CacheIsSound
    <2> QED
        BY <2>1, <2>2 DEF EntryIsSound, Validated, MetadataEntry
<1>4. fetcher # None <=> \E r \in Readers : reader[r].at \in {"attempt", "fetch", "store"}
    BY MetadataAssumption DEF MetadataInv, FetchIsExclusive, Fetches
<1> QED
    BY <1>1, <1>2, <1>3, <1>4 DEF M!TypeOK

\* What the PID file and the commands are.
LEMMA ProcessIsTyped == ProcessInv => P!TypeOK
<1> SUFFICES ASSUME ProcessInv
             PROVE  P!TypeOK
    OBVIOUS
<1>1. record # None => record.pid \in Pids /\ record.token \in 1..issued
    BY DEF ProcessInv, ProcessTypes, Target, NamesItsOwn
<1>2. \A o \in Operators : command[o].kind \in P!Kinds \cup {"remove"}
    BY DEF ProcessInv, ProcessTypes, CommandState
<1> QED
    BY <1>1, <1>2 DEF ProcessInv, ProcessTypes, TokensAreUnique, P!TypeOK

\* Whichever part a behaviour is one of, its state has its type: turns are
\* remembered up to the limit, one reader fetches at a time, tokens are unique,
\* policies are loaded, and a page that is not the first has a cursor.
THEOREM TypeCorrect == Spec => []TypeOK
<1>1. PartInv => TypeOK
    BY ContinuationIsTyped, MetadataIsTyped, ProcessIsTyped, WalksAreComplete
       DEF PartInv, EffortInv, TypeOK
<1> QED
    BY <1>1, PartsAreSound, PTL

=============================================================================
