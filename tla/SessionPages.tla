----------------------------- MODULE SessionPages -----------------------------
(* The lists of the monitoring page (dashboard.py, routing_sessions and        *)
(* routing_session_requests, and the queries of records.py behind them): a     *)
(* client follows cursors from page to page while requests are recorded and    *)
(* pruned and sessions come, change and go. No page sees a snapshot the        *)
(* previous one saw; what holds the walk together is the key of the last       *)
(* entry, which the cursor carries.                                            *)
(*                                                                             *)
(* There are four lists: sessions in memory, ordered by their newest recorded  *)
(* request or else by their last update, sessions with recorded requests, and  *)
(* the requests of one session, which must be in memory or else recorded.      *)
(* Session ids are numbers, for their order.                                   *)
EXTENDS Naturals, FiniteSets, FiniteSetsExt

CONSTANTS
    Sessions,           \* session ids
    PageSize,           \* limit
    MaxRetained,        \* storage.max_requests
    MaxRows,            \* bound: requests recorded
    MaxNow,             \* bound: the clock
    None

VARIABLES
    rows,       \* table requests: [id, rowid, session, at]
    live,       \* updated_at of each session in memory, or None
    now,        \* the clock
    serial,     \* requests recorded so far
    walk,       \* the client's walk: [list, session, at, cursor, found, ...]
    steady,     \* history: entries that stayed where they were since it began
    emptied     \* history: sessions whose last recorded request was pruned since

vars == <<rows, live, now, serial, walk, steady, emptied>>

Lists == {"sessions", "sessions:retained", "requests", "requests:retained"}

NoWalk == [list |-> None, session |-> None, at |-> "closed", cursor |-> None,
           signed |-> TRUE, found |-> None, shown |-> {}, pages |-> 0,
           evidence |-> {}]

Init ==
    /\ rows = {}
    /\ live = [s \in Sessions |-> None]
    /\ now = 0
    /\ serial = 0
    /\ walk = NoWalk
    /\ steady = {}
    /\ emptied = {}

-----------------------------------------------------------------------------
(* The queries. *)

Of(records, s) == {row \in records : row.session = s}

\* received_at of a session's newest request.
LastAt(records, s) ==
    IF Of(records, s) = {} THEN None ELSE Max({row.at : row \in Of(records, s)})

\* Keys are compared from the left.
Less(a, b) ==
    \/ a[1] < b[1]
    \/ a[1] = b[1] /\ a[2] < b[2]
    \/ a[1] = b[1] /\ a[2] = b[2] /\ a[3] < b[3]

\* order_key: sessions with a recorded request come before those without.
LiveKey(s, updated, evidence) ==
    IF evidence /\ Of(rows, s) # {} THEN <<1, LastAt(rows, s), s>>
                                    ELSE <<0, updated, s>>

\* What the list has to offer, without regard to pages.
Entries(list, evidence) ==
    CASE list = "sessions" ->
             {[item |-> s, key |-> LiveKey(s, walk.found[s], evidence)] :
                 s \in {t \in Sessions : walk.found[t] # None}}
      [] list = "sessions:retained" ->
             {[item |-> s, key |-> <<1, LastAt(rows, s), s>>] :
                 s \in {t \in Sessions : Of(rows, t) # {}}}
      [] OTHER ->
             {[item |-> row.id, key |-> <<1, row.at, row.rowid>>] :
                 row \in Of(rows, walk.session)}

\* Mutant: the cursor is a time, without the tie-break.
BelowInTime(entries, cursor) ==
    {entry \in entries :
        \/ cursor = None
        \/ entry.key[1] < cursor[1]
        \/ entry.key[1] = cursor[1] /\ entry.key[2] < cursor[2]}

\* Entries below the cursor, and the first of them in descending order.
Below(entries, cursor) ==
    {entry \in entries : cursor = None \/ Less(entry.key, cursor)}

First(entries) ==
    {entry \in entries :
        Cardinality({other \in entries : Less(entry.key, other.key)}) < PageSize}

\* The key of the last entry of a page.
LastKey(page) ==
    CHOOSE key \in {entry.key : entry \in page} :
        \A entry \in page : ~Less(entry.key, key)

-----------------------------------------------------------------------------
(* The gateway goes on. *)

\* Where an entry of the walk's list stands.
Position(records, store, i) ==
    CASE walk.list = "sessions" -> <<store[i], LastAt(records, i)>>
      [] walk.list = "sessions:retained" -> LastAt(records, i)
      [] OTHER -> {row \in records : row.id = i}

StaySteady ==
    /\ steady' = {i \in steady : Position(rows', live', i) = Position(rows, live, i)}
    /\ emptied' =
          IF walk.list # "sessions:retained" THEN emptied
          ELSE emptied \cup {s \in Sessions : Of(rows, s) # {} /\ Of(rows', s) = {}}

Tick ==
    /\ now < MaxNow
    /\ now' = now + 1
    /\ UNCHANGED <<rows, live, serial, walk, steady, emptied>>

\* _prune: the newest requests stay.
Newest(records) ==
    {row \in records :
        Cardinality({other \in records :
            Less(<<1, row.at, row.rowid>>, <<1, other.at, other.rowid>>)})
                < MaxRetained}

\* record_request: an invalid request is dated outside the lock that orders the
\* others, so a later row may carry an earlier time; a rowid is one above the
\* highest in the table. Every so many writes, of all tables together, prune.
RecordRequest(s, at, prunes) ==
    LET rowid == 1 + Max({0} \cup {row.rowid : row \in rows})
        all == rows \cup {[id |-> serial + 1, rowid |-> rowid, session |-> s, at |-> at]}
    IN  /\ serial < MaxRows
        /\ serial' = serial + 1
        /\ rows' = IF prunes THEN Newest(all) ELSE all
        /\ UNCHANGED <<live, now, walk>>
        /\ StaySteady

\* The write of another table prunes.
Prune ==
    /\ rows' = Newest(rows)
    /\ UNCHANGED <<live, now, serial, walk>>
    /\ StaySteady

\* A decision or an outcome updates a session, or creates it.
Update(s) ==
    /\ live' = [live EXCEPT ![s] = now]
    /\ UNCHANGED <<rows, now, serial, walk>>
    /\ StaySteady

\* Expiry or eviction.
Drop(s) ==
    /\ live[s] # None
    /\ live' = [live EXCEPT ![s] = None]
    /\ UNCHANGED <<rows, now, serial, walk>>
    /\ StaySteady

\* Memory is empty, the rows are kept and cursors are signed with a new secret;
\* a page that was being read is lost.
Restart ==
    /\ live' = [s \in Sessions |-> None]
    /\ walk' = IF walk.at = "read" THEN [walk EXCEPT !.at = "lost"]
                                   ELSE [walk EXCEPT !.signed = FALSE]
    /\ UNCHANGED <<rows, now, serial>>
    /\ StaySteady

-----------------------------------------------------------------------------
(* The walk. *)

Open(list, s) ==
    /\ walk.at = "closed"
    /\ list \in {"sessions", "sessions:retained"} <=> s = None
    /\ walk' = [NoWalk EXCEPT !.list = list, !.session = s, !.at = "look"]
    /\ steady' = CASE list = "sessions" -> {t \in Sessions : live[t] # None}
                   [] list = "sessions:retained" ->
                          {t \in Sessions : Of(rows, t) # {}}
                   [] OTHER -> {row.id : row \in Of(rows, s)}
    /\ UNCHANGED <<rows, live, now, serial, emptied>>

\* _decode_cursor: signed by this process, for this list.
CursorAccepted == walk.cursor = None \/ walk.signed

Goto(step) == walk' = [walk EXCEPT !.at = step]

\* The first part of a page: the cursor, the memory, and for the recorded
\* requests of a session a job of its own that looks whether there are any.
Look(available) ==
    /\ walk.at = "look"
    /\ IF ~CursorAccepted THEN Goto("invalid_cursor")
       ELSE CASE walk.list = "sessions" ->
                     walk' = [walk EXCEPT !.at = "read", !.found = live]
              [] walk.list = "sessions:retained" -> Goto("read")
              [] walk.list = "requests" ->
                     Goto(IF live[walk.session] = None THEN "unknown_session"
                                                       ELSE "read")
              [] walk.list = "requests:retained" ->
                     IF ~available
                     THEN walk' = [walk EXCEPT !.at = "done",
                                               !.evidence = @ \cup {FALSE}]
                     ELSE Goto(IF Of(rows, walk.session) = {}
                               THEN "unknown_session" ELSE "read")
    /\ UNCHANGED <<rows, live, now, serial, steady, emptied>>

\* The second part: a job of the recorder's writer, or its refusal. Without
\* evidence the sessions in memory are listed by their updates, and the other
\* lists are empty.
Read(available) ==
    LET offered == IF available \/ walk.list = "sessions"
                   THEN Entries(walk.list, available) ELSE {}
        rest == Below(offered, walk.cursor)
        page == First(rest)
        more == page # rest
    IN  /\ walk.at = "read"
        /\ walk' = [walk EXCEPT
              !.at = IF more THEN "look" ELSE "done",
              !.cursor = IF more THEN LastKey(page) ELSE None,
              !.signed = TRUE,
              !.found = None,
              !.pages = @ + 1,
              !.shown = @ \cup {[item |-> entry.item, page |-> walk.pages] :
                                   entry \in page},
              !.evidence = @ \cup {available}]
        /\ UNCHANGED <<rows, live, now, serial, steady, emptied>>

\* After its end nothing matters to a walk.
Ended == walk.at \notin {"closed", "look", "read"}

Next ==
    /\ ~Ended
    /\ \/ Tick \/ Prune \/ Restart
       \/ \E s \in Sessions :
             \/ Update(s) \/ Drop(s)
             \/ \E at \in 0..now, prunes \in BOOLEAN : RecordRequest(s, at, prunes)
       \/ \E list \in Lists, s \in Sessions \cup {None} : Open(list, s)
       \/ \E available \in BOOLEAN : Look(available) \/ Read(available)

Spec == Init /\ [][Next]_vars

-----------------------------------------------------------------------------
(* Properties. *)

TypeOK ==
    /\ now \in 0..MaxNow /\ serial \in 0..MaxRows
    /\ \A row \in rows : row.id \in 1..serial /\ row.rowid \in 1..serial
    /\ \A a, b \in rows : a.rowid = b.rowid => a = b
    /\ walk.at = "look" /\ walk.pages > 0 => walk.cursor # None
    /\ walk.evidence \subseteq BOOLEAN

Shown(i) == {entry \in walk.shown : entry.item = i}

\* A walk that reaches its end, with the evidence at hand for every page or for
\* none, has shown every entry that stayed where it was exactly once, whatever
\* happened to the others. As long as the evidence is at hand no request is shown
\* twice, whatever happens to it, and no recorded session, unless all its
\* requests were pruned meanwhile: the next one may be dated before them.
PagesAreComplete ==
    /\ (/\ walk.at = "done"
        /\ \/ walk.evidence = {TRUE}
           \/ walk.evidence = {FALSE} /\ walk.list = "sessions") =>
          \A i \in steady : Cardinality(Shown(i)) = 1
    /\ walk.list # "sessions" =>
          \A entry \in walk.shown :
              entry.item \notin emptied => Shown(entry.item) = {entry}

=============================================================================
