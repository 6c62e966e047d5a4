------------------------------ MODULE NewsDesk ------------------------------
(***************************************************************************)
(* The news filter: the economic calendar (news/calendar.py), the weekly   *)
(* export that confirms its dates (news/feeds.py), the bundled patterns    *)
(* (news/schedule.py), the desk that reads official press items in the     *)
(* background (news/desk.py, news/llm_extract.py) and the policy the       *)
(* trading thread asks (news/policy.py).                                   *)
(*                                                                         *)
(* The export lists occurrences of high-impact releases of one currency,   *)
(* each at an hour; the model of a press item reads it as a contradiction, *)
(* a correction, nothing of note, or not at all.  Medium and low impact    *)
(* rows never block and are left out, and so are the surprise arithmetic   *)
(* and the measured tiers, which no running component calls.               *)
(***************************************************************************)
EXTENDS Integers, Sequences, FiniteSets, SequencesExt

CONSTANTS
    Occurrences,    \* releases the weekly export lists
    TitleOf,        \* occurrence -> its title
    WeekHours,      \* hours in a calendar week
    PatternAt,      \* hour of the bundled pattern's release
    PatternSure,    \* its certainty is scheduled_pattern (else approximate)
    Before, After,  \* block_minutes_before / after_high_impact, in hours
    CalendarEvery,  \* hours between two fetches of the export
    Items,          \* items the press feeds publish
    ReadWithin,     \* an item older than this is not read (36 h)
    HeedFor,        \* a correction shrinks for this long (24 h)
    BlockFor,       \* a contradiction blocks for this long (4 h)
    NdHorizon,      \* bound on the clock
    MaxMoves        \* bound on the releases their publishers move

ASSUME NewsAssumption ==
    /\ IsFiniteSet(Occurrences) /\ TitleOf \in [Occurrences -> STRING]
    /\ {WeekHours, CalendarEvery, NdHorizon} \subseteq Nat \ {0}
    /\ {PatternAt, Before, After, ReadWithin, HeedFor, BlockFor} \subseteq Nat
    /\ BlockFor =< HeedFor /\ PatternSure \in BOOLEAN

VARIABLES
    hourNow,        \* the clock
    listing,        \* what the export lists now: occurrence -> hour
    eventRows,           \* the events table: <<series, period>> -> [at, certainty]
    arriving,       \* rows of a fetched export, from the one to reconcile
    fetchedAt,      \* DeskStatus.calendar_last_ns; -1 before the first
    taken,          \* the export in force, when it was reconciled whole
    items,          \* published items -> hour of publication
    read,           \* NewsDesk._extractions: item -> [at, kind]
    kept,           \* items with a row in the extractions table
    firstRead,      \* item -> hour of its first valid reading
    unkept,         \* items whose row could not be written
    moved           \* releases moved so far

ndVars == <<hourNow, listing, eventRows, arriving, fetchedAt, taken, items, read,
            kept, firstRead, unkept, moved>>

ListedHours == 0 .. NdHorizon + Before
\* A contradiction below the confidence gate is "doubtful".
ReadingKinds == {"contradiction", "doubtful", "correction", "invalid"}

-----------------------------------------------------------------------------
(* The calendar. *)

Week(h) == h \div WeekHours

\* ForexFactoryCalendar.normalise: the natural key is the title and the week.
RowKey(o, h) == <<TitleOf[o], Week(h)>>

CertaintyRank(c) ==
    CASE c = "approximate" -> 0 [] c = "scheduled_pattern" -> 1 [] OTHER -> 2

\* Fault: a stored row keeps the time it was first given.
UpsertKeepingTime(table, key, row) ==
    IF key \in DOMAIN table THEN table
    ELSE [k \in DOMAIN table \cup {key} |-> IF k = key THEN row ELSE table[k]]

\* EconomicCalendar.add_event: one row per key; a restatement of lower
\* certainty keeps the stored time, any other one moves it.
Upsert(table, key, row) ==
    IF key \notin DOMAIN table
    THEN [k \in DOMAIN table \cup {key} |-> IF k = key THEN row ELSE table[k]]
    ELSE LET old == table[key]
             weaker == CertaintyRank(row.certainty) < CertaintyRank(old.certainty)
         IN  [table EXCEPT ![key] = IF weaker THEN old ELSE row]

\* EconomicCalendar.blackout: a certain row inside the window.
InBlackout(h) ==
    \E key \in DOMAIN eventRows :
        /\ eventRows[key].certainty # "approximate"
        /\ h - After =< eventRows[key].at /\ eventRows[key].at =< h + Before

\* EconomicCalendar.advisories: an estimated row ahead.
InAdvisory(h) ==
    \E key \in DOMAIN eventRows :
        /\ eventRows[key].certainty = "approximate"
        /\ h =< eventRows[key].at /\ eventRows[key].at =< h + Before

\* bootstrap: the bundled pattern is ingested at every start.
Seeded(table) ==
    Upsert(table, <<"pattern", 0>>,
           [at |-> PatternAt,
            certainty |-> IF PatternSure THEN "scheduled_pattern" ELSE "approximate"])

\* NewsDesk.tick / refresh_calendar: the export is fetched when due; the
\* stamp is written first, so a failed fetch waits for the next period.
CalendarDue == fetchedAt = -1 \/ hourNow - fetchedAt >= CalendarEvery

\* ForexFactoryCalendar.fetch: the rows in the order the export has them; the
\* code sorts nothing.
ExportOrders == SetToSeqs(Occurrences)

FetchExport ==
    /\ CalendarDue /\ arriving = <<>>
    /\ fetchedAt' = hourNow
    /\ \E order \in ExportOrders :
         arriving' = [i \in 1 .. Cardinality(Occurrences) |-> <<order[i], listing[order[i]]>>]
    /\ UNCHANGED <<hourNow, listing, eventRows, taken, items, read, kept, firstRead, unkept, moved>>

FetchDead ==
    /\ CalendarDue /\ arriving = <<>>
    /\ fetchedAt' = hourNow
    /\ UNCHANGED <<hourNow, listing, eventRows, arriving, taken, items, read, kept,
                   firstRead, unkept, moved>>

\* EconomicCalendar.ingest: one add_event per row, each its own transaction.
Reconcile ==
    /\ arriving # <<>>
    /\ LET o == Head(arriving)[1]
           h == Head(arriving)[2]
       IN  /\ eventRows' = Upsert(eventRows, RowKey(o, h), [at |-> h, certainty |-> "confirmed"])
           /\ taken' = [p \in (IF Len(arriving) = Cardinality(Occurrences) THEN {}
                               ELSE DOMAIN taken) \cup {o} |-> IF p = o THEN h ELSE taken[p]]
    /\ arriving' = Tail(arriving)
    /\ UNCHANGED <<hourNow, listing, fetchedAt, items, read, kept, firstRead, unkept, moved>>

-----------------------------------------------------------------------------
(* The press items. *)

\* Fault: the table is not consulted.
UnreadHere ==
    {a \in DOMAIN items : a \notin DOMAIN read /\ items[a] >= hourNow - ReadWithin}

\* NewsDesk._extract_new: items not read in this process, recent, and
\* without a row in the extractions table.
Unread ==
    {a \in DOMAIN items : /\ a \notin DOMAIN read
                          /\ items[a] >= hourNow - ReadWithin
                          /\ a \notin kept}

\* NewsExtractor.extract and the recording after it.  A failed call is an
\* invalid reading, cached and stored like any other.
ReadItem(a, kind, saved) ==
    /\ a \in Unread
    /\ read' = [b \in DOMAIN read \cup {a} |->
                  IF b = a THEN [at |-> hourNow, kind |-> kind]
                  ELSE read[b]]
    /\ kept' = IF saved THEN kept \cup {a} ELSE kept
    /\ unkept' = IF saved THEN unkept ELSE unkept \cup {a}
    /\ firstRead' = IF kind = "invalid" \/ a \in DOMAIN firstRead THEN firstRead
                    ELSE [b \in DOMAIN firstRead \cup {a} |->
                            IF b = a THEN hourNow ELSE firstRead[b]]
    /\ UNCHANGED <<hourNow, listing, eventRows, arriving, fetchedAt, taken, items, moved>>

\* NewsDesk.recent_extractions: which readings still block, and which shrink.
Blocking(a) ==
    read[a].kind = "contradiction" /\ hourNow - read[a].at =< BlockFor

Shrinking(a) == read[a].kind = "correction" /\ hourNow - read[a].at =< HeedFor

\* NewsPolicy.assess.
EntryBlocked == InBlackout(hourNow) \/ \E a \in DOMAIN read : Blocking(a)

EntryShrunk == InAdvisory(hourNow) \/ \E a \in DOMAIN read : Shrinking(a)

-----------------------------------------------------------------------------
(* The world: time, a release moved by its publisher, a new item. *)

HourPasses ==
    /\ hourNow < NdHorizon /\ arriving = <<>>
    /\ hourNow' = hourNow + 1
    /\ UNCHANGED <<listing, eventRows, arriving, fetchedAt, taken, items, read, kept,
                   firstRead, unkept, moved>>

ReleaseMoves(o, h) ==
    /\ moved < MaxMoves /\ listing[o] >= hourNow /\ h >= hourNow /\ h # listing[o]
    /\ listing' = [listing EXCEPT ![o] = h] /\ moved' = moved + 1
    /\ UNCHANGED <<hourNow, eventRows, arriving, fetchedAt, taken, items, read, kept,
                   firstRead, unkept>>

ItemPublished(a) ==
    /\ a \notin DOMAIN items
    /\ items' = [b \in DOMAIN items \cup {a} |-> IF b = a THEN hourNow ELSE items[b]]
    /\ UNCHANGED <<hourNow, listing, eventRows, arriving, fetchedAt, taken, read, kept,
                   firstRead, unkept, moved>>

\* A new process: the calendar and the extractions table are files, the
\* desk's caches are not.
NewsRestart ==
    /\ eventRows' = Seeded(eventRows)
    /\ arriving' = <<>> /\ fetchedAt' = -1
    /\ read' = <<>>
    /\ taken' = IF arriving = <<>> THEN taken ELSE <<>>
    /\ UNCHANGED <<hourNow, listing, items, kept, firstRead, unkept, moved>>

NdInit ==
    /\ hourNow = 0
    /\ listing = [o \in Occurrences |-> NdHorizon]
    /\ eventRows = Seeded(<<>>) /\ arriving = <<>> /\ fetchedAt = -1 /\ taken = <<>>
    /\ items = <<>> /\ read = <<>> /\ kept = {} /\ firstRead = <<>> /\ unkept = {}
    /\ moved = 0

\* Time and restarts, which the calendar and the press both meet.
DeskNext == HourPasses \/ NewsRestart

CalendarNext ==
    \/ DeskNext \/ FetchExport \/ FetchDead \/ Reconcile
    \/ \E o \in Occurrences, h \in ListedHours : ReleaseMoves(o, h)

PressNext ==
    \/ DeskNext
    \/ \E a \in Items :
         \/ ItemPublished(a)
         \/ \E kind \in ReadingKinds, saved \in BOOLEAN : ReadItem(a, kind, saved)

NdNext == CalendarNext \/ PressNext

NdSpec == NdInit /\ [][NdNext]_ndVars

-----------------------------------------------------------------------------
(* Properties. *)

OnlyOfItsWeek(o) ==
    \A p \in DOMAIN taken : p # o => RowKey(p, taken[p]) # RowKey(o, taken[o])

\* A release the export confirmed, the only one of its title in its week,
\* closes the window around the hour the last reconciled export gave it,
\* however often its publisher moved it and whatever restarts happened.
NoEntryNearRelease ==
    arriving = <<>> =>
        \A o \in DOMAIN taken :
            (OnlyOfItsWeek(o) /\ hourNow - After =< taken[o] /\ taken[o] =< hourNow + Before)
                => EntryBlocked

\* One misread press item does not sit a currency out for a day: it blocks
\* only within BlockFor hours of its first reading, across restarts too,
\* unless its row could not be written (recent_extractions, _extract_new).
OneMisreadIsBrief ==
    \A a \in DOMAIN read :
        (Blocking(a) /\ a \notin unkept) => hourNow - firstRead[a] =< BlockFor

-----------------------------------------------------------------------------
(* What the repository says of the program and the program does not do     *)

\* feeds.py: "Rows become confirmed events, which the existing policy turns
\* into blackout windows around high-impact releases."  Every row.
EveryConfirmedBlocks ==
    arriving = <<>> =>
        \A o \in DOMAIN taken :
            (hourNow - After =< taken[o] /\ taken[o] =< hourNow + Before) => EntryBlocked
=============================================================================
