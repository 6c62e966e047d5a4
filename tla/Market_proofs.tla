---------------------------- MODULE Market_proofs ----------------------------
(***************************************************************************)
(* What a decision to trade is made of, for every value of the constants:  *)
(* the news, the care of a position, the loss budgets, the gate an entry   *)
(* passes, the owner's accounts together, the bars, the reference and the  *)
(* measured link, and the venue and the harness every backtest is made     *)
(* with. The specification of the components side by side, which the run   *)
(* uses, implies that of each of them.                                     *)
(***************************************************************************)
EXTENDS MCMarket, SumTheorems, FiniteSetTheorems, WellFoundedInduction, TLAPS

\* A step of the components side by side is a step of one of them: every other
\* one rests.
LEMMA MarketSteps ==
    [MCMarketNext]_allVars =>
        /\ [RbNext]_rbVars /\ [PcNext]_pcVars /\ [NdNext]_ndVars /\ [SuNext]_suVars
        /\ [RgNext]_rgVars /\ [GrNext]_grVars
        /\ [FdNext]_fdVars /\ [RsNext]_rsVars /\ [LhNext]_lhVars
        /\ [PvNext]_pvVars /\ [BtNext]_btVars
  BY DEF MCMarketNext, allVars, NdNext, FdNext, RsNext,
         ButRiskBudget, ButRiskGate, ButGroupRisk, ButPositionCare, ButPaperVenue, ButBacktest,
         ButBarFeed, ButReferenceStream, ButLinkHealth, ButNewsDesk, ButSurprise

-----------------------------------------------------------------------------
(* Surprises. The cutoff of a forecast is the scheduled time; a figure     *)
(* comes out no earlier, and is stored under no earlier time, unless the   *)
(* release is rescheduled after it came out.                               *)

SuTypes ==
    /\ instant \in Nat
    /\ planned \in [Releases -> Nat]
    /\ forecasts \in [Releases -> SUBSET Nat]
    /\ printed \in [Releases -> Nat \cup {Unprinted}]
    /\ actuals \in [Releases -> Nat \cup {Unprinted}]
    /\ restated \in [Releases -> Nat]
    /\ movedLate \subseteq Releases

\* When a figure is known it has come out, and not before.
FigureInv ==
    \A e \in Releases :
        /\ printed[e] =< instant
        /\ actuals[e] # Unprinted => printed[e] # Unprinted /\ printed[e] =< actuals[e]
        /\ (e \notin movedLate /\ printed[e] # Unprinted) => planned[e] =< printed[e]

SuInv == SuTypes /\ FigureInv

LEMMA SuInitially == SuInit => SuInv
  BY SurpriseAssumption DEF SuInit, SuInv, SuTypes, FigureInv, Unprinted

LEMMA SuInductive == SuInv /\ [SuNext]_suVars => SuInv'
<1> SUFFICES ASSUME SuInv, [SuNext]_suVars PROVE SuInv'
  OBVIOUS
<1> USE DEF SuInv, SuTypes, FigureInv, Unprinted
<1>1. CASE SuPasses
  BY <1>1 DEF SuPasses
<1>2. ASSUME NEW e \in Releases, ReleaseFigure(e) PROVE SuInv'
  BY <1>2 DEF ReleaseFigure
<1>3. ASSUME NEW e \in Releases, RecordConsensus(e) PROVE SuInv'
  BY <1>3 DEF RecordConsensus
<1>4. ASSUME NEW e \in Releases, RecordActual(e) PROVE SuInv'
  BY <1>4 DEF RecordActual
<1>5. ASSUME NEW e \in Releases, NEW t \in Instants, Reschedule(e, t) PROVE SuInv'
  BY <1>5, SurpriseAssumption DEF Reschedule, Instants
<1>6. CASE UNCHANGED suVars
  BY <1>6 DEF suVars
<1> QED BY <1>1, <1>2, <1>3, <1>4, <1>5, <1>6 DEF SuNext

LEMMA ForecastsAreEarlier == SuInv => ForecastPredatesFigure
<1> SUFFICES ASSUME SuInv, NEW e \in Releases \ movedLate, Valid(e)
             PROVE  Max(Expected(e)) =< printed[e]
  BY DEF ForecastPredatesFigure
<1>1. /\ Expected(e) \in SUBSET Nat /\ Expected(e) # {} /\ planned[e] \in Nat
      /\ \A y \in Expected(e) : y =< planned[e]
  BY DEF SuInv, SuTypes, Valid, Expected, AsOf, Cutoff
<1>2. Max(Expected(e)) \in Expected(e)
  BY <1>1, LargestExists
<1>3. planned[e] =< printed[e] /\ printed[e] \in Nat
  BY DEF SuInv, SuTypes, FigureInv, Valid, Unprinted
<1> QED BY <1>1, <1>2, <1>3

LEMMA ScalesAreCausal == SuInv => ScaleIsCausal
<1> SUFFICES ASSUME SuInv, NEW e \in Releases, Scaled(e, planned[e])
             PROVE  Cardinality({r \in Releases \ {e} :
                        printed[r] # Unprinted /\ printed[r] < planned[e]}) >= MinHistory
  BY DEF ScaleIsCausal
<1> DEFINE known == {r \in Releases \ {e} : printed[r] # Unprinted /\ printed[r] < planned[e]}
<1>1. PriorSurprises(e, planned[e]) \subseteq known
  BY DEF PriorSurprises, SuInv, SuTypes, FigureInv, Unprinted
<1>2. IsFiniteSet(known)
  BY SurpriseAssumption, FS_Subset
<1>3. Cardinality(PriorSurprises(e, planned[e])) =< Cardinality(known)
  BY <1>1, <1>2, FS_Subset
<1>4. Cardinality(PriorSurprises(e, planned[e])) \in Nat /\ Cardinality(known) \in Nat
  BY <1>1, <1>2, FS_Subset, FS_CardinalityType
<1>5. Cardinality(PriorSurprises(e, planned[e])) >= MinHistory
  BY DEF Scaled
<1> QED BY <1>3, <1>4, <1>5, SurpriseAssumption

-----------------------------------------------------------------------------
(* The news filter. The rows of an export are reconciled one by one; the   *)
(* row of a release taken from it is overwritten only by a release of the  *)
(* same title and week, and never by a bundled pattern. An item that was   *)
(* kept is not read again.                                                 *)

Confirmed(h) == [at |-> h, certainty |-> "confirmed"]

\* Every row of an export comes once.
ArrivalInv ==
    /\ listing \in [Occurrences -> Int] /\ arriving \in Seq(Occurrences \X Int)
    /\ Len(arriving) =< Cardinality(Occurrences)
    /\ \A i, j \in 1 .. Len(arriving) : i # j => arriving[i][1] # arriving[j][1]
    /\ Len(arriving) < Cardinality(Occurrences) =>
           \A i \in 1 .. Len(arriving) : arriving[i][1] \notin DOMAIN taken

\* What was taken from the export in force is in the table.
RowsInv ==
    (arriving = <<>> \/ Len(arriving) < Cardinality(Occurrences)) =>
        \A o \in DOMAIN taken :
            OnlyOfItsWeek(o) => /\ RowKey(o, taken[o]) \in DOMAIN eventRows
                                /\ eventRows[RowKey(o, taken[o])] = Confirmed(taken[o])

CalendarInv == ArrivalInv /\ RowsInv

\* Only an item whose row could not be written is read a second time.
PressInv ==
    /\ DOMAIN read \subseteq kept \cup unkept
    /\ DOMAIN firstRead \subseteq kept \cup unkept
    /\ \A a \in DOMAIN read \ unkept :
           read[a].kind # "invalid" => a \in DOMAIN firstRead /\ firstRead[a] = read[a].at

\* A row keyed k is in the table afterwards, the others are as they were, and a
\* confirmed one gives way to a confirmed one only.
LEMMA UpsertMeans ==
    ASSUME NEW table, NEW key, NEW written
    PROVE  /\ \A k \in DOMAIN table \ {key} : k \in DOMAIN Upsert(table, key, written)
                                              /\ Upsert(table, key, written)[k] = table[k]
           /\ written.certainty = "confirmed" =>
                 key \in DOMAIN Upsert(table, key, written) /\ Upsert(table, key, written)[key] = written
           /\ \A h : (key \in DOMAIN table /\ table[key] = Confirmed(h)
                        /\ written.certainty \in {"approximate", "scheduled_pattern"}) =>
                 key \in DOMAIN Upsert(table, key, written)
                 /\ Upsert(table, key, written)[key] = Confirmed(h)
<1>1. CASE key \notin DOMAIN table
  BY <1>1 DEF Upsert
<1>2. CASE key \in DOMAIN table
  <2> DEFINE weaker == CertaintyRank(written.certainty) < CertaintyRank(table[key].certainty)
  <2>1. Upsert(table, key, written) = [table EXCEPT ![key] = IF weaker THEN table[key] ELSE written]
    BY <1>2 DEF Upsert
  <2>2. written.certainty = "confirmed" => ~weaker
    BY DEF CertaintyRank
  <2>3. \A h : table[key] = Confirmed(h)
                 /\ written.certainty \in {"approximate", "scheduled_pattern"} => weaker
    BY DEF CertaintyRank, Confirmed
  <2> HIDE DEF weaker
  <2> QED BY <1>2, <2>1, <2>2, <2>3
<1> QED BY <1>1, <1>2

LEMMA NdInitially == NdInit => CalendarInv /\ PressInv
<1> SUFFICES ASSUME NdInit PROVE CalendarInv /\ PressInv
  OBVIOUS
<1>1. Cardinality(Occurrences) \in Nat
  BY NewsAssumption, FS_CardinalityType
<1>2. CalendarInv
  BY <1>1, NewsAssumption DEF NdInit, CalendarInv, ArrivalInv, RowsInv
<1>3. PressInv
  BY DEF NdInit, PressInv
<1> QED BY <1>2, <1>3

LEMMA ReconcileKeeps == ASSUME CalendarInv, Reconcile PROVE CalendarInv'
<1> DEFINE o == Head(arriving)[1]
           h == Head(arriving)[2]
           card == Cardinality(Occurrences)
           old == IF Len(arriving) = card THEN {} ELSE DOMAIN taken
<1>1. card \in Nat
  BY NewsAssumption, FS_CardinalityType
<1>2. /\ arriving # <<>> /\ arriving' = Tail(arriving) /\ listing' = listing
      /\ eventRows' = Upsert(eventRows, RowKey(o, h), Confirmed(h))
      /\ taken' = [p \in old \cup {o} |-> IF p = o THEN h ELSE taken[p]]
  BY DEF Reconcile, Confirmed
<1>3. /\ arriving \in Seq(Occurrences \X Int) /\ Len(arriving) \in Nat /\ Len(arriving) # 0
      /\ Len(arriving) =< card
      /\ o = arriving[1][1] /\ o \in Occurrences /\ h \in Int
  BY <1>2 DEF CalendarInv, ArrivalInv
<1>4. /\ arriving' \in Seq(Occurrences \X Int) /\ Len(arriving') = Len(arriving) - 1
      /\ \A i \in 1 .. Len(arriving') : arriving'[i] = arriving[i + 1]
  BY <1>2, <1>3
<1> HIDE DEF o, h, card
<1>5. o \notin old
  BY <1>1, <1>3 DEF CalendarInv, ArrivalInv, card
<1>6. \A i, j \in 1 .. Len(arriving) : i # j => arriving[i][1] # arriving[j][1]
  BY DEF CalendarInv, ArrivalInv
<1>7. \A i \in 1 .. Len(arriving') : i \in Int /\ i + 1 \in 1 .. Len(arriving) /\ i + 1 # 1
  <2>1. \A n \in Nat : \A j \in 1 .. (n - 1) : j \in Int /\ j + 1 \in 1 .. n /\ j + 1 # 1
    OBVIOUS
  <2>2. Len(arriving) \in Nat /\ 1 .. Len(arriving') = 1 .. (Len(arriving) - 1)
    BY <1>3, <1>4
  <2> QED BY <2>1, <2>2, Zenon
<1>8. \A i \in 1 .. Len(arriving') : arriving'[i][1] # o
  <2>1. 1 \in 1 .. Len(arriving)
    BY <1>3
  <2>2. TAKE i \in 1 .. Len(arriving')
  <2>3. arriving[i + 1][1] # arriving[1][1]
    BY <1>6, <1>7, <2>1, Zenon
  <2> QED BY <1>3, <1>4, <2>3
<1>9. \A i \in 1 .. Len(arriving') : arriving'[i][1] \notin old
  <2>1. TAKE i \in 1 .. Len(arriving')
  <2>2. Len(arriving) # card => arriving[i + 1][1] \notin DOMAIN taken
    <3>1. Len(arriving) # card => Len(arriving) < card
      BY <1>1, <1>3
    <3> QED BY <1>7, <3>1 DEF CalendarInv, ArrivalInv, card
  <2> QED BY <1>4, <2>2
<1>10. ArrivalInv'
  <2>1. \A i, j \in 1 .. Len(arriving') : i # j => arriving'[i][1] # arriving'[j][1]
    <3>1. TAKE i, j \in 1 .. Len(arriving')
    <3>2. i # j => i + 1 # j + 1
      BY <1>7
    <3>3. i # j => arriving[i + 1][1] # arriving[j + 1][1]
      BY <1>6, <1>7, <3>2, Zenon
    <3> QED BY <1>4, <3>3
  <2>2. DOMAIN taken' = old \cup {o}
    BY <1>2
  <2>3. Len(arriving') =< card
    BY <1>1, <1>3, <1>4
  <2>4. listing' \in [Occurrences -> Int]
    BY <1>2 DEF CalendarInv, ArrivalInv
  <2> QED BY <1>4, <1>8, <1>9, <2>1, <2>2, <2>3, <2>4 DEF ArrivalInv, card
<1>11. RowsInv'
  <2> SUFFICES ASSUME NEW p \in DOMAIN taken', OnlyOfItsWeek(p)'
               PROVE  /\ RowKey(p, taken'[p]) \in DOMAIN eventRows'
                      /\ eventRows'[RowKey(p, taken'[p])] = Confirmed(taken'[p])
    BY DEF RowsInv, RowKey, Week
  <2>1. CASE p = o
    <3>1. taken'[p] = h
      BY <1>2, <2>1
    <3> QED BY <1>2, <2>1, <3>1, UpsertMeans DEF Confirmed
  <2>2. CASE p # o
    <3>1. p \in old /\ taken'[p] = taken[p] /\ taken'[o] = h
      BY <1>2, <2>2
    <3>2. p \in DOMAIN taken /\ Len(arriving) < card /\ old = DOMAIN taken
      BY <1>1, <1>3, <3>1
    <3>3. OnlyOfItsWeek(p)
      BY <1>2, <1>5, <3>1, <3>2 DEF OnlyOfItsWeek, RowKey, Week
    <3>4. /\ RowKey(p, taken[p]) \in DOMAIN eventRows
          /\ eventRows[RowKey(p, taken[p])] = Confirmed(taken[p])
      BY <3>2, <3>3 DEF CalendarInv, RowsInv, card
    <3>5. RowKey(p, taken[p]) # RowKey(o, h)
      BY <1>2, <2>2, <3>1 DEF OnlyOfItsWeek, RowKey, Week
    <3> QED BY <1>2, <3>1, <3>4, <3>5, UpsertMeans
  <2> QED BY <2>1, <2>2
<1> QED BY <1>10, <1>11 DEF CalendarInv

LEMMA NewsRestartKeeps == ASSUME CalendarInv, NewsRestart PROVE CalendarInv'
<1> DEFINE written == [at |-> PatternAt,
                   certainty |-> IF PatternSure THEN "scheduled_pattern" ELSE "approximate"]
<1>1. eventRows' = Upsert(eventRows, <<"pattern", 0>>, written) /\ arriving' = <<>> /\ listing' = listing
      /\ taken' = IF arriving = <<>> THEN taken ELSE <<>>
  BY DEF NewsRestart, Seeded
<1>2. written.certainty \in {"approximate", "scheduled_pattern"}
  OBVIOUS
<1> HIDE DEF written
<1>3. ArrivalInv'
  <2>1. Cardinality(Occurrences) \in Nat
    BY NewsAssumption, FS_CardinalityType
  <2> QED BY <1>1, <2>1 DEF CalendarInv, ArrivalInv
<1>4. RowsInv'
  <2>1. CASE arriving = <<>>
    <3> SUFFICES ASSUME NEW p \in DOMAIN taken, OnlyOfItsWeek(p)
                 PROVE  /\ RowKey(p, taken[p]) \in DOMAIN eventRows'
                        /\ eventRows'[RowKey(p, taken[p])] = Confirmed(taken[p])
      BY <1>1, <2>1 DEF RowsInv, RowKey, Week, OnlyOfItsWeek
    <3>1. /\ RowKey(p, taken[p]) \in DOMAIN eventRows
          /\ eventRows[RowKey(p, taken[p])] = Confirmed(taken[p])
      BY <2>1 DEF CalendarInv, RowsInv
    <3>2. CASE RowKey(p, taken[p]) = <<"pattern", 0>>
      BY <1>1, <1>2, <3>1, <3>2, UpsertMeans
    <3>3. CASE RowKey(p, taken[p]) # <<"pattern", 0>>
      BY <1>1, <3>1, <3>3, UpsertMeans
    <3> QED BY <3>2, <3>3
  <2>2. CASE arriving # <<>>
    <3>1. DOMAIN taken' = {}
      BY <1>1, <2>2
    <3> QED BY <3>1 DEF RowsInv
  <2> QED BY <2>1, <2>2
<1> QED BY <1>3, <1>4 DEF CalendarInv

LEMMA FetchKeeps == ASSUME CalendarInv, FetchExport PROVE CalendarInv'
<1> DEFINE card == Cardinality(Occurrences)
<1>1. PICK order \in SetToSeqs(Occurrences) :
          arriving' = [i \in 1 .. card |-> <<order[i], listing[order[i]]>>]
  BY DEF FetchExport, ExportOrders
<1>2. card \in Nat
  BY NewsAssumption, FS_CardinalityType
<1>3. order \in [1 .. card -> Occurrences] /\ \A i, j \in 1 .. card : i # j => order[i] # order[j]
  BY DEF SetToSeqs
<1>4. UNCHANGED <<listing, eventRows, taken>> /\ arriving = <<>>
  BY DEF FetchExport
<1>5. listing \in [Occurrences -> Int]
  BY DEF CalendarInv, ArrivalInv
<1> HIDE DEF card
<1>6. arriving' \in Seq(Occurrences \X Int) /\ Len(arriving') = card
  BY <1>1, <1>2, <1>3, <1>5
<1>7. \A i \in 1 .. card : arriving'[i][1] = order[i]
  BY <1>1
<1>8. ArrivalInv'
  BY <1>2, <1>3, <1>4, <1>5, <1>6, <1>7 DEF ArrivalInv, card
<1>9. RowsInv'
  BY <1>2, <1>4, <1>6 DEF CalendarInv, RowsInv, OnlyOfItsWeek, RowKey, Week, card
<1> QED BY <1>8, <1>9 DEF CalendarInv

LEMMA CalendarInductive == CalendarInv /\ [NdNext]_ndVars => CalendarInv'
<1> SUFFICES ASSUME CalendarInv, [NdNext]_ndVars PROVE CalendarInv'
  OBVIOUS
<1>1. ASSUME UNCHANGED <<listing, eventRows, arriving, taken>> PROVE CalendarInv'
  BY <1>1 DEF CalendarInv, ArrivalInv, RowsInv, OnlyOfItsWeek, RowKey, Week
<1>2. ASSUME NEW o \in Occurrences, NEW h \in ListedHours, ReleaseMoves(o, h) PROVE CalendarInv'
  <2>1. UNCHANGED <<eventRows, arriving, taken>> /\ listing' \in [Occurrences -> Int]
    BY <1>2, NewsAssumption DEF ReleaseMoves, CalendarInv, ArrivalInv, ListedHours
  <2> QED BY <2>1 DEF CalendarInv, ArrivalInv, RowsInv, OnlyOfItsWeek, RowKey, Week
<1>3. CASE DeskNext
  BY <1>1, <1>3, NewsRestartKeeps DEF DeskNext, HourPasses
<1>4. CASE FetchDead
  BY <1>1, <1>4 DEF FetchDead
<1>5. CASE PressNext
  BY <1>1, <1>3, <1>5 DEF PressNext, ItemPublished, ReadItem
<1>6. CASE UNCHANGED ndVars
  BY <1>1, <1>6 DEF ndVars
<1> QED BY <1>2, <1>3, <1>4, <1>5, <1>6, FetchKeeps, ReconcileKeeps DEF NdNext, CalendarNext

LEMMA PressInductive == PressInv /\ [NdNext]_ndVars => PressInv'
<1> SUFFICES ASSUME PressInv, [NdNext]_ndVars PROVE PressInv'
  OBVIOUS
<1>1. ASSUME UNCHANGED <<read, kept, unkept, firstRead>> PROVE PressInv'
  BY <1>1 DEF PressInv
<1>2. CASE NewsRestart
  BY <1>2 DEF NewsRestart, PressInv
<1>3. ASSUME NEW a \in Items, NEW kind \in ReadingKinds, NEW saved \in BOOLEAN, ReadItem(a, kind, saved)
      PROVE  PressInv'
  <2>1. a \notin kept /\ a \notin DOMAIN read
    BY <1>3 DEF ReadItem, Unread
  <2>2. /\ read' = [b \in DOMAIN read \cup {a} |->
                      IF b = a THEN [at |-> hourNow, kind |-> kind] ELSE read[b]]
        /\ firstRead' = IF kind = "invalid" \/ a \in DOMAIN firstRead THEN firstRead
                        ELSE [b \in DOMAIN firstRead \cup {a} |->
                                IF b = a THEN hourNow ELSE firstRead[b]]
        /\ kept \subseteq kept' /\ unkept \subseteq unkept' /\ a \in kept' \cup unkept'
    BY <1>3 DEF ReadItem
  <2>3. DOMAIN read' \subseteq kept' \cup unkept' /\ DOMAIN firstRead' \subseteq kept' \cup unkept'
    BY <2>2 DEF PressInv
  <2>4. ASSUME NEW b \in DOMAIN read' \ unkept', read'[b].kind # "invalid"
        PROVE  b \in DOMAIN firstRead' /\ firstRead'[b] = read'[b].at
    <3>1. CASE b = a
      <4>1. a \notin DOMAIN firstRead /\ kind # "invalid"
        BY <2>1, <2>2, <2>4, <3>1 DEF PressInv
      <4> QED BY <2>2, <3>1, <4>1
    <3>2. CASE b # a
      BY <2>2, <2>4, <3>2 DEF PressInv
    <3> QED BY <3>1, <3>2
  <2> QED BY <2>3, <2>4 DEF PressInv
<1>4. CASE CalendarNext
  BY <1>1, <1>2, <1>4 DEF CalendarNext, DeskNext, HourPasses, FetchExport, FetchDead, Reconcile, ReleaseMoves
<1>5. CASE PressNext
  BY <1>1, <1>2, <1>3, <1>5 DEF PressNext, DeskNext, HourPasses, ItemPublished
<1>6. CASE UNCHANGED ndVars
  BY <1>1, <1>6 DEF ndVars
<1> QED BY <1>4, <1>5, <1>6 DEF NdNext

LEMMA WindowIsClosed == CalendarInv => NoEntryNearRelease
<1> SUFFICES ASSUME CalendarInv, arriving = <<>>, NEW o \in DOMAIN taken, OnlyOfItsWeek(o),
                    hourNow - After =< taken[o], taken[o] =< hourNow + Before
             PROVE  EntryBlocked
  BY DEF NoEntryNearRelease
<1>1. /\ RowKey(o, taken[o]) \in DOMAIN eventRows
      /\ eventRows[RowKey(o, taken[o])] = Confirmed(taken[o])
  BY DEF CalendarInv, RowsInv
<1> QED BY <1>1 DEF EntryBlocked, InBlackout, Confirmed

LEMMA MisreadIsBrief == PressInv => OneMisreadIsBrief
  BY DEF PressInv, OneMisreadIsBrief, Blocking

\* Whatever is listed, moved, published, misread, kept or lost at a restart, and
\* in whatever order the rows of an export come: a release the export confirmed
\* closes its window, one misread item blocks only briefly, a forecast predates
\* its figure and a scale rests on earlier figures (news/policy.py assess,
\* news/desk.py _extract_new, news/calendar.py add_event, surprise).
THEOREM NewsIsUsedInTime == MCMarketSpec => []NewsIsTimely
<1> DEFINE Inv == CalendarInv /\ PressInv /\ SuInv
<1>1. MCMarketInit => Inv
  BY NdInitially, SuInitially DEF MCMarketInit
<1>2. Inv /\ [MCMarketNext]_allVars => Inv'
  BY MarketSteps, CalendarInductive, PressInductive, SuInductive
<1>3. Inv => NewsIsTimely
  BY WindowIsClosed, MisreadIsBrief, ForecastsAreEarlier, ScalesAreCausal DEF NewsIsTimely
<1> HIDE DEF Inv
<1> QED BY <1>1, <1>2, <1>3, PTL DEF MCMarketSpec

-----------------------------------------------------------------------------
(* The care of a position. Every rule works on the Position the cycle has  *)
(* read; until the cycle ends the venue's stop is no looser and, while the *)
(* position is open, its lots are the ones that were read. The risk on     *)
(* record changes with the scale-out only, in memory and on disk at once.  *)

LEMMA HalfOf ==
    ASSUME NEW l \in Nat \ {0}
    PROVE  l \div 2 \in Nat /\ l \div 2 < l /\ 2 * (l - l \div 2) >= l
  OBVIOUS

LEMMA DivideExact ==
    ASSUME NEW a \in Nat, NEW n \in Nat \ {0}
    PROVE  (a * n) \div n = a
<1> DEFINE q == (a * n) \div n
<1>1. a * n \in Int
  OBVIOUS
<1>2. q \in Int /\ n * q =< a * n /\ a * n < n * q + n
  BY <1>1, Quotient
<1> HIDE DEF q
<1>3. ASSUME q + 1 =< a PROVE FALSE
  <2>1. n * (q + 1) =< n * a
    BY <1>2, <1>3, TimesMonotone
  <2> QED BY <1>2, <2>1
<1>4. ASSUME a + 1 =< q PROVE FALSE
  <2>1. n * (a + 1) =< n * q
    BY <1>2, <1>4, TimesMonotone
  <2> QED BY <1>2, <2>1
<1> QED BY <1>2, <1>3, <1>4 DEF q

\* The risk on record after a scale-out is that of the lots left, and not zero.
LEMMA ScaledRisk ==
    ASSUME NEW l \in Nat \ {0}, l \div 2 >= 1
    PROVE  /\ \A r \in Nat : r >= 2 => (r * (l - l \div 2)) \div l \in Nat \ {0}
           /\ \A c \in Nat : ((c * l) * (l - l \div 2)) \div l = c * (l - l \div 2)
<1> DEFINE k == l - l \div 2
<1>1. k \in Nat /\ 2 * k >= l
  BY HalfOf
<1> HIDE DEF k
<1>2. ASSUME NEW r \in Nat, r >= 2 PROVE (r * k) \div l \in Nat \ {0}
  <2>1. k * 2 =< k * r
    BY <1>1, <1>2, TimesMonotone
  <2>2. r * k \in Int /\ l =< r * k
    BY <1>1, <2>1
  <2>3. (1 * l) \div l = 1
    BY DivideExact
  <2>4. (r * k) \div l \in Int /\ l \div l =< (r * k) \div l
    <3>1. l \in Int
      OBVIOUS
    <3> QED BY <2>2, <3>1, DivideMonotone, Zenon
  <2>5. 1 * l = l
    OBVIOUS
  <2> QED BY <2>3, <2>4, <2>5
<1>3. ASSUME NEW c \in Nat PROVE ((c * l) * k) \div l = c * k
  <2>1. c * 0 =< c * k /\ c * k \in Int
    BY <1>1, TimesMonotone
  <2>2. c * k \in Nat
    BY <2>1
  <2>3. (c * l) * k = (c * k) * l
    BY <1>1
  <2> QED BY <2>2, <2>3, DivideExact
<1> QED BY <1>2, <1>3 DEF k

LotCounts == 1 .. FullLots
Metas == [risk : Nat \ {0}, be : BOOLEAN, partial : BOOLEAN, peak2 : Nat]

PcTypes ==
    /\ price \in Int
    /\ venue \in [open : BOOLEAN, lots : LotCounts, stop : Int]
    /\ meta \in Metas /\ metaDisk \in Metas
    /\ seen \in [stop : Int, lots : LotCounts, quote : Int]
    /\ step \in {"idle", "lock", "time", "protect", "partial", "record", "down"}
    /\ slips \in [interrupted : BOOLEAN, short : BOOLEAN, refused : BOOLEAN,
                  takes : Nat, best2 : Nat]

\* What the cycle has read is what the venue holds, or looser.
WorkInv ==
    (step \in {"lock", "time", "protect", "partial"} /\ venue.open)
        => venue.lots = seen.lots /\ venue.stop >= seen.stop

\* Memory and disk agree on the scale-out; before it the risk is that of all lots.
ScaleInv ==
    /\ metaDisk.risk = meta.risk /\ metaDisk.partial = meta.partial
    /\ ~meta.partial => meta.risk = R * FullLots
    /\ step \in {"partial", "record"} => ~meta.partial /\ seen.lots \div 2 >= 1

\* Between the venue's answer and the record the risk is still that of the lots read.
RiskInv ==
    (venue.open /\ ~slips.interrupted /\ ~slips.short) =>
        /\ step # "record" => meta.risk = R * venue.lots
        /\ step = "record" => /\ meta.risk = R * seen.lots
                              /\ venue.lots = seen.lots - seen.lots \div 2

TakesInv ==
    ~slips.interrupted =>
        slips.takes =< 1 /\ (slips.takes = 1 => meta.partial \/ step = "record")

PeakInv == slips.best2 =< meta.peak2

PcInv == PcTypes /\ WorkInv /\ ScaleInv /\ RiskInv /\ TakesInv /\ PeakInv

LEMMA FullRisk == R \in Nat /\ FullLots \in Nat \ {0} /\ R * FullLots \in Nat \ {0}
<1>1. R \in Nat \ {0} /\ FullLots \in Nat \ {0}
  BY PositionCareAssumption
<1>2. R * 1 =< R * FullLots /\ R * FullLots \in Int
  BY <1>1, TimesMonotone
<1> QED BY <1>1, <1>2

LEMMA PcInitially == PcInit => PcInv
<1> SUFFICES ASSUME PcInit PROVE PcInv
  OBVIOUS
<1> USE FullRisk DEF PcInit, NewMeta, Nothing, Clean
<1>1. PcTypes
  BY DEF PcTypes, Metas, LotCounts
<1>2. WorkInv /\ ScaleInv /\ TakesInv /\ PeakInv
  BY DEF WorkInv, ScaleInv, TakesInv, PeakInv
<1>3. RiskInv
  BY DEF RiskInv
<1> QED BY <1>1, <1>2, <1>3 DEF PcInv

\* The excursion in half R, and what _track_excursion makes of the metadata.
LEMMA TrackMeans ==
    ASSUME PcTypes
    PROVE  /\ R2(seen.quote, seen.lots, meta) \in Int
           /\ Track \in Metas /\ Track = [meta EXCEPT !.peak2 = Track.peak2]
           /\ Track.risk = meta.risk /\ Track.partial = meta.partial
           /\ Track.peak2 >= meta.peak2 /\ Track.peak2 >= R2(seen.quote, seen.lots, meta)
<1>1. 2 * seen.quote * seen.lots \in Int /\ meta.risk \in Nat \ {0}
  BY FullRisk DEF PcTypes, Metas, LotCounts
<1>2. R2(seen.quote, seen.lots, meta) \in Int
  BY <1>1, Quotient DEF R2
<1> QED BY <1>2 DEF Track, PcTypes, Metas

Outcomes == {"filled", "partial", "refused"}

\* Only a clean close leaves nothing to explain.
LEMMA CloseMeans ==
    ASSUME PcTypes, NEW outcome \in Outcomes, Close(outcome)
    PROVE  /\ venue' \in [open : BOOLEAN, lots : LotCounts, stop : Int] /\ venue'.stop = venue.stop
           /\ slips' = [slips EXCEPT !.short = slips'.short] /\ slips'.short \in BOOLEAN
           /\ venue'.open => venue.open
           /\ outcome = "filled" => ~venue'.open
           /\ ~slips'.short => ~slips.short /\ (venue'.open => venue'.lots = venue.lots)
<1>1. 1 \in LotCounts
  BY FullRisk DEF LotCounts
<1>2. PosMin(venue.lots, 1) \in LotCounts
  BY <1>1 DEF PosMin, PcTypes
<1>3. /\ slips' = [slips EXCEPT !.short = @ \/ outcome = "partial"]
      /\ outcome = "filled" => venue' = [venue EXCEPT !.open = FALSE]
      /\ outcome = "partial" => venue' = [venue EXCEPT !.lots = PosMin(venue.lots, 1)]
      /\ outcome = "refused" => venue' = venue
  BY DEF Close, Outcomes
<1>4. /\ slips' = [slips EXCEPT !.short = slips'.short] /\ slips'.short \in BOOLEAN
      /\ ~slips'.short => ~slips.short /\ outcome # "partial"
  BY <1>3 DEF PcTypes
<1> QED BY <1>2, <1>3, <1>4 DEF PcTypes, Outcomes

\* The largest of the moves asked for.
LEMMA SafestMove ==
    ASSUME NEW a \in Int, NEW b \in Int, NEW c \in Int, NEW S \in SUBSET {a, b, c}, S # {}
    PROVE  LET best == CHOOSE s \in S : \A t \in S : t <= s
           IN  best \in S /\ \A t \in S : t <= best
<1> DEFINE Below(x, y) == x \notin S \/ x <= y
<1>1. \A t \in S : t = a \/ t = b \/ t = c
  OBVIOUS
<1>2. CASE a \in S /\ Below(b, a) /\ Below(c, a)
  <2>1. \A t \in S : t <= a
    BY <1>1, <1>2
  <2> QED BY <1>2, <2>1
<1>3. CASE b \in S /\ Below(a, b) /\ Below(c, b)
  <2>1. \A t \in S : t <= b
    BY <1>1, <1>3
  <2> QED BY <1>3, <2>1
<1>4. CASE c \in S /\ Below(a, c) /\ Below(b, c)
  <2>1. \A t \in S : t <= c
    BY <1>1, <1>4
  <2> QED BY <1>4, <2>1
<1>5. a \in S \/ b \in S \/ c \in S
  BY <1>1
<1> QED BY <1>2, <1>3, <1>4, <1>5

LEMMA FloorIsANumber ==
    ASSUME PcTypes, NEW m \in Metas
    PROVE  RiskDistance(seen.lots, m) \in Nat /\ Floor(seen.lots, m) \in Int
<1>1. m.risk \in Nat \ {0} /\ seen.lots \in Nat \ {0} /\ m.peak2 \in Nat
  BY FullRisk DEF PcTypes, Metas, LotCounts
<1>2. RiskDistance(seen.lots, m) \in Int /\ 0 \div seen.lots =< RiskDistance(seen.lots, m)
  BY <1>1, DivideMonotone DEF RiskDistance
<1>3. (0 * seen.lots) \div seen.lots = 0 /\ 0 * seen.lots = 0
  BY <1>1, DivideExact
<1>4. RiskDistance(seen.lots, m) \in Nat
  BY <1>2, <1>3
<1> QED BY <1>1, <1>4, Quotient DEF Floor

\* The moves the rules ask for are numbers above the stop that was read, and
\* without an armed ratchet's move the stop read is above its floor already or
\* the market is through it.
LEMMA MovesMean ==
    ASSUME PcTypes, NEW m \in Metas, NEW atr
    PROVE  LET moves == StopMoves(seen, m, atr)
               best  == CHOOSE s \in moves : \A t \in moves : t <= s
           IN  /\ \A s \in moves : s \in Int /\ s > seen.stop
               /\ moves # {} => best \in moves /\ \A t \in moves : t <= best
               /\ m.peak2 >= ArmR2 /\ ~RatchetCloses(seen, m) =>
                      \/ Floor(seen.lots, m) \in moves
                      \/ Floor(seen.lots, m) =< seen.stop
<1> DEFINE moves == StopMoves(seen, m, atr)
           fl == Floor(seen.lots, m)
<1>1. Buffer \in Int /\ seen.quote - Trail \in Int /\ fl \in Int /\ seen.stop \in Int /\ seen.quote \in Int
  BY FloorIsANumber, PositionCareAssumption DEF PcTypes
<1>2. moves \in SUBSET {Buffer, seen.quote - Trail, fl} /\ \A s \in moves : Tighter(seen.stop, s)
  BY DEF StopMoves
<1>3. m.peak2 >= ArmR2 /\ Tighter(seen.stop, fl) /\ fl < seen.quote => fl \in moves
  BY DEF StopMoves
<1>4. m.peak2 >= ArmR2 /\ ~RatchetCloses(seen, m) /\ fl \notin moves => fl =< seen.stop
  BY <1>1, <1>3 DEF RatchetCloses, Tighter
<1>5. moves # {} => LET best == CHOOSE s \in moves : \A t \in moves : t <= s
                   IN  best \in moves /\ \A t \in moves : t <= best
  BY <1>1, <1>2, SafestMove
<1> HIDE DEF moves, fl
<1>6. \A s \in moves : s \in Int /\ s > seen.stop
  BY <1>1, <1>2 DEF Tighter
<1> QED BY <1>4, <1>5, <1>6 DEF moves, fl

\* One pass of the rules: a close, a move of the stop, a refusal, or nothing.
AfterPass ==
    /\ meta' \in Metas /\ meta'.risk = meta.risk /\ meta'.partial = meta.partial
    /\ meta'.peak2 = Track.peak2
    /\ metaDisk' \in {metaDisk, meta'}
    /\ venue' \in [open : BOOLEAN, lots : LotCounts, stop : Int] /\ (venue'.open => venue.open)
    /\ step' \in {"idle", "partial"}
    /\ step' = "partial" => /\ ~meta.partial /\ seen.lots \div 2 >= 1
                            /\ venue'.lots = venue.lots
                            /\ venue.open => venue'.stop >= seen.stop
    /\ slips' \in [interrupted : BOOLEAN, short : BOOLEAN, refused : BOOLEAN,
                   takes : Nat, best2 : Nat]
    /\ slips'.interrupted = slips.interrupted /\ slips'.takes = slips.takes
    /\ ~slips'.short => ~slips.short /\ (venue'.open => venue'.lots = venue.lots)
    /\ slips'.best2 =< Track.peak2

LEMMA ProtectMeans ==
    ASSUME PcInv, NEW atr, NEW outcome \in Outcomes, ProtectStep(atr, outcome)
    PROVE  AfterPass
<1> USE DEF AfterPass
<1> DEFINE m     == Track
           moves == StopMoves(seen, m, atr)
           best  == CHOOSE s \in moves : \A t \in moves : t <= s
           r2    == R2(seen.quote, seen.lots, meta)
           after == [slips EXCEPT !.best2 = IF r2 > @ THEN r2 ELSE @]
           Slip  == [interrupted : BOOLEAN, short : BOOLEAN, refused : BOOLEAN,
                     takes : Nat, best2 : Nat]
<1>1. /\ r2 \in Int /\ m \in Metas /\ m.risk = meta.risk /\ m.partial = meta.partial
      /\ m.peak2 >= meta.peak2 /\ m.peak2 >= r2 /\ PcTypes /\ slips.best2 =< meta.peak2
  BY TrackMeans DEF PcInv, PeakInv
<1>2. step = "protect"
  BY DEF ProtectStep
<1>3. venue.open => venue.stop >= seen.stop
  BY <1>2 DEF PcInv, WorkInv
<1>4. slips.best2 \in Nat /\ meta.peak2 \in Nat /\ m.peak2 \in Nat
  BY <1>1 DEF PcTypes, Metas
<1>5. slips.best2 =< m.peak2
  BY <1>1, <1>4
<1>6. after \in Slip /\ after.best2 =< m.peak2 /\ after.interrupted = slips.interrupted
      /\ after.takes = slips.takes /\ after.short = slips.short
  BY <1>1, <1>4, <1>5 DEF PcTypes
<1>7. CASE ~venue.open
  <2>1. meta' = m /\ step' = "idle" /\ UNCHANGED <<venue, metaDisk, slips>>
    BY <1>7 DEF ProtectStep
  <2> QED BY <1>1, <1>5, <2>1 DEF PcTypes
<1>8. CASE venue.open /\ RatchetCloses(seen, m)
  <2>1. Close(outcome) /\ meta' = m /\ step' = "idle" /\ UNCHANGED metaDisk
    BY <1>8 DEF ProtectStep
  <2>2. /\ venue' \in [open : BOOLEAN, lots : LotCounts, stop : Int]
        /\ slips' = [slips EXCEPT !.short = slips'.short] /\ slips'.short \in BOOLEAN
        /\ venue'.open => venue.open
        /\ ~slips'.short => ~slips.short /\ (venue'.open => venue'.lots = venue.lots)
    BY <1>1, <2>1, CloseMeans
  <2>3. slips' \in Slip /\ slips'.best2 = slips.best2 /\ slips'.interrupted = slips.interrupted
        /\ slips'.takes = slips.takes
    BY <1>1, <2>2 DEF PcTypes
  <2> QED BY <1>1, <1>5, <2>1, <2>2, <2>3
<1>9. CASE venue.open /\ ~RatchetCloses(seen, m)
  <2>1. /\ step' = IF TakesPartial(seen, m) THEN "partial" ELSE "idle"
        /\ IF moves # {} /\ Modify(best)
           THEN /\ Moved(best)
                /\ meta' = [m EXCEPT !.be = @ \/ best = Buffer]
                /\ metaDisk' = meta'
                /\ slips' = after
           ELSE /\ meta' = m
                /\ slips' = [after EXCEPT !.refused = @ \/ moves # {}]
                /\ UNCHANGED <<venue, metaDisk>>
    BY <1>9 DEF ProtectStep
  <2>2. step' = "partial" => ~meta.partial /\ seen.lots \div 2 >= 1
    BY <1>1, <2>1 DEF TakesPartial
  <2>3. moves # {} => best \in Int /\ best > seen.stop
    BY <1>1, MovesMean
  <2> HIDE DEF m, moves, best, after, r2
  <2>4. CASE moves # {} /\ Modify(best)
    <3>1. meta' = [m EXCEPT !.be = @ \/ best = Buffer] /\ metaDisk' = meta' /\ slips' = after
          /\ venue' = [venue EXCEPT !.stop = best]
      BY <2>1, <2>4 DEF Moved
    <3>2. meta' \in Metas /\ meta'.risk = m.risk /\ meta'.partial = m.partial /\ meta'.peak2 = m.peak2
      BY <1>1, <3>1 DEF Metas
    <3>3. /\ venue' \in [open : BOOLEAN, lots : LotCounts, stop : Int] /\ venue'.lots = venue.lots
          /\ venue'.stop >= seen.stop
      BY <1>1, <2>3, <2>4, <3>1 DEF PcTypes
    <3> QED BY <1>1, <1>6, <1>9, <2>1, <2>2, <3>1, <3>2, <3>3 DEF m
  <2>5. CASE ~(moves # {} /\ Modify(best))
    <3>1. meta' = m /\ UNCHANGED <<venue, metaDisk>> /\ slips' = [after EXCEPT !.refused = @ \/ moves # {}]
      BY <2>1, <2>5
    <3>2. slips' \in Slip /\ slips'.best2 = after.best2 /\ slips'.interrupted = after.interrupted
          /\ slips'.takes = after.takes /\ slips'.short = after.short
      BY <1>6, <3>1
    <3> QED BY <1>1, <1>3, <1>6, <1>9, <2>1, <2>2, <3>1, <3>2 DEF m, PcTypes
  <2> QED BY <2>4, <2>5
<1> QED BY <1>7, <1>8, <1>9

LEMMA ProtectKeeps ==
    ASSUME PcInv, NEW atr, NEW outcome \in Outcomes, ProtectStep(atr, outcome)
    PROVE  PcInv'
<1>1. step = "protect" /\ UNCHANGED <<price, seen>>
  BY DEF ProtectStep
<1>2. AfterPass
  BY ProtectMeans
<1>3. PcTypes'
  BY <1>1, <1>2 DEF AfterPass, PcInv, PcTypes
<1>4. WorkInv'
  BY <1>1, <1>2 DEF AfterPass, PcInv, WorkInv
<1>5. ScaleInv'
  BY <1>1, <1>2 DEF AfterPass, PcInv, ScaleInv
<1>6. RiskInv'
  BY <1>1, <1>2 DEF AfterPass, PcInv, RiskInv
<1>7. TakesInv' /\ PeakInv'
  BY <1>1, <1>2 DEF AfterPass, PcInv, TakesInv, PeakInv
<1> QED BY <1>3, <1>4, <1>5, <1>6, <1>7 DEF PcInv

LEMMA TimeExitKeeps ==
    ASSUME PcInv, NEW due, NEW outcome \in Outcomes, TimeExit(due, outcome)
    PROVE  PcInv'
<1>1. step = "time" /\ UNCHANGED <<price, meta, metaDisk, seen>>
  BY DEF TimeExit
<1>2. CASE Close(outcome) /\ step' = "idle"
  <2>1. /\ venue' \in [open : BOOLEAN, lots : LotCounts, stop : Int]
        /\ slips' = [slips EXCEPT !.short = slips'.short] /\ slips'.short \in BOOLEAN
        /\ venue'.open => venue.open
        /\ ~slips'.short => ~slips.short /\ (venue'.open => venue'.lots = venue.lots)
    BY <1>2, CloseMeans DEF PcInv
  <2>2. /\ slips' \in [interrupted : BOOLEAN, short : BOOLEAN, refused : BOOLEAN,
                       takes : Nat, best2 : Nat]
        /\ slips'.best2 = slips.best2 /\ slips'.interrupted = slips.interrupted
        /\ slips'.takes = slips.takes
    BY <2>1 DEF PcInv, PcTypes
  <2>3. PcTypes' /\ WorkInv' /\ ScaleInv'
    BY <1>1, <1>2, <2>1, <2>2 DEF PcInv, PcTypes, WorkInv, ScaleInv
  <2>4. RiskInv'
    BY <1>1, <1>2, <2>1, <2>2 DEF PcInv, RiskInv
  <2>5. TakesInv' /\ PeakInv'
    BY <1>1, <1>2, <2>2 DEF PcInv, TakesInv, PeakInv
  <2> QED BY <2>3, <2>4, <2>5 DEF PcInv
<1>3. CASE UNCHANGED <<venue, stuck, slips>> /\ step' = "protect"
  <2>1. PcTypes' /\ WorkInv' /\ ScaleInv'
    BY <1>1, <1>3 DEF PcInv, PcTypes, WorkInv, ScaleInv
  <2>2. RiskInv' /\ TakesInv' /\ PeakInv'
    BY <1>1, <1>3 DEF PcInv, RiskInv, TakesInv, PeakInv
  <2> QED BY <2>1, <2>2 DEF PcInv
<1> QED BY <1>2, <1>3 DEF TimeExit

LEMMA ProfitLockKeeps == ASSUME PcInv, NEW gain \in BOOLEAN, ProfitLockStep(gain) PROVE PcInv'
<1>1. step = "lock" /\ step' = "time" /\ UNCHANGED <<price, meta, seen, slips>>
  BY DEF ProfitLockStep
<1>2. metaDisk' \in {metaDisk, meta}
  BY DEF ProfitLockStep
<1>3. LockStop \in Int
  BY PositionCareAssumption DEF LockStop, PcInv, PcTypes
<1>4. \/ venue' = venue
      \/ venue' = [venue EXCEPT !.stop = LockStop] /\ LockStop > seen.stop
  BY DEF ProfitLockStep, Moved, Tighter
<1>5. /\ venue' \in [open : BOOLEAN, lots : LotCounts, stop : Int] /\ venue'.lots = venue.lots
      /\ venue'.open = venue.open /\ (venue'.stop = venue.stop \/ venue'.stop > seen.stop)
  BY <1>3, <1>4 DEF PcInv, PcTypes
<1>6. PcTypes' /\ ScaleInv'
  BY <1>1, <1>2, <1>5 DEF PcInv, PcTypes, ScaleInv
<1>7. WorkInv'
  BY <1>1, <1>5 DEF PcInv, PcTypes, WorkInv
<1>8. RiskInv'
  BY <1>1, <1>5 DEF PcInv, RiskInv
<1>9. TakesInv' /\ PeakInv'
  BY <1>1 DEF PcInv, TakesInv, PeakInv
<1> QED BY <1>6, <1>7, <1>8, <1>9 DEF PcInv

LEMMA PartialKeeps == ASSUME PcInv, NEW closed, PartialStep(closed) PROVE PcInv'
<1> DEFINE half == seen.lots \div 2
<1>1. step = "partial" /\ closed \in 0 .. half /\ UNCHANGED <<price, meta, metaDisk, seen>>
  BY DEF PartialStep
<1>2. seen.lots \in LotCounts /\ seen.lots \in Nat \ {0} /\ half \in Nat /\ half < seen.lots
  BY HalfOf, FullRisk DEF PcInv, PcTypes, LotCounts
<1>3. CASE step' = "idle" /\ UNCHANGED <<venue, slips>>
  <2>1. PcTypes' /\ WorkInv' /\ ScaleInv'
    BY <1>1, <1>3 DEF PcInv, PcTypes, WorkInv, ScaleInv
  <2>2. RiskInv' /\ TakesInv' /\ PeakInv'
    BY <1>1, <1>3 DEF PcInv, RiskInv, TakesInv, PeakInv
  <2> QED BY <2>1, <2>2 DEF PcInv
<1>4. CASE ~(closed = 0 \/ ~venue.open)
  <2> DEFINE less == closed < half
  <2>1. /\ venue' = [venue EXCEPT !.lots = @ - closed] /\ step' = "record"
        /\ slips' = [slips EXCEPT !.takes = @ + 1, !.short = @ \/ less]
    BY <1>4 DEF PartialStep
  <2> HIDE DEF less
  <2>2. venue.lots = seen.lots
    BY <1>1, <1>4 DEF PcInv, WorkInv
  <2> HIDE DEF half
  <2>3. venue.lots - closed \in LotCounts
    BY <1>1, <1>2, <2>2, FullRisk DEF LotCounts
  <2>4. /\ venue' \in [open : BOOLEAN, lots : LotCounts, stop : Int]
        /\ venue'.lots = seen.lots - closed /\ venue'.open = venue.open
    BY <2>1, <2>2, <2>3 DEF PcInv, PcTypes
  <2>5. /\ slips' \in [interrupted : BOOLEAN, short : BOOLEAN, refused : BOOLEAN,
                       takes : Nat, best2 : Nat]
        /\ slips'.best2 = slips.best2 /\ slips'.interrupted = slips.interrupted
        /\ slips'.takes = slips.takes + 1
    <3>1. PICK n \in Nat : n = slips.takes + 1
      BY DEF PcInv, PcTypes
    <3>2. PICK b \in BOOLEAN : b = (slips.short \/ less)
      OBVIOUS
    <3>3. slips' = [slips EXCEPT !.takes = n, !.short = b]
      BY <2>1, <3>1, <3>2, Zenon
    <3> HIDE <3>2
    <3> QED BY <3>1, <3>3 DEF PcInv, PcTypes
  <2>6. ~slips'.short => ~slips.short /\ ~less
    BY <2>1 DEF PcInv, PcTypes
  <2>7. ~slips'.short => ~slips.short /\ closed = half
    BY <1>1, <1>2, <2>6 DEF less
  <2>8. PcTypes' /\ WorkInv' /\ ScaleInv'
    BY <1>1, <2>1, <2>4, <2>5 DEF PcInv, PcTypes, WorkInv, ScaleInv
  <2>9. RiskInv'
    BY <1>1, <2>1, <2>2, <2>4, <2>5, <2>7 DEF PcInv, RiskInv, half
  <2>10. TakesInv'
    <3>1. ~meta.partial
      BY <1>1 DEF PcInv, ScaleInv
    <3>2. ~slips.interrupted => slips.takes = 0
      BY <1>1, <3>1 DEF PcInv, TakesInv, PcTypes
    <3> QED BY <2>1, <2>5, <3>2 DEF TakesInv
  <2>11. PeakInv'
    BY <1>1, <2>5 DEF PcInv, PeakInv
  <2> QED BY <2>8, <2>9, <2>10, <2>11 DEF PcInv
<1> QED BY <1>3, <1>4 DEF PartialStep

LEMMA RecordKeeps == ASSUME PcInv, RecordStep PROVE PcInv'
<1> DEFINE half == seen.lots \div 2
           risk == (meta.risk * (seen.lots - half)) \div seen.lots
<1>1. /\ step = "record" /\ step' = "idle" /\ UNCHANGED <<price, venue, seen, slips>>
      /\ meta' = [meta EXCEPT !.partial = TRUE, !.risk = risk] /\ metaDisk' = meta'
  BY DEF RecordStep, Record
<1>2. ~meta.partial /\ half >= 1 /\ meta.risk = R * FullLots
  BY <1>1 DEF PcInv, ScaleInv
<1>3. seen.lots \in Nat \ {0} /\ seen.lots =< FullLots /\ half \in Nat /\ half < seen.lots
  BY HalfOf, FullRisk DEF PcInv, PcTypes, LotCounts
<1>4. meta.risk >= 2
  <2>1. 1 * FullLots =< R * FullLots
    BY FullRisk, PositionCareAssumption, TimesMonotone
  <2> HIDE DEF half
  <2> QED BY <1>2, <1>3, <2>1, FullRisk
<1>5. risk \in Nat \ {0}
  BY <1>2, <1>3, <1>4, ScaledRisk DEF PcInv, PcTypes, Metas
<1>6. meta.risk = R * seen.lots => risk = R * (seen.lots - half)
  BY <1>2, <1>3, FullRisk, ScaledRisk
<1> HIDE DEF risk
<1>7. /\ meta' \in Metas /\ meta'.risk = risk /\ meta'.partial = TRUE
      /\ meta'.peak2 = meta.peak2
  BY <1>1, <1>5 DEF PcInv, PcTypes, Metas
<1>8. PcTypes' /\ WorkInv' /\ ScaleInv'
  BY <1>1, <1>7 DEF PcInv, PcTypes, WorkInv, ScaleInv
<1>9. RiskInv'
  BY <1>1, <1>6, <1>7 DEF PcInv, RiskInv
<1>10. TakesInv' /\ PeakInv'
  BY <1>1, <1>7 DEF PcInv, TakesInv, PeakInv
<1> QED BY <1>8, <1>9, <1>10 DEF PcInv

LEMMA SurroundingsKeepCare ==
    ASSUME PcInv,
           PcRead \/ NoRate \/ PcCrash \/ PcRestart \/ UNCHANGED pcVars
             \/ \E p \in PriceRange : PcMarket(p)
    PROVE  PcInv'
<1>1. ASSUME NEW p \in PriceRange, PcMarket(p) PROVE PcInv'
  <2>1. p \in Int /\ price' = p /\ UNCHANGED <<meta, metaDisk, seen, step, slips>>
    BY <1>1, PositionCareAssumption DEF PcMarket, PriceRange
  <2>2. /\ venue' \in [open : BOOLEAN, lots : LotCounts, stop : Int]
        /\ venue'.lots = venue.lots /\ venue'.stop = venue.stop /\ (venue'.open => venue.open)
    BY <1>1 DEF PcMarket, PcInv, PcTypes
  <2>3. PcTypes' /\ WorkInv' /\ ScaleInv'
    BY <2>1, <2>2 DEF PcInv, PcTypes, WorkInv, ScaleInv
  <2>4. RiskInv' /\ TakesInv' /\ PeakInv'
    BY <2>1, <2>2 DEF PcInv, RiskInv, TakesInv, PeakInv
  <2> QED BY <2>3, <2>4 DEF PcInv
<1>2. CASE PcRead
  <2>1. /\ seen' = [stop |-> venue.stop, lots |-> venue.lots, quote |-> price]
        /\ step = "idle" /\ step' = "lock" /\ slips' = [slips EXCEPT !.refused = FALSE]
        /\ UNCHANGED <<price, venue, meta, metaDisk>>
    BY <1>2 DEF PcRead
  <2>2. PcTypes' /\ ScaleInv'
    BY <2>1 DEF PcInv, PcTypes, ScaleInv
  <2>3. WorkInv'
    <3>1. seen'.lots = venue'.lots /\ seen'.stop = venue'.stop /\ venue'.stop \in Int
      BY <2>1 DEF PcInv, PcTypes
    <3> QED BY <3>1 DEF WorkInv
  <2>4. RiskInv' /\ TakesInv' /\ PeakInv'
    BY <2>1 DEF PcInv, PcTypes, RiskInv, TakesInv, PeakInv
  <2> QED BY <2>2, <2>3, <2>4 DEF PcInv
<1>3. CASE NoRate
  <2>1. /\ step = "protect" /\ step' = "idle" /\ slips' = [slips EXCEPT !.refused = TRUE]
        /\ UNCHANGED <<price, venue, meta, metaDisk, seen>>
    BY <1>3 DEF NoRate
  <2>2. PcTypes' /\ WorkInv' /\ ScaleInv'
    BY <2>1 DEF PcInv, PcTypes, WorkInv, ScaleInv
  <2>3. RiskInv' /\ TakesInv' /\ PeakInv'
    BY <2>1 DEF PcInv, PcTypes, RiskInv, TakesInv, PeakInv
  <2> QED BY <2>2, <2>3 DEF PcInv
<1>4. CASE PcCrash
  <2>1. /\ step' = "down" /\ seen' = Nothing
        /\ slips' = [slips EXCEPT !.interrupted = @ \/ step = "record"]
        /\ UNCHANGED <<price, venue, meta, metaDisk>>
    BY <1>4 DEF PcCrash
  <2>2. /\ slips' \in [interrupted : BOOLEAN, short : BOOLEAN, refused : BOOLEAN,
                       takes : Nat, best2 : Nat]
        /\ slips'.best2 = slips.best2 /\ slips'.takes = slips.takes /\ slips'.short = slips.short
        /\ ~slips'.interrupted => ~slips.interrupted /\ step # "record"
    BY <2>1 DEF PcInv, PcTypes
  <2>3. PcTypes' /\ WorkInv' /\ ScaleInv'
    BY <2>1, <2>2, FullRisk DEF PcInv, PcTypes, WorkInv, ScaleInv, Nothing, LotCounts
  <2>4. RiskInv' /\ TakesInv' /\ PeakInv'
    BY <2>1, <2>2 DEF PcInv, RiskInv, TakesInv, PeakInv
  <2> QED BY <2>3, <2>4 DEF PcInv
<1>5. CASE PcRestart
  <2>1. /\ step = "down" /\ step' = "idle" /\ meta' = metaDisk
        /\ slips' = [slips EXCEPT !.best2 = metaDisk.peak2]
        /\ UNCHANGED <<price, venue, metaDisk, seen>>
    BY <1>5 DEF PcRestart
  <2>2. /\ slips' \in [interrupted : BOOLEAN, short : BOOLEAN, refused : BOOLEAN,
                       takes : Nat, best2 : Nat]
        /\ slips'.best2 = metaDisk.peak2 /\ slips'.takes = slips.takes
        /\ slips'.short = slips.short /\ slips'.interrupted = slips.interrupted
        /\ metaDisk.peak2 \in Nat
    BY <2>1 DEF PcInv, PcTypes, Metas
  <2>3. PcTypes' /\ WorkInv' /\ ScaleInv'
    BY <2>1, <2>2 DEF PcInv, PcTypes, WorkInv, ScaleInv
  <2>4. RiskInv' /\ TakesInv'
    BY <2>1, <2>2 DEF PcInv, RiskInv, ScaleInv, TakesInv
  <2>5. PeakInv'
    BY <2>1, <2>2 DEF PeakInv
  <2> QED BY <2>3, <2>4, <2>5 DEF PcInv
<1>6. CASE UNCHANGED pcVars
  <2>1. PcTypes' /\ WorkInv' /\ ScaleInv'
    BY <1>6 DEF pcVars, PcInv, PcTypes, WorkInv, ScaleInv
  <2>2. RiskInv' /\ TakesInv' /\ PeakInv'
    BY <1>6 DEF pcVars, PcInv, RiskInv, TakesInv, PeakInv
  <2> QED BY <2>1, <2>2 DEF PcInv
<1> QED BY <1>1, <1>2, <1>3, <1>4, <1>5, <1>6

LEMMA PcInductive == PcInv /\ [PcNext]_pcVars => PcInv'
  BY ProtectKeeps, TimeExitKeeps, ProfitLockKeeps, PartialKeeps, RecordKeeps, SurroundingsKeepCare
     DEF PcNext, Outcomes

LEMMA StopsTighten == ASSUME Guarded, PcInv, PcNext PROVE StopOnlyTightens
<1>1. venue.stop \in Int
  BY DEF PcInv, PcTypes
<1>2. ASSUME NEW s, Modify(s), Moved(s) PROVE StopOnlyTightens
  <2>1. s >= venue.stop
    BY <1>2 DEF Modify
  <2>2. venue'.stop = s
    BY <1>2 DEF Moved, PcInv, PcTypes
  <2> QED BY <2>1, <2>2 DEF StopOnlyTightens
<1>3. ASSUME venue'.stop = venue.stop PROVE StopOnlyTightens
  BY <1>1, <1>3 DEF StopOnlyTightens
<1>4. ASSUME NEW o \in Outcomes, Close(o) PROVE StopOnlyTightens
  BY <1>3, <1>4, CloseMeans DEF PcInv
<1>5. ASSUME NEW p \in PriceRange, PcMarket(p) PROVE StopOnlyTightens
  <2>1. venue'.stop = venue.stop
    BY <1>5 DEF PcMarket, PcInv, PcTypes
  <2> QED BY <1>3, <2>1
<1>6. ASSUME NEW gain \in BOOLEAN, ProfitLockStep(gain) PROVE StopOnlyTightens
  BY <1>2, <1>3, <1>6 DEF ProfitLockStep
<1>7. ASSUME NEW due \in BOOLEAN, NEW o \in Outcomes, TimeExit(due, o) PROVE StopOnlyTightens
  BY <1>3, <1>4, <1>7 DEF TimeExit
<1>8. ASSUME NEW atr \in BOOLEAN, NEW o \in Outcomes, ProtectStep(atr, o) PROVE StopOnlyTightens
  <2>1. Close(o) \/ venue' = venue \/ \E s : Modify(s) /\ Moved(s)
    BY <1>8 DEF ProtectStep
  <2> QED BY <1>2, <1>3, <1>4, <2>1
<1>9. ASSUME NEW closed \in 0 .. FullLots, PartialStep(closed) PROVE StopOnlyTightens
  <2>1. venue' = venue \/ venue' = [venue EXCEPT !.lots = @ - closed]
    BY <1>9 DEF PartialStep
  <2>2. venue'.stop = venue.stop
    BY <2>1 DEF PcInv, PcTypes
  <2> QED BY <1>3, <2>2
<1>10. CASE PcRead \/ NoRate \/ RecordStep \/ PcCrash \/ PcRestart
  BY <1>3, <1>10 DEF PcRead, NoRate, RecordStep, PcCrash, PcRestart
<1> QED BY <1>5, <1>6, <1>7, <1>8, <1>9, <1>10 DEF PcNext, Outcomes

LEMMA RatchetKeepsUp == ASSUME Guarded, PcInv PROVE RatchetHolds
<1> SUFFICES ASSUME NEW atr \in BOOLEAN, ProtectStep(atr, "filled"), venue'.open,
                    ~slips'.refused, slips'.best2 >= ArmR2
             PROVE  venue'.stop >= Floor(seen.lots, [meta' EXCEPT !.peak2 = slips'.best2])
  BY DEF RatchetHolds
<1> DEFINE m     == Track
           moves == StopMoves(seen, m, atr)
           best  == CHOOSE s \in moves : \A t \in moves : t <= s
           r2    == R2(seen.quote, seen.lots, meta)
           after == [slips EXCEPT !.best2 = IF r2 > @ THEN r2 ELSE @]
           fl    == Floor(seen.lots, m)
           kept2 == [meta' EXCEPT !.peak2 = slips'.best2]
<1>1. AfterPass /\ "filled" \in Outcomes
  BY ProtectMeans DEF Outcomes
<1>2. m \in Metas /\ m.risk = meta.risk /\ PcTypes
  BY TrackMeans DEF PcInv
<1>3. kept2.risk = m.risk /\ kept2.peak2 = slips'.best2 /\ kept2 \in Metas
  BY <1>1, <1>2 DEF AfterPass, Metas
<1>4. slips'.best2 \in Nat /\ m.peak2 \in Nat /\ slips'.best2 =< m.peak2 /\ m.peak2 >= ArmR2
  <2>1. slips'.best2 \in Nat /\ m.peak2 \in Nat /\ slips'.best2 =< m.peak2
    BY <1>1, <1>2 DEF AfterPass, Metas
  <2> QED BY <2>1, PositionCareAssumption
<1>5. Floor(seen.lots, kept2) =< fl /\ fl \in Int /\ Floor(seen.lots, kept2) \in Int
  <2>1. RiskDistance(seen.lots, m) \in Nat /\ RiskDistance(seen.lots, kept2) = RiskDistance(seen.lots, m)
    BY <1>2, <1>3, FloorIsANumber DEF RiskDistance
  <2>2. PICK d \in Nat : d = RiskDistance(seen.lots, m)
    BY <2>1
  <2>3. d * slips'.best2 \in Int /\ d * m.peak2 \in Int /\ d * slips'.best2 =< d * m.peak2
    BY <1>4, TimesMonotone
  <2>4. Floor(seen.lots, kept2) = (d * slips'.best2) \div 4 /\ fl = (d * m.peak2) \div 4
    BY <1>3, <2>1, <2>2 DEF Floor
  <2>5. 4 \in Nat \ {0}
    OBVIOUS
  <2>6. (d * slips'.best2) \div 4 \in Int /\ (d * m.peak2) \div 4 \in Int
        /\ (d * slips'.best2) \div 4 =< (d * m.peak2) \div 4
    BY <2>3, <2>5, DivideMonotone, Zenon
  <2> QED BY <2>4, <2>6
<1>6. venue.open /\ venue.stop >= seen.stop /\ venue.stop \in Int /\ seen.stop \in Int
  BY <1>1 DEF AfterPass, ProtectStep, PcInv, PcTypes, WorkInv
<1>7. ~RatchetCloses(seen, m)
  <2>1. RatchetCloses(seen, m) => Close("filled")
    BY <1>6 DEF ProtectStep
  <2> QED BY <1>1, <1>2, <2>1, CloseMeans
<1>8. /\ \A s \in moves : s \in Int /\ s > seen.stop
      /\ moves # {} => best \in moves /\ \A t \in moves : t <= best
      /\ fl \in moves \/ fl =< seen.stop
  BY <1>2, <1>4, <1>7, MovesMean
<1>9. IF moves # {} /\ Modify(best)
      THEN Moved(best)
      ELSE slips' = [after EXCEPT !.refused = @ \/ moves # {}] /\ UNCHANGED venue
  BY <1>6, <1>7 DEF ProtectStep
<1> HIDE DEF m, moves, best, fl, kept2
<1>10. CASE moves # {} /\ Modify(best)
  <2>1. venue'.stop = best
    BY <1>9, <1>10, <1>2 DEF Moved, PcTypes
  <2>2. best >= venue.stop
    BY <1>10 DEF Modify
  <2>3. best \in Int /\ best >= fl
    BY <1>5, <1>6, <1>8, <1>10, <2>2
  <2>4. venue'.stop >= Floor(seen.lots, kept2)
    BY <1>5, <2>1, <2>3
  <2> QED BY <2>4 DEF kept2
<1>11. CASE ~(moves # {} /\ Modify(best))
  <2>1. slips' = [after EXCEPT !.refused = @ \/ moves # {}] /\ venue' = venue
    BY <1>9, <1>11
  <2>2. after.refused = slips.refused /\ after \in [interrupted : BOOLEAN, short : BOOLEAN,
                                                    refused : BOOLEAN, takes : Nat, best2 : Nat]
    BY <1>2, TrackMeans DEF PcTypes
  <2> HIDE DEF after
  <2>3. moves = {}
    BY <2>1, <2>2
  <2>4. venue'.stop >= Floor(seen.lots, kept2)
    BY <1>5, <1>6, <1>8, <2>1, <2>3
  <2> QED BY <2>4 DEF kept2
<1> QED BY <1>10, <1>11

\* On a venue whose adapter refuses to widen a stop, whatever the market does,
\* the venue refuses or fills in part, and wherever the process dies: the stop
\* of a position only tightens and keeps up with the best excursion seen, the
\* scale-out happens once, and one R stays one R (_apply_profit_lock,
\* _manage_positions, evaluate_protection).
THEOREM PositionsAreCaredFor ==
    ASSUME Guarded
    PROVE  MCMarketSpec => PositionIsCaredFor
<1> DEFINE Kept == StopOnlyTightens /\ RatchetHolds /\ ScaleOutOnce' /\ OneRStaysOneR'
<1>1. MCMarketInit => PcInv
  BY PcInitially DEF MCMarketInit
<1>2. PcInv /\ [MCMarketNext]_allVars => PcInv'
  BY MarketSteps, PcInductive
<1>3. PcInv /\ [MCMarketNext]_allVars => [Kept]_pcVars
  <2> SUFFICES ASSUME PcInv, [MCMarketNext]_allVars, ~UNCHANGED pcVars PROVE Kept
    OBVIOUS
  <2>1. PcNext
    BY MarketSteps
  <2>2. ScaleOutOnce' /\ OneRStaysOneR'
    <3>1. PcInv'
      BY <1>2
    <3> QED BY <3>1 DEF PcInv, TakesInv, RiskInv, ScaleOutOnce, OneRStaysOneR
  <2> QED BY <2>1, <2>2, StopsTighten, RatchetKeepsUp
<1> QED BY <1>1, <1>2, <1>3, PTL DEF MCMarketSpec, PositionIsCaredFor

-----------------------------------------------------------------------------
(* The loss budgets. What the agent counts on (the day and its trades) is  *)
(* on disk whenever it is in memory; the marks in memory are those of the  *)
(* window unless a crash has lost some; and a released rung was released   *)
(* clear of its band.                                                      *)

RbGhosts ==
    [placed : Nat, ticketed : Nat, day : Nat, seen : Marks, lost : BOOLEAN,
     released : [from : 0 .. Len(Ladder), eq : Nat, peak : Nat]]

RbTypes ==
    /\ RbTypeOK
    /\ judged \in Int /\ judged =< now
    /\ ghost \in RbGhosts

\* The counters the agent has, or would start from.
Counted == IF running THEN mem ELSE disk

CapInv ==
    /\ ghost.day = VenueDay(now)
    /\ running => disk.day = mem.day /\ disk.trades = mem.trades
    /\ Counted.trades =< EntriesPerDay
    /\ Counted.day = VenueDay(now) => ghost.placed =< Counted.trades + ghost.ticketed
    /\ Counted.day # VenueDay(now) => ghost.placed =< ghost.ticketed

\* A cycle of this bucket has rolled the day, and its mark is the newest.
JudgedInv ==
    judged = now =>
        /\ running
        /\ mem.day = VenueDay(now)
        /\ now \in DOMAIN mem.marks /\ \A s \in DOMAIN mem.marks : s >= now - RollWindow

MarksInv == ~ghost.lost => Counted.marks = ghost.seen

ReleasedInv ==
    ghost.released.from > 0 =>
        (ghost.released.peak - ghost.released.eq) * 100
            =< (Ladder[ghost.released.from] - Hysteresis) * ghost.released.peak

RbInv == RbTypes /\ CapInv /\ JudgedInv /\ MarksInv /\ ReleasedInv

LEMMA BudgetConstants ==
    /\ RbHorizon \in Nat /\ DayLength \in Nat \ {0} /\ RollWindow \in Nat
    /\ RbLevels \subseteq Nat /\ Ladder \in Seq(Nat) /\ Len(Ladder) \in Nat
    /\ Hysteresis \in Nat /\ EntriesPerDay \in Nat
    /\ \A i, j \in DOMAIN Ladder : i < j => Ladder[i] < Ladder[j]
    /\ \A i \in 1 .. Len(Ladder) : i \in DOMAIN Ladder /\ Ladder[i] \in Nat
  BY RiskBudgetAssumption

LEMMA DayOf ==
    ASSUME NEW t \in 0 .. RbHorizon
    PROVE  VenueDay(t) \in RbDays /\ VenueDay(t) \in Nat
<1>1. t \in Int /\ 0 \in Int /\ RbHorizon \in Int /\ 0 =< t /\ t =< RbHorizon
  BY BudgetConstants
<1>2. 0 \div DayLength =< t \div DayLength /\ t \div DayLength =< RbHorizon \div DayLength
      /\ t \div DayLength \in Int /\ RbHorizon \div DayLength \in Int
  BY <1>1, BudgetConstants, DivideMonotone, Zenon
<1>3. (0 * DayLength) \div DayLength = 0 /\ 0 * DayLength = 0
  BY BudgetConstants, DivideExact
<1>4. t \div DayLength \in 0 .. (RbHorizon \div DayLength) /\ t \div DayLength \in Nat
  BY <1>2, <1>3
<1> QED BY <1>4 DEF VenueDay, RbDays

\* The deepest threshold reached is a rung of the ladder, and has been reached.
LEMMA TargetMeans ==
    ASSUME NEW peak \in Nat, NEW eq \in Nat
    PROVE  /\ Target(peak, eq) \in 0 .. Len(Ladder)
           /\ Target(peak, eq) > 0 => Lost(peak, eq, Ladder[Target(peak, eq)])
<1> DEFINE hit == {i \in DOMAIN Ladder : Lost(peak, eq, Ladder[i])}
<1>1. hit \in SUBSET Nat /\ hit \subseteq 1 .. Len(Ladder) /\ \A i \in hit : i =< Len(Ladder)
  BY BudgetConstants
<1>2. CASE hit = {}
  BY <1>2, BudgetConstants DEF Target
<1>3. CASE hit # {}
  <2>1. Max(hit) \in hit /\ \A y \in hit : Max(hit) >= y
    BY <1>1, <1>3, BudgetConstants, LargestExists, Zenon
  <2>2. \E i \in hit : \A j \in hit : j <= i
    BY <1>1, <2>1
  <2>3. Target(peak, eq) \in hit
    BY <1>3, <2>2 DEF Target
  <2> QED BY <1>1, <2>3
<1> QED BY <1>2, <1>3

LEMMA RungMeans ==
    ASSUME NEW level \in 0 .. Len(Ladder), NEW peak \in Nat, NEW eq \in Nat
    PROVE  /\ Rung(level, peak, eq) \in 0 .. Len(Ladder)
           /\ Rung(level, peak, eq) < level =>
                 (peak - eq) * 100 =< (Ladder[level] - Hysteresis) * peak
           /\ Rung(level, peak, eq) > level =>
                 Lost(peak, eq, Ladder[Rung(level, peak, eq)])
<1> DEFINE target == Target(peak, eq)
           clear  == (peak - eq) * 100 <= (Ladder[level] - Hysteresis) * peak
<1>1. Rung(level, peak, eq) = IF target >= level \/ clear THEN target ELSE level
  BY DEF Rung
<1>2. /\ target \in Int /\ level \in Int /\ level >= 0
      /\ target \in 0 .. Len(Ladder)
      /\ target > 0 => Lost(peak, eq, Ladder[target])
  <2>1. /\ target \in 0 .. Len(Ladder)
        /\ target > 0 => Lost(peak, eq, Ladder[target])
    BY TargetMeans, Zenon
  <2>2. target \in Int /\ level \in Int /\ level >= 0
    BY <2>1, BudgetConstants
  <2> QED BY <2>1, <2>2, Zenon
<1> HIDE DEF target
<1>3. CASE target >= level
  <2>1. Rung(level, peak, eq) = target
    BY <1>1, <1>3
  <2>2. target > level => target > 0
    BY <1>2
  <2>3. ~(target < level)
    BY <1>2, <1>3
  <2> QED BY <1>2, <2>1, <2>2, <2>3, Zenon
<1> HIDE DEF clear
<1>4. CASE ~(target >= level) /\ clear
  BY <1>1, <1>2, <1>4 DEF clear
<1>5. CASE ~(target >= level) /\ ~clear
  BY <1>1, <1>2, <1>5
<1> QED BY <1>3, <1>4, <1>5

\* Marking a bucket that has its mark, in a window already trimmed, changes nothing.
LEMMA MarkedAgain ==
    ASSUME NEW marks \in Marks, NEW t, NEW eq,
           t \in DOMAIN marks, \A s \in DOMAIN marks : s >= t - RollWindow
    PROVE  Marked(marks, t, eq) = marks
<1>1. PICK T \in SUBSET (0 .. RbHorizon) : marks \in [T -> RbLevels]
  BY DEF Marks
<1>2. {s \in DOMAIN marks \cup {t} : s >= t - RollWindow} = DOMAIN marks
  OBVIOUS
<1>3. Marked(marks, t, eq) = [s \in DOMAIN marks |-> marks[s]]
  BY <1>2 DEF Marked
<1> QED BY <1>1, <1>3

LEMMA MarkedMeans ==
    ASSUME NEW marks \in Marks, NEW t \in 0 .. RbHorizon, NEW eq \in RbLevels
    PROVE  /\ Marked(marks, t, eq) \in Marks
           /\ t \in DOMAIN Marked(marks, t, eq)
           /\ \A s \in DOMAIN Marked(marks, t, eq) : s >= t - RollWindow
<1>1. PICK T \in SUBSET (0 .. RbHorizon) : marks \in [T -> RbLevels]
  BY DEF Marks
<1> DEFINE D == {s \in DOMAIN marks \cup {t} : s >= t - RollWindow}
<1>2. D \in SUBSET (0 .. RbHorizon)
  BY <1>1
<1>3. t \in D
  BY BudgetConstants
<1>4. Marked(marks, t, eq) \in [D -> RbLevels]
  BY <1>1 DEF Marked
<1> HIDE DEF D
<1>5. Marked(marks, t, eq) \in Marks
  BY <1>2, <1>4 DEF Marks
<1> QED BY <1>3, <1>4, <1>5 DEF D

\* What the ghost remembers is what the code would mark.
LEMMA RememberIsMarked ==
    ASSUME RbTypes, NEW marks \in Marks
    PROVE  Remember(marks) = Marked(marks, now, acct.eq)
<1>1. PICK T \in SUBSET (0 .. RbHorizon) : marks \in [T -> RbLevels]
  BY DEF Marks
<1>2. now \in Int /\ DOMAIN marks \cup {now} \subseteq Int /\ RollWindow \in Int
  BY <1>1, BudgetConstants DEF RbTypes, RbTypeOK
<1>3. \A r \in DOMAIN marks \cup {now} : (now - r =< RollWindow) <=> (r >= now - RollWindow)
  BY <1>2
<1>4. {r \in DOMAIN marks \cup {now} : now - r =< RollWindow}
        = {r \in DOMAIN marks \cup {now} : r >= now - RollWindow}
  BY <1>3
<1> QED BY <1>4 DEF Remember, Marked

LEMMA RbInitially == RbInit => RbInv
<1> SUFFICES ASSUME RbInit PROVE RbInv
  OBVIOUS
<1>1. 0 \in 0 .. RbHorizon /\ VenueDay(0) = 0
  <2>1. (0 * DayLength) \div DayLength = 0 /\ 0 * DayLength = 0
    BY BudgetConstants, DivideExact
  <2> QED BY <2>1, BudgetConstants DEF VenueDay
<1>2. <<>> \in Marks
  <2>1. {} \in SUBSET (0 .. RbHorizon) /\ <<>> \in [{} -> RbLevels]
    OBVIOUS
  <2> QED BY <2>1 DEF Marks
<1>3. Fresh \in Counters
  <2>1. 0 \in 0 .. Len(Ladder) /\ 0 \in 0 .. EntriesPerDay + RbHorizon
    BY BudgetConstants
  <2>2. Never \in RbDays
    BY DEF RbDays
  <2> QED BY <1>2, <2>1, <2>2 DEF Fresh, Counters
<1>4. RbTypeOK
  <2>1. acct \in [eq : RbLevels, bal : RbLevels]
    BY DEF RbInit
  <2>2. now = 0 /\ running = FALSE /\ mem = Fresh /\ disk = Fresh
    BY DEF RbInit
  <2> QED BY <1>1, <1>3, <2>1, <2>2 DEF RbTypeOK
<1>5. ghost \in RbGhosts
  BY <1>2, BudgetConstants DEF RbInit, RbGhosts
<1>6. judged = -1 /\ now = 0 /\ running = FALSE
  BY DEF RbInit, Never
<1>7. RbTypes
  BY <1>4, <1>5, <1>6 DEF RbTypes
<1>8. CapInv
  BY <1>1, BudgetConstants DEF RbInit, CapInv, Counted, Fresh, Never
<1>9. JudgedInv /\ MarksInv /\ ReleasedInv
  BY <1>6 DEF RbInit, JudgedInv, MarksInv, ReleasedInv, Counted, Fresh
<1> QED BY <1>7, <1>8, <1>9 DEF RbInv

\* What a cycle leaves in memory.
LEMMA CycleMeans ==
    ASSUME RbTypes
    PROVE  /\ AfterCycle \in Counters
           /\ AfterCycle.day = VenueDay(now)
           /\ AfterCycle.trades = IF mem.day = VenueDay(now) THEN mem.trades ELSE 0
           /\ AfterCycle.peak \in Nat /\ acct.eq \in Nat
           /\ AfterCycle.rung = Rung(mem.rung, AfterCycle.peak, acct.eq)
           /\ AfterCycle.marks = Marked(mem.marks, now, acct.eq)
           /\ Rolled(mem, now, acct.eq) \in Counters
           /\ Rolled(mem, now, acct.eq).day = VenueDay(now)
           /\ Rolled(mem, now, acct.eq).trades = AfterCycle.trades
<1> DEFINE rolled == Rolled(mem, now, acct.eq)
           peak   == IF acct.bal > rolled.peak THEN acct.bal ELSE rolled.peak
           rung   == Rung(rolled.rung, peak, acct.eq)
           lock   == rolled.locked \/ Gained(DayBase(rolled, acct.eq), acct.eq, ProfitLock)
           marks  == Marked(rolled.marks, now, acct.eq)
<1>1. /\ mem \in Counters /\ now \in 0 .. RbHorizon /\ acct.eq \in RbLevels /\ acct.bal \in RbLevels
      /\ VenueDay(now) \in RbDays
  BY DayOf DEF RbTypes, RbTypeOK
<1>2. /\ rolled \in Counters /\ rolled.day = VenueDay(now) /\ rolled.peak = mem.peak
      /\ rolled.rung = mem.rung /\ rolled.marks = mem.marks
      /\ rolled.trades = IF mem.day = VenueDay(now) THEN mem.trades ELSE 0
  <2>1. 0 \in 0 .. EntriesPerDay + RbHorizon
    BY BudgetConstants
  <2> QED BY <1>1, <2>1 DEF Rolled, Counters
<1>3. AfterCycle = [rolled EXCEPT !.peak = peak, !.rung = rung, !.marks = marks, !.locked = lock]
  BY DEF AfterCycle
<1>4. peak \in RbLevels \cup {0} /\ peak \in Nat /\ acct.eq \in Nat /\ mem.rung \in 0 .. Len(Ladder)
  <2>1. rolled.peak \in RbLevels \cup {0} /\ mem.rung \in 0 .. Len(Ladder)
    BY <1>1, <1>2 DEF Counters
  <2>2. RbLevels \subseteq Nat
    BY BudgetConstants
  <2>3. peak \in {acct.bal, rolled.peak}
    OBVIOUS
  <2> HIDE DEF rolled, peak
  <2>4. peak \in RbLevels \cup {0}
    BY <1>1, <2>1, <2>3, Zenon
  <2>5. acct.eq \in Nat /\ 0 \in Nat
    BY <1>1, <2>2
  <2>6. peak \in Nat
    BY <2>2, <2>4, <2>5, Zenon
  <2> QED BY <2>1, <2>4, <2>5, <2>6, Zenon
<1>5. rung = Rung(mem.rung, peak, acct.eq) /\ rung \in 0 .. Len(Ladder)
  BY <1>2, <1>4, RungMeans, Zenon
<1>6. marks = Marked(mem.marks, now, acct.eq) /\ marks \in Marks
  <2>1. mem.marks \in Marks
    BY <1>1 DEF Counters
  <2> QED BY <1>1, <1>2, <2>1, MarkedMeans
<1>7. lock \in BOOLEAN
  <2>1. rolled.locked \in BOOLEAN
    BY <1>2 DEF Counters
  <2> QED BY <2>1
<1> HIDE DEF rolled, peak, rung, lock, marks
<1>8. /\ AfterCycle \in Counters /\ AfterCycle.day = rolled.day /\ AfterCycle.trades = rolled.trades
      /\ AfterCycle.peak = peak /\ AfterCycle.rung = rung /\ AfterCycle.marks = marks
  BY <1>2, <1>3, <1>4, <1>5, <1>6, <1>7 DEF Counters
<1> QED BY <1>2, <1>4, <1>5, <1>6, <1>8, Zenon DEF rolled

\* What it leaves on disk.
LEMMA SavedMeans ==
    ASSUME RbTypes, disk.day = mem.day, disk.trades = mem.trades
    PROVE  /\ SavedByCycle \in Counters
           /\ SavedByCycle.day = AfterCycle.day /\ SavedByCycle.trades = AfterCycle.trades
<1> DEFINE after  == AfterCycle
           rolled == Rolled(mem, now, acct.eq)
<1>1. /\ after \in Counters /\ rolled \in Counters /\ disk \in Counters /\ mem.marks \in Marks
      /\ after.day = VenueDay(now) /\ rolled.day = after.day /\ rolled.trades = after.trades
      /\ after.trades = IF mem.day = VenueDay(now) THEN mem.trades ELSE 0
  BY CycleMeans DEF RbTypes, RbTypeOK, Counters
<1>2. \/ SavedByCycle = after
      \/ SavedByCycle = [after EXCEPT !.marks = mem.marks]
      \/ SavedByCycle = rolled
      \/ SavedByCycle = disk /\ after.day = mem.day
  BY DEF SavedByCycle
<1> HIDE DEF after, rolled
<1> USE DEF after
<1>3. CASE SavedByCycle = after
  BY <1>1, <1>3
<1>4. CASE SavedByCycle = [after EXCEPT !.marks = mem.marks]
  BY <1>1, <1>4 DEF Counters
<1>5. CASE SavedByCycle = rolled
  BY <1>1, <1>5
<1>6. CASE SavedByCycle = disk /\ after.day = mem.day
  BY <1>1, <1>6
<1> QED BY <1>2, <1>3, <1>4, <1>5, <1>6

LEMMA CountMeans ==
    ASSUME RbTypes, mem.trades < EntriesPerDay, Count
    PROVE  /\ mem' \in Counters /\ disk' = mem' /\ mem'.day = mem.day
           /\ mem'.trades = mem.trades + 1 /\ mem'.trades =< EntriesPerDay
           /\ mem'.rung = mem.rung /\ mem'.marks = Marked(mem.marks, now, acct.eq)
<1>1. /\ mem \in Counters /\ mem.marks \in Marks /\ now \in 0 .. RbHorizon /\ acct.eq \in RbLevels
      /\ mem.trades \in 0 .. EntriesPerDay + RbHorizon
  BY DEF RbTypes, RbTypeOK, Counters
<1>2. Marked(mem.marks, now, acct.eq) \in Marks
  BY <1>1, MarkedMeans
<1>3. PICK n \in 0 .. EntriesPerDay + RbHorizon : n = mem.trades + 1 /\ n =< EntriesPerDay
  <2>1. EntriesPerDay \in Nat /\ RbHorizon \in Nat
    BY BudgetConstants
  <2> QED BY <1>1, <2>1
<1>4. mem' = [mem EXCEPT !.trades = n, !.marks = Marked(mem.marks, now, acct.eq)] /\ disk' = mem'
  BY <1>3 DEF Count
<1> QED BY <1>1, <1>2, <1>3, <1>4 DEF Counters

LEMMA MarketMovesKeeps ==
    ASSUME RbInv, NEW e \in RbLevels, NEW realise \in BOOLEAN, MarketMoves(e, realise)
    PROVE  RbInv'
<1>1. /\ now' = now + 1 /\ now' \in 0 .. RbHorizon /\ now \in 0 .. RbHorizon /\ now \in Int
      /\ UNCHANGED <<mem, disk, running, judged>>
  BY BudgetConstants DEF MarketMoves, RbInv, RbTypes, RbTypeOK
<1>2. acct' \in [eq : RbLevels, bal : RbLevels]
  BY DEF MarketMoves, RbInv, RbTypes, RbTypeOK
<1>3. VenueDay(now') \in Nat /\ VenueDay(now) \in Nat /\ VenueDay(now)' = VenueDay(now')
  BY <1>1, DayOf DEF VenueDay
<1>4. /\ ghost' \in RbGhosts /\ ghost'.day = VenueDay(now') /\ ghost'.seen = ghost.seen
      /\ ghost'.lost = ghost.lost /\ ghost'.released = ghost.released
      /\ VenueDay(now') = VenueDay(now) => ghost' = ghost
      /\ VenueDay(now') # VenueDay(now) => ghost'.placed = 0 /\ ghost'.ticketed = 0
  <2>1. ghost.day = VenueDay(now) /\ ghost \in RbGhosts
    BY DEF RbInv, RbTypes, CapInv
  <2>2. ghost' = IF VenueDay(now') = ghost.day THEN ghost
                 ELSE [ghost EXCEPT !.day = VenueDay(now'), !.placed = 0, !.ticketed = 0]
    BY <1>1 DEF MarketMoves
  <2> QED BY <1>3, <2>1, <2>2 DEF RbGhosts
<1>5. RbTypes'
  <2>1. judged' \in Int /\ judged' =< now'
    BY <1>1 DEF RbInv, RbTypes
  <2>2. RbTypeOK'
    BY <1>1, <1>2 DEF RbInv, RbTypes, RbTypeOK
  <2> QED BY <1>4, <2>1, <2>2 DEF RbTypes
<1>6. CapInv'
  <2>1. Counted' = Counted
    BY <1>1 DEF Counted
  <2>2. Counted.trades \in Nat
    BY BudgetConstants DEF RbInv, RbTypes, RbTypeOK, Counted, Counters
  <2>3. CASE VenueDay(now') = VenueDay(now)
    BY <1>1, <1>3, <1>4, <2>1, <2>3 DEF RbInv, CapInv
  <2>4. CASE VenueDay(now') # VenueDay(now)
    <3>1. ghost'.placed = 0 /\ ghost'.ticketed = 0
      BY <1>4, <2>4
    <3> QED BY <1>1, <1>3, <1>4, <2>1, <2>2, <3>1 DEF RbInv, CapInv
  <2> QED BY <2>3, <2>4
<1>7. JudgedInv'
  <2>1. judged' # now'
    BY <1>1 DEF RbInv, RbTypes
  <2> QED BY <2>1 DEF JudgedInv
<1>8. MarksInv' /\ ReleasedInv'
  BY <1>1, <1>4 DEF RbInv, MarksInv, ReleasedInv, Counted
<1> QED BY <1>5, <1>6, <1>7, <1>8 DEF RbInv

LEMMA RbStartKeeps == ASSUME RbInv, RbStart PROVE RbInv'
<1>1. /\ ~running /\ running' = TRUE /\ disk' = mem' /\ UNCHANGED <<now, acct, judged, ghost>>
      /\ mem' = [disk EXCEPT !.peak = IF @ > 0 THEN @ ELSE acct.bal,
                             !.dayStart = IF @ > 0 THEN @ ELSE acct.eq]
  BY DEF RbStart
<1>2. mem' \in Counters /\ mem'.day = disk.day /\ mem'.trades = disk.trades /\ mem'.marks = disk.marks
  BY <1>1 DEF RbInv, RbTypes, RbTypeOK, Counters
<1>3. RbTypes'
  BY <1>1, <1>2 DEF RbInv, RbTypes, RbTypeOK
<1>4. CapInv'
  <2>1. VenueDay(now)' = VenueDay(now)
    BY <1>1 DEF VenueDay
  <2> QED BY <1>1, <1>2, <2>1 DEF RbInv, CapInv, Counted
<1>5. JudgedInv'
  <2>1. judged # now
    BY <1>1 DEF RbInv, JudgedInv
  <2> QED BY <1>1, <2>1 DEF JudgedInv
<1>6. MarksInv' /\ ReleasedInv'
  BY <1>1, <1>2 DEF RbInv, MarksInv, ReleasedInv, Counted
<1> QED BY <1>3, <1>4, <1>5, <1>6 DEF RbInv

LEMMA RbCrashKeeps == ASSUME RbInv, RbCrash PROVE RbInv'
<1>1. /\ running /\ running' = FALSE /\ mem' = Fresh /\ judged' = Never
      /\ UNCHANGED <<now, acct, disk>>
  BY DEF RbCrash
<1>2. PICK l \in BOOLEAN : l = (ghost.lost \/ disk.marks # mem.marks)
  OBVIOUS
<1>3. ghost' = [ghost EXCEPT !.lost = l]
  BY <1>2 DEF RbCrash
<1>4. /\ ghost' \in RbGhosts /\ ghost'.placed = ghost.placed /\ ghost'.ticketed = ghost.ticketed
      /\ ghost'.day = ghost.day /\ ghost'.seen = ghost.seen /\ ghost'.lost = l
      /\ ghost'.released = ghost.released
  BY <1>3 DEF RbInv, RbTypes, RbGhosts
<1>5. Fresh \in Counters /\ Never = -1
  <2>1. 0 \in 0 .. Len(Ladder) /\ 0 \in 0 .. EntriesPerDay + RbHorizon /\ Never \in RbDays
    BY BudgetConstants DEF RbDays
  <2>2. {} \in SUBSET (0 .. RbHorizon) /\ <<>> \in [{} -> RbLevels]
    OBVIOUS
  <2> QED BY <2>1, <2>2 DEF Fresh, Counters, Marks, Never
<1>6. RbTypes' /\ judged' # now'
  <2>1. now \in Nat
    BY BudgetConstants DEF RbInv, RbTypes, RbTypeOK
  <2>2. judged' \in Int /\ judged' =< now' /\ judged' # now'
    BY <1>1, <1>5, <2>1
  <2>3. RbTypeOK'
    BY <1>1, <1>5 DEF RbInv, RbTypes, RbTypeOK
  <2> QED BY <1>4, <2>2, <2>3 DEF RbTypes
<1>7. CapInv'
  <2>1. VenueDay(now)' = VenueDay(now) /\ Counted = mem /\ Counted' = disk
    BY <1>1 DEF VenueDay, Counted
  <2> QED BY <1>1, <1>4, <2>1 DEF RbInv, CapInv
<1>8. JudgedInv'
  BY <1>6 DEF JudgedInv
<1>9. MarksInv'
  <2>1. ~l => ~ghost.lost /\ disk.marks = mem.marks
    BY <1>2
  <2> QED BY <1>1, <1>4, <2>1 DEF RbInv, MarksInv, Counted
<1>10. ReleasedInv'
  BY <1>4 DEF RbInv, ReleasedInv
<1> QED BY <1>6, <1>7, <1>8, <1>9, <1>10 DEF RbInv

\* What a cycle does to the ghost, and to the rung.
LEMMA CycleGhost ==
    ASSUME RbInv, RbCycle
    PROVE  /\ ghost' \in RbGhosts /\ ghost'.placed = ghost.placed
           /\ ghost'.ticketed = ghost.ticketed /\ ghost'.day = ghost.day
           /\ ghost'.seen = Marked(ghost.seen, now, acct.eq) /\ ghost'.lost = ghost.lost
           /\ mem'.rung >= mem.rung => ghost'.released = ghost.released
           /\ mem'.rung < mem.rung =>
                 ghost'.released = [from |-> mem.rung, eq |-> acct.eq, peak |-> mem'.peak]
<1>1. /\ mem' \in Counters /\ mem' = AfterCycle /\ mem'.peak \in Nat /\ acct.eq \in Nat
      /\ mem.rung \in 0 .. Len(Ladder) /\ mem'.rung \in 0 .. Len(Ladder)
  BY CycleMeans DEF RbInv, RbTypes, RbTypeOK, RbCycle, Counters
<1>2. ghost.seen \in Marks /\ ghost \in RbGhosts /\ now \in 0 .. RbHorizon /\ acct.eq \in RbLevels
  BY DEF RbInv, RbTypes, RbTypeOK, RbGhosts
<1>3. Remember(ghost.seen) = Marked(ghost.seen, now, acct.eq) /\ Remember(ghost.seen) \in Marks
  BY <1>2, RememberIsMarked, MarkedMeans DEF RbInv
<1> DEFINE rel == IF mem'.rung < mem.rung
                  THEN [from |-> mem.rung, eq |-> acct.eq, peak |-> mem'.peak]
                  ELSE ghost.released
<1>4. rel \in [from : 0 .. Len(Ladder), eq : Nat, peak : Nat]
  BY <1>1, <1>2 DEF RbGhosts
<1>5. ghost' = [ghost EXCEPT !.seen = Remember(ghost.seen), !.released = rel]
  BY DEF RbCycle
<1>6. /\ mem'.rung >= mem.rung => rel = ghost.released
      /\ mem'.rung < mem.rung => rel = [from |-> mem.rung, eq |-> acct.eq, peak |-> mem'.peak]
  <2>1. mem'.rung \in Int /\ mem.rung \in Int
    BY <1>1, BudgetConstants
  <2>2. mem'.rung >= mem.rung => ~(mem'.rung < mem.rung)
    BY <2>1
  <2> QED BY <2>2, Zenon
<1> HIDE DEF rel
<1>7. /\ ghost' \in RbGhosts /\ ghost'.placed = ghost.placed /\ ghost'.ticketed = ghost.ticketed
      /\ ghost'.day = ghost.day /\ ghost'.seen = Remember(ghost.seen)
      /\ ghost'.lost = ghost.lost /\ ghost'.released = rel
  BY <1>2, <1>3, <1>4, <1>5 DEF RbGhosts
<1> QED BY <1>3, <1>6, <1>7, Zenon

LEMMA RbCycleKeeps == ASSUME RbInv, RbCycle PROVE RbInv'
<1>1. /\ running /\ judged' = now /\ mem' = AfterCycle /\ disk' = SavedByCycle
      /\ UNCHANGED <<now, acct, running>>
  BY DEF RbCycle
<1>2. /\ mem' \in Counters /\ mem'.day = VenueDay(now)
      /\ mem'.trades = (IF mem.day = VenueDay(now) THEN mem.trades ELSE 0)
      /\ mem'.peak \in Nat /\ acct.eq \in Nat
      /\ mem'.rung = Rung(mem.rung, mem'.peak, acct.eq)
      /\ mem'.marks = Marked(mem.marks, now, acct.eq)
  BY <1>1, CycleMeans DEF RbInv
<1>3. disk' \in Counters /\ disk'.day = mem'.day /\ disk'.trades = mem'.trades
  BY <1>1, SavedMeans DEF RbInv, CapInv
<1>4. VenueDay(now)' = VenueDay(now)
  BY <1>1 DEF VenueDay
<1>5. RbTypes'
  <2>1. now \in Int /\ now =< now
    BY BudgetConstants DEF RbInv, RbTypes, RbTypeOK
  <2> QED BY <1>1, <1>2, <1>3, <2>1, CycleGhost DEF RbInv, RbTypes, RbTypeOK
<1>6. CapInv'
  <2>1. Counted = mem /\ Counted' = mem' /\ mem.trades \in Nat /\ EntriesPerDay \in Nat
    BY <1>1, BudgetConstants DEF Counted, RbInv, RbTypes, RbTypeOK, Counters
  <2>2. ghost.placed \in Nat /\ ghost.ticketed \in Nat
    BY DEF RbInv, RbTypes, RbGhosts
  <2>3. ghost'.placed = ghost.placed /\ ghost'.ticketed = ghost.ticketed /\ ghost'.day = ghost.day
    BY CycleGhost
  <2> QED BY <1>1, <1>2, <1>3, <1>4, <2>1, <2>2, <2>3 DEF RbInv, CapInv
<1>7. JudgedInv'
  <2>1. mem.marks \in Marks /\ now \in 0 .. RbHorizon /\ acct.eq \in RbLevels
    BY DEF RbInv, RbTypes, RbTypeOK, Counters
  <2>2. now \in DOMAIN mem'.marks /\ \A s \in DOMAIN mem'.marks : s >= now - RollWindow
    BY <1>2, <2>1, MarkedMeans
  <2> QED BY <1>1, <1>2, <1>4, <2>2 DEF JudgedInv
<1>8. MarksInv'
  <2>1. ghost'.seen = Marked(ghost.seen, now, acct.eq) /\ ghost'.lost = ghost.lost
    BY CycleGhost
  <2> QED BY <1>1, <1>2, <2>1 DEF RbInv, MarksInv, Counted
<1>9. ReleasedInv'
  <2>1. mem.rung \in 0 .. Len(Ladder) /\ mem'.rung \in 0 .. Len(Ladder)
    BY <1>2 DEF RbInv, RbTypes, RbTypeOK, Counters
  <2>2. CASE mem'.rung >= mem.rung
    <3>1. ghost'.released = ghost.released
      BY <2>2, CycleGhost
    <3> QED BY <3>1 DEF RbInv, ReleasedInv
  <2>3. CASE mem'.rung < mem.rung
    <3>1. ghost'.released = [from |-> mem.rung, eq |-> acct.eq, peak |-> mem'.peak]
      BY <2>3, CycleGhost
    <3>2. (mem'.peak - acct.eq) * 100 =< (Ladder[mem.rung] - Hysteresis) * mem'.peak
      BY <1>2, <2>1, <2>3, RungMeans, Zenon
    <3> QED BY <3>1, <3>2 DEF ReleasedInv
  <2>4. mem'.rung >= mem.rung \/ mem'.rung < mem.rung
    BY <2>1, BudgetConstants
  <2> QED BY <2>2, <2>3, <2>4
<1> QED BY <1>5, <1>6, <1>7, <1>8, <1>9 DEF RbInv

LEMMA RbEnterKeeps == ASSUME RbInv, RbEnter PROVE RbInv'
<1>1. /\ running /\ judged = now /\ mem.trades < EntriesPerDay /\ Count
      /\ UNCHANGED <<now, acct, running, judged>>
  BY DEF RbEnter, WithinBudget
<1>2. /\ mem' \in Counters /\ disk' = mem' /\ mem'.day = mem.day
      /\ mem'.trades = mem.trades + 1 /\ mem'.trades =< EntriesPerDay
      /\ mem'.marks = Marked(mem.marks, now, acct.eq)
  BY <1>1, CountMeans DEF RbInv
<1>3. mem.marks \in Marks /\ ghost.placed \in Nat /\ ghost.ticketed \in Nat /\ mem.trades \in Nat
  BY BudgetConstants DEF RbInv, RbTypes, RbTypeOK, Counters, RbGhosts
<1>4. mem'.marks = mem.marks
  BY <1>1, <1>2, <1>3, MarkedAgain DEF RbInv, JudgedInv
<1>5. PICK p \in Nat : p = ghost.placed + 1
  BY <1>3
<1>6. /\ ghost' \in RbGhosts /\ ghost'.placed = p /\ ghost'.ticketed = ghost.ticketed
      /\ ghost'.day = ghost.day /\ ghost'.seen = ghost.seen /\ ghost'.lost = ghost.lost
      /\ ghost'.released = ghost.released
  <2>1. ghost' = [ghost EXCEPT !.placed = p]
    BY <1>5 DEF RbEnter
  <2> QED BY <2>1 DEF RbInv, RbTypes, RbGhosts
<1>7. VenueDay(now)' = VenueDay(now) /\ mem.day = VenueDay(now)
  BY <1>1 DEF VenueDay, RbInv, JudgedInv
<1>8. RbTypes'
  BY <1>1, <1>2, <1>6 DEF RbInv, RbTypes, RbTypeOK
<1>9. CapInv'
  <2>1. Counted = mem /\ Counted' = mem'
    BY <1>1 DEF Counted
  <2>2. ghost.placed =< mem.trades + ghost.ticketed /\ ghost.day = VenueDay(now)
    BY <1>7, <2>1 DEF RbInv, CapInv
  <2>3. p =< mem'.trades + ghost.ticketed
    BY <1>2, <1>3, <1>5, <2>2
  <2> QED BY <1>1, <1>2, <1>6, <1>7, <2>1, <2>2, <2>3 DEF CapInv
<1>10. JudgedInv'
  BY <1>1, <1>2, <1>4, <1>7 DEF RbInv, JudgedInv
<1>11. MarksInv' /\ ReleasedInv'
  BY <1>1, <1>4, <1>6 DEF RbInv, MarksInv, ReleasedInv, Counted
<1> QED BY <1>8, <1>9, <1>10, <1>11 DEF RbInv

LEMMA RbTicketKeeps == ASSUME RbInv, RbTicket PROVE RbInv'
<1>1. running /\ Count /\ UNCHANGED <<now, acct, running, judged>>
  BY DEF RbTicket
<1>2. mem.trades < EntriesPerDay
  <2>1. [mem EXCEPT !.marks = Marked(@, now, acct.eq)].trades < EntriesPerDay
    BY DEF RbTicket, WithinBudget
  <2> QED BY <2>1 DEF RbInv, RbTypes, RbTypeOK, Counters
<1>3. /\ mem' \in Counters /\ disk' = mem' /\ mem'.day = mem.day
      /\ mem'.trades = mem.trades + 1 /\ mem'.trades =< EntriesPerDay
      /\ mem'.marks = Marked(mem.marks, now, acct.eq)
  BY <1>1, <1>2, CountMeans DEF RbInv
<1>4. /\ mem.marks \in Marks /\ ghost.placed \in Nat /\ ghost.ticketed \in Nat
      /\ mem.trades \in Nat /\ ghost.seen \in Marks
  BY BudgetConstants DEF RbInv, RbTypes, RbTypeOK, Counters, RbGhosts
<1>5. PICK p \in Nat, t \in Nat :
          /\ p = ghost.placed + 1
          /\ t = IF mem.day # VenueDay(now) THEN ghost.ticketed + 1 ELSE ghost.ticketed
  BY <1>4
<1>6. now \in 0 .. RbHorizon /\ acct.eq \in RbLevels
  BY DEF RbInv, RbTypes, RbTypeOK
<1>7. Remember(ghost.seen) = Marked(ghost.seen, now, acct.eq) /\ Remember(ghost.seen) \in Marks
  BY <1>4, <1>6, RememberIsMarked, MarkedMeans DEF RbInv
<1>8. /\ ghost' \in RbGhosts /\ ghost'.placed = p /\ ghost'.ticketed = t
      /\ ghost'.day = ghost.day /\ ghost'.seen = Remember(ghost.seen)
      /\ ghost'.lost = ghost.lost /\ ghost'.released = ghost.released
  <2>1. ghost' = [ghost EXCEPT !.placed = p, !.seen = Remember(ghost.seen), !.ticketed = t]
    BY <1>5 DEF RbTicket
  <2> QED BY <1>7, <2>1 DEF RbInv, RbTypes, RbGhosts
<1>9. VenueDay(now)' = VenueDay(now)
  BY <1>1 DEF VenueDay
<1>10. RbTypes'
  BY <1>1, <1>3, <1>8 DEF RbInv, RbTypes, RbTypeOK
<1>11. CapInv'
  <2>1. Counted = mem /\ Counted' = mem'
    BY <1>1 DEF Counted
  <2>2. /\ mem.day = VenueDay(now) => ghost.placed =< mem.trades + ghost.ticketed
        /\ mem.day # VenueDay(now) => ghost.placed =< ghost.ticketed
        /\ ghost.day = VenueDay(now)
    BY <2>1 DEF RbInv, CapInv
  <2>3. /\ mem.day = VenueDay(now) => p =< mem'.trades + t
        /\ mem.day # VenueDay(now) => p =< t
    BY <1>3, <1>4, <1>5, <2>2
  <2> QED BY <1>1, <1>3, <1>8, <1>9, <2>1, <2>2, <2>3 DEF CapInv
<1>12. JudgedInv'
  <2>1. now \in DOMAIN mem'.marks /\ \A s \in DOMAIN mem'.marks : s >= now - RollWindow
    BY <1>3, <1>4, <1>6, MarkedMeans
  <2> QED BY <1>1, <1>3, <1>9, <2>1 DEF RbInv, JudgedInv
<1>13. MarksInv' /\ ReleasedInv'
  BY <1>1, <1>3, <1>7, <1>8 DEF RbInv, MarksInv, ReleasedInv, Counted
<1> QED BY <1>10, <1>11, <1>12, <1>13 DEF RbInv

LEMMA RbInductive == RbInv /\ [RbNext]_rbVars => RbInv'
<1> SUFFICES ASSUME RbInv, [RbNext]_rbVars PROVE RbInv'
  OBVIOUS
<1>1. CASE UNCHANGED rbVars
  <2>1. RbTypes' /\ JudgedInv'
    BY <1>1 DEF rbVars, RbInv, RbTypes, RbTypeOK, JudgedInv, VenueDay
  <2>2. CapInv' /\ MarksInv' /\ ReleasedInv'
    BY <1>1 DEF rbVars, RbInv, CapInv, MarksInv, ReleasedInv, Counted, VenueDay
  <2> QED BY <2>1, <2>2 DEF RbInv
<1> QED BY <1>1, MarketMovesKeeps, RbStartKeeps, RbCrashKeeps, RbCycleKeeps, RbEnterKeeps, RbTicketKeeps
     DEF RbNext

LEMMA BudgetNotGrantedTwice == RbInv => NoSecondBudget
<1> SUFFICES ASSUME RbInv, RbEnter, ~ghost.lost, DOMAIN ghost.seen # {}
             PROVE  ~ (acct.eq < Oldest(ghost.seen)
                         /\ Lost(Oldest(ghost.seen), acct.eq, RollingLoss))
  BY DEF NoSecondBudget
<1>1. mem.marks = ghost.seen
  BY DEF RbInv, MarksInv, Counted, RbEnter
<1> QED BY <1>1, Zenon DEF RbEnter, WithinBudget

\* A drawdown that reaches a threshold has left the band below it.
LEMMA BandIsCrossed ==
    ASSUME NEW p \in Nat, NEW e \in Nat, NEW q \in Nat, NEW a \in Nat, NEW b \in Nat, NEW h \in Nat,
           b =< a, (p - e) * 100 >= a * p, (p - q) * 100 =< (b - h) * p
    PROVE  (q - e) * 100 >= h * p
<1>1. p * b =< p * a
  BY TimesMonotone
<1>2. (b - h) * p = p * b - h * p /\ a * p = p * a /\ h * p \in Int /\ p * a \in Int /\ p * b \in Int
  OBVIOUS
<1> QED BY <1>1, <1>2

LEMMA LadderHasABand == RbInv => LadderDoesNotFlicker
<1> SUFFICES ASSUME RbInv, RbCycle, mem'.rung > mem.rung, ghost.released.from > 0,
                    mem'.rung >= ghost.released.from, mem'.peak = ghost.released.peak
             PROVE  (ghost.released.eq - acct.eq) * 100 >= Hysteresis * mem'.peak
  BY DEF LadderDoesNotFlicker
<1> DEFINE from == ghost.released.from
           rung == mem'.rung
<1>1. /\ mem' = AfterCycle /\ mem' \in Counters /\ mem'.peak \in Nat /\ acct.eq \in Nat
      /\ mem'.rung = Rung(mem.rung, mem'.peak, acct.eq)
      /\ mem.rung \in 0 .. Len(Ladder) /\ mem'.rung \in 0 .. Len(Ladder)
  BY CycleMeans DEF RbInv, RbTypes, RbTypeOK, RbCycle, Counters
<1>2. Lost(mem'.peak, acct.eq, Ladder[rung])
  BY <1>1, RungMeans, Zenon
<1>3. from \in 0 .. Len(Ladder) /\ ghost.released.eq \in Nat
  BY DEF RbInv, RbTypes, RbGhosts
<1>4. from \in 1 .. Len(Ladder) /\ rung \in 1 .. Len(Ladder)
  BY <1>1, <1>3, BudgetConstants
<1>5. Ladder[from] \in Nat /\ Ladder[rung] \in Nat /\ from \in DOMAIN Ladder /\ rung \in DOMAIN Ladder
  BY <1>4, BudgetConstants
<1>6. Ladder[from] =< Ladder[rung]
  <2>1. from < rung => Ladder[from] < Ladder[rung]
    BY <1>5, BudgetConstants, Zenon
  <2>2. from < rung \/ from = rung
    BY <1>1, <1>3
  <2> HIDE DEF from, rung
  <2> QED BY <1>5, <2>1, <2>2
<1>7. (mem'.peak - ghost.released.eq) * 100 =< (Ladder[from] - Hysteresis) * mem'.peak
  BY DEF RbInv, ReleasedInv
<1>8. (mem'.peak - acct.eq) * 100 >= Ladder[rung] * mem'.peak
  BY <1>2 DEF Lost
<1>9. Hysteresis \in Nat
  BY BudgetConstants
<1> HIDE DEF from, rung
<1>10. PICK p \in Nat, e \in Nat, q \in Nat, a \in Nat, b \in Nat, h \in Nat :
          /\ p = mem'.peak /\ e = acct.eq /\ q = ghost.released.eq
          /\ a = Ladder[rung] /\ b = Ladder[from] /\ h = Hysteresis
  BY <1>1, <1>3, <1>5, <1>9, Zenon
<1>11. b =< a /\ (p - e) * 100 >= a * p /\ (p - q) * 100 =< (b - h) * p
  BY <1>6, <1>7, <1>8, <1>10, Zenon DEF from
<1>12. (q - e) * 100 >= h * p
  BY <1>11, BandIsCrossed
<1> QED BY <1>10, <1>12, Zenon

\* For any levels, windows, limits and ladder, over days, restarts, crashes and
\* tickets: no entry while equity has fallen by the rolling limit since the
\* oldest cycle of the window, no rung taken again inside its band, and no more
\* entries of one day than the cap and the tickets before its first cycle
\* (_roll_periods, _build_context, _rolling_24h_pnl, evaluate_entry).
THEOREM BudgetsAreKept == MCMarketSpec => BudgetsHold
<1> DEFINE Kept == NoSecondBudget /\ LadderDoesNotFlicker /\ RbTypeOK' /\ DayCapHolds'
<1>1. MCMarketInit => RbInv
  BY RbInitially DEF MCMarketInit
<1>2. RbInv /\ [MCMarketNext]_allVars => RbInv'
  BY MarketSteps, RbInductive
<1>3. RbInv => RbTypeOK /\ DayCapHolds
  <2> SUFFICES ASSUME RbInv PROVE RbTypeOK /\ DayCapHolds
    OBVIOUS
  <2>1. Counted.trades \in Nat /\ ghost.placed \in Nat /\ ghost.ticketed \in Nat /\ EntriesPerDay \in Nat
    BY BudgetConstants DEF Counted, RbInv, RbTypes, RbTypeOK, Counters, RbGhosts
  <2>2. DayCapHolds
    BY <2>1 DEF RbInv, CapInv, DayCapHolds
  <2> QED BY <2>2 DEF RbInv, RbTypes
<1>4. RbInv /\ RbInv' => [Kept]_rbVars
  <2> SUFFICES ASSUME RbInv, RbInv' PROVE Kept
    OBVIOUS
  <2>1. RbTypeOK' /\ DayCapHolds'
    BY <1>3, PTL
  <2> QED BY <2>1, BudgetNotGrantedTwice, LadderHasABand
<1> QED BY <1>1, <1>2, <1>4, PTL DEF MCMarketSpec, BudgetsHold

-----------------------------------------------------------------------------
(* The owner's accounts together. A view without an unknown member sums    *)
(* every row on file; when those rows are the risks the engines carry, an  *)
(* entry it allows leaves the whole group under the ceiling.               *)

GroupInv ==
    /\ committed \in [Engines -> Nat] /\ raced \in BOOLEAN
    /\ \A e \in Engines : view[e].unknown = {} => view[e].others = view[e].written
    /\ DOMAIN view = Engines
    /\ ~raced => Total(committed, Engines) =< GroupLimit

LEMMA GroupConstants == IsFiniteSet(Engines) /\ GroupLimit \in Nat
  BY GroupRiskAssumption

LEMMA GroupInitially == GrInit => GroupInv
<1> SUFFICES ASSUME GrInit PROVE GroupInv
  OBVIOUS
<1>1. committed = [e \in Engines |-> 0] /\ raced = FALSE /\ view = [e \in Engines |-> NoView]
  BY DEF GrInit
<1>2. \A e \in Engines : committed[e] \in Int /\ committed[e] =< 0
  BY <1>1
<1>3. Total(committed, Engines) =< Cardinality(Engines) * 0
  BY <1>2, GroupConstants, TotalBounded
<1>4. Cardinality(Engines) \in Nat
  BY GroupConstants, FS_CardinalityType
<1>5. Total(committed, Engines) \in Int
  BY <1>2, GroupConstants, TotalIsInteger
<1>6. ~raced => Total(committed, Engines) =< GroupLimit
  BY <1>3, <1>4, <1>5, GroupConstants
<1>7. \A e \in Engines : view[e].unknown # {}
  BY <1>1 DEF NoView
<1>8. committed \in [Engines -> Nat] /\ raced \in BOOLEAN /\ DOMAIN view = Engines
  BY <1>1
<1> QED BY <1>6, <1>7, <1>8 DEF GroupInv

\* A risk that changes by some amount changes the group's by as much.
LEMMA OneEngineMoves ==
    ASSUME NEW old \in [Engines -> Nat], NEW e \in Engines, NEW amount \in Nat
    PROVE  LET new == [old EXCEPT ![e] = amount]
           IN  /\ Total(new, Engines) = amount + Total(old, Engines \ {e})
               /\ Total(old, Engines) = old[e] + Total(old, Engines \ {e})
               /\ Total(old, Engines \ {e}) \in Nat
<1> DEFINE new == [old EXCEPT ![e] = amount]
<1>1. /\ new \in [Engines -> Nat] /\ new[e] = amount
      /\ \A o \in Engines \ {e} : old[o] \in Int /\ old[o] = new[o]
  OBVIOUS
<1>2. \A o \in Engines : old[o] \in Int
  OBVIOUS
<1>3. \A o \in Engines : new[o] \in Int
  BY <1>1
<1> HIDE DEF new
<1>4. Total(old, Engines) = old[e] + Total(old, Engines \ {e})
  BY <1>2, GroupConstants, TotalRemove
<1>5. Total(new, Engines) = new[e] + Total(new, Engines \ {e})
  BY <1>3, GroupConstants, TotalRemove
<1>6. IsFiniteSet(Engines \ {e})
  BY GroupConstants, FS_Difference
<1>7. Total(old, Engines \ {e}) = Total(new, Engines \ {e})
  BY <1>1, <1>6, TotalSame
<1>8. \A o \in Engines \ {e} : old[o] \in Nat
  OBVIOUS
<1>9. Total(old, Engines \ {e}) \in Nat
  BY <1>6, <1>8, TotalIsNatural
<1>10. /\ Total(new, Engines) = amount + Total(old, Engines \ {e})
       /\ Total(old, Engines) = old[e] + Total(old, Engines \ {e})
       /\ Total(old, Engines \ {e}) \in Nat
  BY <1>1, <1>4, <1>5, <1>7, <1>9
<1> QED BY <1>10 DEF new

LEMMA GroupInductive == GroupInv /\ [GrNext]_grVars => GroupInv'
<1> SUFFICES ASSUME GroupInv, [GrNext]_grVars PROVE GroupInv'
  OBVIOUS
<1>1. CASE GrTick \/ UNCHANGED grVars
  BY <1>1 DEF GrTick, grVars, GroupInv
<1>2. ASSUME NEW e \in Engines, PublishAndLook(e) \/ LedgerFails(e) \/ GrRestart(e) PROVE GroupInv'
  <2>1. UNCHANGED <<committed, raced>>
    BY <1>2 DEF PublishAndLook, LedgerFails, GrRestart
  <2>2. PICK looked : /\ view' = [view EXCEPT ![e] = looked]
                      /\ looked.unknown = {} => looked.others = looked.written
    <3>1. CASE PublishAndLook(e)
      <4>1. view' = [view EXCEPT ![e] = Look(e)]
        BY <3>1 DEF PublishAndLook
      <4>2. Look(e).unknown = {} => Look(e).others = Look(e).written
        <5>1. Look(e).unknown = StaleRows(e) /\ Look(e).written = OnFile(e)
              /\ Look(e).others = MapThenSumSet(LAMBDA o : row[o].risk, Peers(e) \ StaleRows(e))
          BY DEF Look
        <5>2. StaleRows(e) = {} => Peers(e) \ StaleRows(e) = Peers(e)
          OBVIOUS
        <5> QED BY <5>1, <5>2 DEF OnFile
      <4> QED BY <4>1, <4>2
    <3>2. CASE LedgerFails(e)
      <4>1. view' = [view EXCEPT ![e] = [others |-> 0, unknown |-> {"ledger"}, written |-> 0]]
        BY <3>2 DEF LedgerFails
      <4>2. [others |-> 0, unknown |-> {"ledger"}, written |-> 0].unknown # {}
        OBVIOUS
      <4> QED BY <4>1, <4>2, Zenon
    <3>3. CASE GrRestart(e)
      <4>1. view' = [view EXCEPT ![e] = NoView]
        BY <3>3 DEF GrRestart
      <4>2. NoView.unknown # {}
        BY DEF NoView
      <4> QED BY <4>1, <4>2, Zenon
    <3> QED BY <1>2, <3>1, <3>2, <3>3
  <2>3. DOMAIN view' = Engines /\ \A o \in Engines : view'[o].unknown = {} => view'[o].others = view'[o].written
    <3>1. DOMAIN view = Engines /\ \A o \in Engines : view[o].unknown = {} => view[o].others = view[o].written
      BY DEF GroupInv
    <3>2. DOMAIN view' = Engines /\ view'[e] = looked /\ \A o \in Engines \ {e} : view'[o] = view[o]
      BY <2>2, <3>1
    <3> QED BY <2>2, <3>1, <3>2
  <2> QED BY <2>1, <2>3 DEF GroupInv
<1>3. ASSUME NEW e \in Engines, GrClose(e) PROVE GroupInv'
  <2>1. /\ committed[e] > 0 /\ committed' = [committed EXCEPT ![e] = committed[e] - 1]
        /\ UNCHANGED <<view, raced>> /\ committed \in [Engines -> Nat]
    BY <1>3 DEF GrClose, GroupInv
  <2>2. committed[e] \in Nat /\ committed[e] - 1 \in Nat
    BY <2>1
  <2>3. /\ Total(committed', Engines) = (committed[e] - 1) + Total(committed, Engines \ {e})
        /\ Total(committed, Engines) = committed[e] + Total(committed, Engines \ {e})
        /\ Total(committed, Engines \ {e}) \in Nat
    BY <2>1, <2>2, OneEngineMoves
  <2>4. ~raced => Total(committed, Engines) =< GroupLimit
    BY DEF GroupInv
  <2>5. ~raced' => Total(committed', Engines) =< GroupLimit
    BY <2>1, <2>2, <2>3, <2>4, GroupConstants
  <2>6. committed' \in [Engines -> Nat]
    BY <2>1, <2>2
  <2> QED BY <2>1, <2>5, <2>6 DEF GroupInv
<1>4. ASSUME NEW e \in Engines, NEW r \in 1 .. 2, GrEnter(e, r) PROVE GroupInv'
  <2>1. /\ view[e].unknown = {} /\ committed[e] + r + view[e].others <= GroupLimit
        /\ committed' = [committed EXCEPT ![e] = committed[e] + r]
        /\ raced' = (raced \/ view[e].written # Total(committed, Engines \ {e}))
        /\ view' = view /\ committed \in [Engines -> Nat]
    BY <1>4 DEF GrEnter, GroupAllows, GroupInv, Total
  <2>2. committed[e] + r \in Nat /\ committed[e] \in Nat
    BY <2>1
  <2>3. /\ Total(committed', Engines) = (committed[e] + r) + Total(committed, Engines \ {e})
        /\ Total(committed, Engines \ {e}) \in Nat
    BY <2>1, <2>2, OneEngineMoves
  <2>4. view[e].others = view[e].written
    BY <2>1 DEF GroupInv
  <2>5. ~raced' => Total(committed', Engines) =< GroupLimit
    BY <2>1, <2>2, <2>3, <2>4, GroupConstants
  <2>6. committed' \in [Engines -> Nat] /\ raced' \in BOOLEAN
    BY <2>1, <2>2 DEF GroupInv
  <2> QED BY <2>1, <2>5, <2>6 DEF GroupInv
<1> QED BY <1>1, <1>2, <1>3, <1>4 DEF GrNext

-----------------------------------------------------------------------------
(* The gate of the risk engine. A position never carries more than one     *)
(* trade's full budget, so charging that for each position without a       *)
(* record covers the true book; the gap budget is checked on the size that *)
(* it shrank; and the net of a currency is its long less its short legs.   *)

FullBudget == (AccountEquity * RiskPerTrade) \div 100

Positions ==
    {p \in [inst : Pairs, side : Sides, lots : Nat, risk : Nat, known : BOOLEAN, stopped : BOOLEAN] :
        p.risk =< FullBudget}

GateInv ==
    /\ IsFiniteSet(held) /\ held \subseteq Positions
    /\ ruling.approved => ruling.position \in Positions
    /\ HaltNeverHidden /\ TrueRiskBounded /\ GapSurvivable
    /\ OneBetOneCeiling /\ RiskWithinBudget

LEMMA GateConstants ==
    /\ AccountEquity \in Nat /\ RiskPerTrade \in Nat /\ StressLimit \in Nat /\ MaxTotal \in Nat
    /\ MaxCurrency \in Nat /\ MaxLots \in Nat
    /\ \A stop \in Stops : stop \in Nat /\ stop >= 1
    /\ \A i \in Pairs : /\ GapLoss[i] \in Nat /\ GapLoss[i] >= 1
                        /\ BaseCurrency[i] # QuoteCurrency[i]
<1>1. /\ AccountEquity \in Nat /\ RiskPerTrade \in Nat /\ StressLimit \in Nat /\ MaxTotal \in Nat
      /\ MaxCurrency \in Nat /\ MaxLots \in Nat
  BY RiskGateAssumption
<1>2. \A stop \in Stops : stop \in Nat /\ stop >= 1
  BY RiskGateAssumption
<1>3. \A i \in Pairs : GapLoss[i] \in Nat \ {0} /\ BaseCurrency[i] # QuoteCurrency[i]
  BY RiskGateAssumption
<1> QED BY <1>1, <1>2, <1>3

\* Arithmetic of rounding down.
LEMMA RoundedDown ==
    ASSUME NEW a \in Nat, NEW b \in Nat, b >= 1
    PROVE  /\ a \div b \in Nat
           /\ \A n \in Nat : n =< a \div b => n * b =< a
<1>1. a \div b \in Nat /\ (a \div b) * b =< a
  OBVIOUS
<1>2. PICK q \in Nat : q = a \div b
  BY <1>1
<1>3. \A n \in Nat : n =< q => n * b =< q * b
  OBVIOUS
<1>4. \A n \in Nat : n * b \in Nat
  OBVIOUS
<1> QED BY <1>1, <1>2, <1>3, <1>4

LEMMA HalvesOfABudget ==
    ASSUME NEW a \in Nat, NEW mult \in 0 .. 2, NEW r \in Int, 2 * r =< (a * mult) \div 100
    PROVE  r =< a \div 100
<1>1. CASE mult = 0
  BY <1>1
<1>2. CASE mult = 1
  BY <1>2
<1>3. CASE mult = 2
  BY <1>3
<1> QED BY <1>1, <1>2, <1>3

LEMMA Products == \A m, n \in Nat : m * n \in Nat
  OBVIOUS

(* The sums of the model are those of functions. *)

LEMMA StressIsTotal ==
    ASSUME NEW f, NEW S, IsFiniteSet(S), \A p \in S : f[p] = GapLoss[p.inst] * p.lots
    PROVE  BookStress(S) = Total(f, S)
<1> DEFINE Fold(g) == g = [s \in SUBSET S |-> IF s = {} THEN 0
                               ELSE GapLoss[Pick(s).inst] * Pick(s).lots + g[s \ {Pick(s)}]]
<1>1. BookStress(S) = (CHOOSE g : Fold(g))[S]
  BY DEF BookStress, MapThenSumSet, MapThenFoldSet, Pick
<1>2. \A g : Fold(g) <=> IsFold(f, g, SUBSET S)
  <2> TAKE g
  <2>1. \A s \in SUBSET S : s # {} => f[Pick(s)] = GapLoss[Pick(s).inst] * Pick(s).lots
    BY PickIsElement
  <2>2. \A s \in SUBSET S : Unfolded(f, g, s) = IF s = {} THEN 0
                               ELSE GapLoss[Pick(s).inst] * Pick(s).lots + g[s \ {Pick(s)}]
    BY <2>1 DEF Unfolded
  <2> QED BY <2>2 DEF IsFold
<1> HIDE DEF Fold
<1>3. PICK h : h = (CHOOSE g : Fold(g))
  OBVIOUS
<1>4. IsFold(f, h, SUBSET S)
  BY <1>2, <1>3, FoldExists
<1>5. Total(f, S) = h[S]
  BY <1>4, TotalIsUnfolded
<1> QED BY <1>1, <1>3, <1>5

LEMMA RiskIsTotal ==
    ASSUME NEW f, NEW S, IsFiniteSet(S), \A p \in S : f[p] = p.risk
    PROVE  MapThenSumSet(LAMBDA p : p.risk, S) = Total(f, S)
<1> DEFINE Fold(g) == g = [s \in SUBSET S |-> IF s = {} THEN 0
                               ELSE Pick(s).risk + g[s \ {Pick(s)}]]
<1>1. MapThenSumSet(LAMBDA p : p.risk, S) = (CHOOSE g : Fold(g))[S]
  BY DEF MapThenSumSet, MapThenFoldSet, Pick
<1>2. \A g : Fold(g) <=> IsFold(f, g, SUBSET S)
  <2> TAKE g
  <2>1. \A s \in SUBSET S : s # {} => f[Pick(s)] = Pick(s).risk
    BY PickIsElement
  <2>2. \A s \in SUBSET S : Unfolded(f, g, s) = IF s = {} THEN 0
                               ELSE Pick(s).risk + g[s \ {Pick(s)}]
    BY <2>1 DEF Unfolded
  <2> QED BY <2>2 DEF IsFold
<1> HIDE DEF Fold
<1>3. PICK h : h = (CHOOSE g : Fold(g))
  OBVIOUS
<1>4. IsFold(f, h, SUBSET S)
  BY <1>2, <1>3, FoldExists
<1>5. Total(f, S) = h[S]
  BY <1>4, TotalIsUnfolded
<1> QED BY <1>1, <1>3, <1>5

LEMMA KnownIsTotal ==
    ASSUME NEW f, NEW S, IsFiniteSet(S), \A p \in S : f[p] = Known(p)
    PROVE  MapThenSumSet(Known, S) = Total(f, S)
<1> DEFINE Fold(g) == g = [s \in SUBSET S |-> IF s = {} THEN 0
                               ELSE Known(Pick(s)) + g[s \ {Pick(s)}]]
<1>1. MapThenSumSet(Known, S) = (CHOOSE g : Fold(g))[S]
  BY DEF MapThenSumSet, MapThenFoldSet, Pick
<1>2. \A g : Fold(g) <=> IsFold(f, g, SUBSET S)
  <2> TAKE g
  <2>1. \A s \in SUBSET S : s # {} => f[Pick(s)] = Known(Pick(s))
    BY PickIsElement
  <2>2. \A s \in SUBSET S : Unfolded(f, g, s) = IF s = {} THEN 0
                               ELSE Known(Pick(s)) + g[s \ {Pick(s)}]
    BY <2>1 DEF Unfolded
  <2> QED BY <2>2 DEF IsFold
<1> HIDE DEF Fold
<1>3. PICK h : h = (CHOOSE g : Fold(g))
  OBVIOUS
<1>4. IsFold(f, h, SUBSET S)
  BY <1>2, <1>3, FoldExists
<1>5. Total(f, S) = h[S]
  BY <1>4, TotalIsUnfolded
<1> QED BY <1>1, <1>3, <1>5

\* The risk one position adds to a currency.
Leg(p, c) ==
    IF c = BaseCurrency[p.inst] THEN p.side * Known(p)
    ELSE IF c = QuoteCurrency[p.inst] THEN 0 - p.side * Known(p)
    ELSE 0

LEMMA NetIsTotal ==
    ASSUME NEW c, NEW f, NEW S, IsFiniteSet(S), \A p \in S : f[p] = Leg(p, c)
    PROVE  NetRisk(S, c) = Total(f, S)
<1> DEFINE Fold(g) == g = [s \in SUBSET S |-> IF s = {} THEN 0
                               ELSE Leg(Pick(s), c) + g[s \ {Pick(s)}]]
<1>1. NetRisk(S, c) = (CHOOSE g : Fold(g))[S]
  BY DEF NetRisk, MapThenSumSet, MapThenFoldSet, Pick, Leg
<1>2. \A g : Fold(g) <=> IsFold(f, g, SUBSET S)
  <2> TAKE g
  <2>1. \A s \in SUBSET S : s # {} => f[Pick(s)] = Leg(Pick(s), c)
    BY PickIsElement
  <2>2. \A s \in SUBSET S : Unfolded(f, g, s) = IF s = {} THEN 0
                               ELSE Leg(Pick(s), c) + g[s \ {Pick(s)}]
    BY <2>1 DEF Unfolded
  <2> QED BY <2>2 DEF IsFold
<1> HIDE DEF Fold
<1>3. PICK h : h = (CHOOSE g : Fold(g))
  OBVIOUS
<1>4. IsFold(f, h, SUBSET S)
  BY <1>2, <1>3, FoldExists
<1>5. Total(f, S) = h[S]
  BY <1>4, TotalIsUnfolded
<1> QED BY <1>1, <1>3, <1>5

(* Sizing. *)

LEMMA SizeFits ==
    ASSUME NEW i \in Pairs, NEW stop \in Stops, NEW mult \in 0 .. 2,
           NEW stress \in Int, stress = BookStress(held)
    PROVE  /\ Size(i, stop, mult) \in Nat
           /\ 2 * (Size(i, stop, mult) * stop) =< Budget2(mult)
           /\ Size(i, stop, mult) * stop =< FullBudget
           /\ Feasible(stop, mult) /\ Size(i, stop, mult) >= 1 =>
                Size(i, stop, mult) * GapLoss[i] + stress =< (AccountEquity * StressLimit) \div 100
<1> DEFINE wanted == Budget2(mult) \div (2 * stop)
           left == (AccountEquity * StressLimit) \div 100 - stress
<1>1. stop \in Nat /\ stop >= 1 /\ 2 * stop \in Nat /\ 2 * stop >= 1 /\ mult \in Nat
  BY GateConstants
<1>2. AccountEquity * RiskPerTrade \in Nat /\ AccountEquity * StressLimit \in Nat
  BY GateConstants, Products
<1>3. PICK x \in Nat : x = AccountEquity * RiskPerTrade
  BY <1>2
<1>4. Budget2(mult) = (x * mult) \div 100 /\ FullBudget = x \div 100
  BY <1>3 DEF Budget2, FullBudget
<1>5. Budget2(mult) \in Nat
  <2>1. x * mult \in Nat
    BY <1>1, <1>3, Products
  <2> QED BY <1>4, <2>1
<1>6. wanted \in Nat /\ \A n \in Nat : n =< wanted => n * (2 * stop) =< Budget2(mult)
  BY <1>1, <1>5, RoundedDown
<1>7. Lots(stop, mult) \in Nat /\ Lots(stop, mult) =< wanted
  <2>1. Lots(stop, mult) = IF wanted < MaxLots THEN wanted ELSE MaxLots
    BY DEF Lots
  <2> HIDE DEF wanted
  <2> QED BY <1>6, <2>1, GateConstants
<1>8. (AccountEquity * StressLimit) \div 100 \in Nat
  BY <1>2, RoundedDown
<1>9. left \in Int
  BY <1>8
<1>10. StressCap(held, i) = IF left < 0 THEN 0 ELSE left \div GapLoss[i]
  BY DEF StressCap
<1>11. GapLoss[i] \in Nat /\ GapLoss[i] >= 1
  BY GateConstants
<1> HIDE DEF wanted, left
<1>12. /\ StressCap(held, i) \in Nat
       /\ \A n \in Nat : n >= 1 /\ n =< StressCap(held, i) => n * GapLoss[i] =< left
  <2>1. CASE left < 0
    BY <1>10, <2>1
  <2>2. CASE ~(left < 0)
    <3>1. left \in Nat
      BY <1>9, <2>2
    <3> QED BY <1>10, <1>11, <2>2, <3>1, RoundedDown
  <2> QED BY <2>1, <2>2
<1>13. PICK n : n = Size(i, stop, mult)
  OBVIOUS
<1>14. n \in Nat /\ n =< wanted
  <2>1. \/ n = StressCap(held, i) /\ StressCap(held, i) < Lots(stop, mult)
        \/ n = Lots(stop, mult)
    BY <1>13 DEF Size
  <2> QED BY <1>6, <1>7, <1>12, <2>1
<1>15. Feasible(stop, mult) => n =< StressCap(held, i)
  <2>1. Feasible(stop, mult) => n = IF StressCap(held, i) < Lots(stop, mult)
                                    THEN StressCap(held, i) ELSE Lots(stop, mult)
    BY <1>13 DEF Size
  <2> QED BY <1>7, <1>12, <2>1
<1>16. n * (2 * stop) =< Budget2(mult)
  BY <1>6, <1>14
<1>17. n * (2 * stop) = 2 * (n * stop) /\ n * stop \in Nat
  BY <1>1, <1>14
<1>18. n * stop =< FullBudget
  <2>1. 2 * (n * stop) =< (x * mult) \div 100
    BY <1>4, <1>16, <1>17
  <2>2. n * stop \in Int
    BY <1>17
  <2>3. n * stop =< x \div 100
    BY <2>1, <2>2, HalvesOfABudget
  <2> QED BY <1>4, <2>3
<1>19. Feasible(stop, mult) /\ n >= 1 => n * GapLoss[i] + stress =< (AccountEquity * StressLimit) \div 100
  <2> SUFFICES ASSUME Feasible(stop, mult), n >= 1
               PROVE  n * GapLoss[i] + stress =< (AccountEquity * StressLimit) \div 100
    OBVIOUS
  <2>1. n * GapLoss[i] =< left
    BY <1>12, <1>14, <1>15
  <2>2. n * GapLoss[i] \in Nat
    BY <1>11, <1>14, Products
  <2> QED BY <1>8, <2>1, <2>2 DEF left
<1> QED BY <1>13, <1>14, <1>16, <1>17, <1>18, <1>19

LEMMA PositionFields ==
    ASSUME NEW p \in Positions
    PROVE  /\ p.inst \in Pairs /\ p.side \in {1, -1} /\ p.lots \in Nat /\ p.risk \in Nat
           /\ p.known \in BOOLEAN /\ p.risk =< FullBudget
           /\ Known(p) \in Nat /\ (p.known => Known(p) = p.risk)
           /\ GapLoss[p.inst] * p.lots \in Nat
<1>1. /\ p.inst \in Pairs /\ p.side \in {1, -1} /\ p.lots \in Nat /\ p.risk \in Nat
      /\ p.known \in BOOLEAN /\ p.risk =< FullBudget
  BY DEF Positions, Sides
<1>2. Known(p) \in Nat /\ (p.known => Known(p) = p.risk)
  BY <1>1 DEF Known
<1>3. GapLoss[p.inst] \in Nat
  BY <1>1, GateConstants
<1>4. GapLoss[p.inst] * p.lots \in Nat
  BY <1>1, <1>3, Products
<1> QED BY <1>1, <1>2, <1>4

GapOf(b)    == [p \in b |-> GapLoss[p.inst] * p.lots]
RisksOf(b)   == [p \in b |-> p.risk]
KnownOf(b)  == [p \in b |-> Known(p)]
LegOf(b, c) == [p \in b |-> Leg(p, c)]

LEMMA StressOfBook ==
    ASSUME NEW b, IsFiniteSet(b), b \subseteq Positions
    PROVE  BookStress(b) = Total(GapOf(b), b) /\ BookStress(b) \in Nat
<1>1. \A p \in b : GapOf(b)[p] = GapLoss[p.inst] * p.lots
  BY DEF GapOf
<1>2. \A p \in b : GapOf(b)[p] \in Nat
  BY <1>1, PositionFields
<1>3. BookStress(b) = Total(GapOf(b), b)
  BY <1>1, StressIsTotal
<1>4. Total(GapOf(b), b) \in Nat
  BY <1>2, TotalIsNatural
<1> QED BY <1>3, <1>4

\* One more position costs its own gap more.
LEMMA StressOfOneMore ==
    ASSUME NEW b, IsFiniteSet(b), b \subseteq Positions, NEW new \in Positions, new \notin b
    PROVE  BookStress(b \cup {new}) = GapLoss[new.inst] * new.lots + BookStress(b)
<1> DEFINE all == b \cup {new}
<1>1. IsFiniteSet(all) /\ all \subseteq Positions
  BY FS_AddElement
<1>2. \A p \in all : GapOf(all)[p] = GapLoss[p.inst] * p.lots
  BY DEF GapOf
<1>3. \A p \in b \cup {new} : GapOf(all)[p] \in Int
  <2>1. \A p \in all : GapLoss[p.inst] * p.lots \in Nat
    BY <1>1, PositionFields
  <2>2. \A p \in all : GapOf(all)[p] \in Nat
    BY <1>2, <2>1, Zenon
  <2> QED BY <2>2
<1>4. BookStress(all) = Total(GapOf(all), all)
  BY <1>1, StressOfBook
<1>5. PICK f : f = GapOf(all)
  OBVIOUS
<1>6. BookStress(b) = Total(f, b)
  <2>1. \A p \in b : f[p] = GapLoss[p.inst] * p.lots
    BY <1>2, <1>5
  <2> QED BY <2>1, StressIsTotal
<1>7. Total(f, b \cup {new}) = f[new] + Total(f, b)
  BY <1>3, <1>5, TotalAdd
<1>8. f[new] = GapLoss[new.inst] * new.lots
  BY <1>2, <1>5
<1> QED BY <1>4, <1>5, <1>6, <1>7, <1>8

\* Charging a full budget for each position without a record covers the book.
LEMMA TrueRiskIsCharged ==
    ASSUME NEW b, IsFiniteSet(b), b \subseteq Positions
    PROVE  /\ MapThenSumSet(LAMBDA p : p.risk, b) \in Nat
           /\ MapThenSumSet(Known, b) \in Nat
           /\ MapThenSumSet(LAMBDA p : p.risk, b) =<
                MapThenSumSet(Known, b) + Cardinality({p \in b : ~p.known}) * FullBudget
<1> DEFINE S == {p \in b : p.known}
           T == {p \in b : ~p.known}
           f == RisksOf(b)
           g == KnownOf(b)
<1>1. IsFiniteSet(S) /\ IsFiniteSet(T) /\ S \cap T = {} /\ S \cup T = b
  BY FS_Subset
<1>2. \A p \in b : f[p] = p.risk /\ g[p] = Known(p)
  BY DEF RisksOf, KnownOf
<1>3. \A p \in b : f[p] \in Nat /\ g[p] \in Nat /\ f[p] =< FullBudget /\ (p \in S => f[p] = g[p])
  BY <1>2, PositionFields
<1>4. MapThenSumSet(LAMBDA p : p.risk, b) = Total(f, b)
  BY <1>2, RiskIsTotal
<1>5. MapThenSumSet(Known, b) = Total(g, b)
  BY <1>2, KnownIsTotal
<1>6. FullBudget \in Int
  <2>1. AccountEquity * RiskPerTrade \in Nat
    BY GateConstants, Products
  <2> QED BY <2>1, RoundedDown DEF FullBudget
<1> HIDE DEF f, g, S, T
<1>7. \A p \in S \cup T : f[p] \in Int /\ g[p] \in Int /\ f[p] \in Nat /\ g[p] \in Nat /\ f[p] =< FullBudget
  BY <1>1, <1>3
<1>8. Total(f, S \cup T) = Total(f, S) + Total(f, T)
  BY <1>1, <1>7, TotalOfUnion
<1>9. Total(g, S \cup T) = Total(g, S) + Total(g, T)
  BY <1>1, <1>7, TotalOfUnion
<1>10. Total(f, S) = Total(g, S)
  <2>1. \A p \in S : f[p] \in Int /\ f[p] = g[p]
    BY <1>1, <1>3, <1>7
  <2> QED BY <1>1, <2>1, TotalSame
<1>11. Total(f, T) =< Cardinality(T) * FullBudget
  <2>1. \A p \in T : f[p] \in Int /\ f[p] =< FullBudget
    BY <1>7
  <2> QED BY <1>1, <1>6, <2>1, TotalBounded
<1>12. Total(g, T) \in Nat /\ Total(g, S) \in Nat /\ Total(f, T) \in Nat
  <2>1. Total(g, T) \in Nat
    BY <1>1, <1>7, TotalIsNatural
  <2>2. Total(g, S) \in Nat
    BY <1>1, <1>7, TotalIsNatural
  <2>3. Total(f, T) \in Nat
    BY <1>1, <1>7, TotalIsNatural
  <2> QED BY <2>1, <2>2, <2>3
<1>13. PICK charge \in Int : charge = Cardinality(T) * FullBudget
  <2>1. Cardinality(T) \in Nat
    BY <1>1, FS_CardinalityType
  <2>2. \A m, n \in Int : m * n \in Int
    OBVIOUS
  <2> QED BY <1>6, <2>1, <2>2
<1>14. Total(f, S \cup T) \in Nat /\ Total(g, S \cup T) \in Nat
       /\ Total(f, S \cup T) =< Total(g, S \cup T) + charge
  BY <1>8, <1>9, <1>10, <1>11, <1>12, <1>13
<1> QED BY <1>1, <1>4, <1>5, <1>13, <1>14 DEF T

(* One bet, one ceiling. *)

\* Terms of the opposite sign make the opposite sum.
LEMMA OppositeTotal ==
    ASSUME NEW f, NEW g, NEW S, IsFiniteSet(S),
           \A x \in S : f[x] \in Int /\ g[x] \in Int /\ f[x] = 0 - g[x]
    PROVE  Total(f, S) = 0 - Total(g, S)
<1> DEFINE G == {s \in SUBSET S : Total(f, s) = 0 - Total(g, s)}
<1>1. {} \in G
  BY TotalOfNothing
<1>2. ASSUME NEW s \in SUBSET S, NEW x \in S, s \in G, x \notin s PROVE s \cup {x} \in G
  <2>1. IsFiniteSet(s) /\ \A z \in s \cup {x} : f[z] \in Int /\ g[z] \in Int
    BY FS_Subset
  <2>2. Total(f, s \cup {x}) = f[x] + Total(f, s)
    BY <1>2, <2>1, TotalAdd
  <2>3. Total(g, s \cup {x}) = g[x] + Total(g, s)
    BY <1>2, <2>1, TotalAdd
  <2>4. Total(g, s) \in Int /\ g[x] \in Int /\ f[x] = 0 - g[x]
    BY <2>1, TotalIsInteger
  <2>5. Total(f, s) = 0 - Total(g, s)
    BY <1>2
  <2>6. Total(f, s \cup {x}) = 0 - Total(g, s \cup {x})
    BY <2>2, <2>3, <2>4, <2>5
  <2> QED BY <2>6
<1>3. S \in G
  <2> HIDE DEF G
  <2> QED BY <1>1, <1>2, AddingElements
<1> QED BY <1>3

LEMMA LegIsSigned ==
    ASSUME NEW p \in Positions, p.known, NEW c
    PROVE  LET touches == c \in {BaseCurrency[p.inst], QuoteCurrency[p.inst]}
               isLong  == \/ p.side = 1 /\ BaseCurrency[p.inst] = c
                          \/ p.side = -1 /\ QuoteCurrency[p.inst] = c
           IN  /\ isLong => Leg(p, c) = p.risk
               /\ touches /\ ~isLong => Leg(p, c) = 0 - p.risk
               /\ ~touches => Leg(p, c) = 0
<1>1. PICK r \in Nat : r = p.risk
  BY PositionFields
<1>2. p.inst \in Pairs /\ p.side \in {1, -1} /\ Known(p) = r
  BY <1>1, PositionFields
<1>3. BaseCurrency[p.inst] # QuoteCurrency[p.inst]
  BY <1>2, GateConstants
<1>4. Leg(p, c) = IF c = BaseCurrency[p.inst] THEN p.side * r
                  ELSE IF c = QuoteCurrency[p.inst] THEN 0 - p.side * r ELSE 0
  BY <1>2 DEF Leg
<1>5. CASE p.side = 1
  <2>1. p.side * r = r /\ 0 - p.side * r = 0 - r
    BY <1>5
  <2> QED BY <1>1, <1>3, <1>4, <1>5, <2>1
<1>6. CASE p.side = -1
  <2>1. p.side * r = 0 - r /\ 0 - p.side * r = r
    BY <1>6
  <2> QED BY <1>1, <1>3, <1>4, <1>6, <2>1
<1> QED BY <1>2, <1>5, <1>6

\* With every risk on record the net of a currency is its long less its short.
LEMMA NetIsLongLessShort ==
    ASSUME NEW b, IsFiniteSet(b), b \subseteq Positions, \A p \in b : p.known, NEW c
    PROVE  LET long  == {p \in b : p.side = 1 /\ BaseCurrency[p.inst] = c} \cup
                        {p \in b : p.side = -1 /\ QuoteCurrency[p.inst] = c}
               short == {p \in b : c \in {BaseCurrency[p.inst], QuoteCurrency[p.inst]}} \ long
           IN  /\ NetRisk(b, c) = MapThenSumSet(LAMBDA p : p.risk, long)
                                    - MapThenSumSet(LAMBDA p : p.risk, short)
               /\ MapThenSumSet(LAMBDA p : p.risk, long) \in Int
               /\ MapThenSumSet(LAMBDA p : p.risk, short) \in Int
<1> DEFINE long  == {p \in b : p.side = 1 /\ BaseCurrency[p.inst] = c} \cup
                    {p \in b : p.side = -1 /\ QuoteCurrency[p.inst] = c}
           short == {p \in b : c \in {BaseCurrency[p.inst], QuoteCurrency[p.inst]}} \ long
           rest  == b \ (long \cup short)
           sumOf(S) == MapThenSumSet(LAMBDA p : p.risk, S)
<1>1. PICK f : f = RisksOf(b)
  OBVIOUS
<1>2. PICK g : g = LegOf(b, c)
  OBVIOUS
<1>3. \A p \in b : f[p] = p.risk /\ g[p] = Leg(p, c)
  BY <1>1, <1>2 DEF RisksOf, LegOf
<1>4. \A p \in b : f[p] \in Int
  <2>1. \A p \in b : p.risk \in Nat
    BY PositionFields
  <2> QED BY <1>3, <2>1
<1>5. \A p \in long : g[p] = f[p]
  BY <1>3, LegIsSigned
<1>6. \A p \in short : g[p] = 0 - f[p]
  BY <1>3, LegIsSigned
<1>7. \A p \in rest : g[p] = 0
  BY <1>3, LegIsSigned
<1>8. /\ IsFiniteSet(long) /\ IsFiniteSet(short) /\ IsFiniteSet(rest) /\ IsFiniteSet(long \cup short)
      /\ long \cap short = {} /\ (long \cup short) \cap rest = {}
      /\ (long \cup short) \cup rest = b
  <2>1. long \subseteq b /\ short \subseteq b /\ rest \subseteq b /\ long \cup short \subseteq b
    OBVIOUS
  <2>2. \A S \in SUBSET b : IsFiniteSet(S)
    BY FS_Subset
  <2> QED BY <2>1, <2>2
<1>9. sumOf(long) = Total(f, long) /\ sumOf(short) = Total(f, short)
  <2>1. \A p \in long : f[p] = p.risk
    BY <1>3
  <2>2. \A p \in short : f[p] = p.risk
    BY <1>3
  <2>3. sumOf(long) = Total(f, long)
    <3> HIDE DEF long
    <3> QED BY <1>8, <2>1, RiskIsTotal
  <2>4. sumOf(short) = Total(f, short)
    <3> HIDE DEF short
    <3> QED BY <1>8, <2>2, RiskIsTotal
  <2> QED BY <2>3, <2>4
<1>10. NetRisk(b, c) = Total(g, b)
  BY <1>3, NetIsTotal
<1> HIDE DEF long, short, rest
<1>11. \A p \in b : g[p] \in Int
  BY <1>4, <1>5, <1>6, <1>7, <1>8
<1>12. Total(g, (long \cup short) \cup rest) = Total(g, long \cup short) + Total(g, rest)
  BY <1>8, <1>11, TotalOfUnion
<1>13. Total(g, long \cup short) = Total(g, long) + Total(g, short)
  BY <1>8, <1>11, TotalOfUnion
<1>14. Total(g, long) = Total(f, long)
  BY <1>4, <1>5, <1>8, <1>11, TotalSame
<1>15. Total(g, short) = 0 - Total(f, short)
  <2>1. \A p \in short : g[p] \in Int /\ f[p] \in Int /\ g[p] = 0 - f[p]
    BY <1>4, <1>6, <1>8, <1>11
  <2> QED BY <1>8, <2>1, OppositeTotal
<1>16. Total(g, rest) = 0
  <2>1. \A p \in rest : g[p] \in Int /\ g[p] = 0 - g[p]
    BY <1>7
  <2>2. Total(g, rest) = 0 - Total(g, rest)
    BY <1>8, <2>1, OppositeTotal
  <2>3. Total(g, rest) \in Int
    BY <1>8, <2>1, TotalIsInteger
  <2> QED BY <2>2, <2>3
<1>17. Total(f, long) \in Int /\ Total(f, short) \in Int
  <2>1. \A p \in long : f[p] \in Int
    BY <1>4, <1>8
  <2>2. \A p \in short : f[p] \in Int
    BY <1>4, <1>8
  <2>3. Total(f, long) \in Int
    BY <1>8, <2>1, TotalIsInteger
  <2>4. Total(f, short) \in Int
    BY <1>8, <2>2, TotalIsInteger
  <2> QED BY <2>3, <2>4
<1>18. Total(g, b) = Total(f, long) - Total(f, short)
  <2>1. Total(g, b) = Total(g, (long \cup short) \cup rest)
    BY <1>8, Zenon
  <2> QED BY <1>12, <1>13, <1>14, <1>15, <1>16, <1>17, <2>1
<1>19. /\ NetRisk(b, c) = sumOf(long) - sumOf(short)
       /\ sumOf(long) \in Int /\ sumOf(short) \in Int
  BY <1>9, <1>10, <1>17, <1>18
<1> QED BY <1>19 DEF long, short

(* The ruling. *)

TrueRisk(b) == MapThenSumSet(LAMBDA p : p.risk, b)

CurrenciesFit(b) ==
    \A cur \in Currencies :
        LET long  == {p \in b : p.side = 1 /\ BaseCurrency[p.inst] = cur} \cup
                     {p \in b : p.side = -1 /\ QuoteCurrency[p.inst] = cur}
            short == {p \in b : cur \in {BaseCurrency[p.inst], QuoteCurrency[p.inst]}} \ long
            total(S) == MapThenSumSet(LAMBDA p : p.risk, S)
        IN  /\ ~Over(total(long) - total(short), MaxCurrency)
            /\ ~Over(total(short) - total(long), MaxCurrency)

LEMMA ClaimsRestated ==
    /\ TrueRiskBounded <=>
         (ruling.approved => ~Over(TrueRisk(held \cup {ruling.position}), MaxTotal))
    /\ OneBetOneCeiling <=>
         (ruling.approved /\ (\A p \in held : p.known) => CurrenciesFit(held \cup {ruling.position}))
<1>1. TrueRiskBounded <=>
        (ruling.approved => ~Over(TrueRisk(held \cup {ruling.position}), MaxTotal))
  BY DEF TrueRiskBounded, TrueRisk
<1>2. OneBetOneCeiling <=>
        (ruling.approved /\ (\A p \in held : p.known) => CurrenciesFit(held \cup {ruling.position}))
  BY DEF OneBetOneCeiling, CurrenciesFit
<1> QED BY <1>1, <1>2

LEMMA NothingVetoes ==
    ASSUME NEW i, NEW side, NEW stop, NEW mult, NEW c, Vetoes(i, side, stop, mult, c) = {}
    PROVE  /\ c \cap Halting = {}
           /\ Feasible(stop, mult) /\ ~(Size(i, stop, mult) < 1)
           /\ \A p \in held : p.inst # i
           /\ LET b == held \cup {Proposed(i, side, stop, mult)}
              IN  /\ \A cur \in Currencies : ~Over(Magnitude(NetRisk(b, cur)), MaxCurrency)
                  /\ ~Over(MapThenSumSet(Known, b) + Assumed(held), MaxTotal)
<1> DEFINE new == Proposed(i, side, stop, mult)
           b == held \cup {new}
<1>1. /\ Absolute(c) = {} /\ c \cap Unpriced = {} /\ "no_stop" \notin c
      /\ SizingVetoes(i, stop, mult) = {} /\ PortfolioVetoes(i, new) = {}
  <2>1. Absolute(c) = {} /\ c \cap Unpriced = {}
    BY DEF Vetoes
  <2>2. "no_stop" \notin c
    BY <2>1 DEF Vetoes
  <2>3. SizingVetoes(i, stop, mult) = {} /\ PortfolioVetoes(i, new) = {}
    BY <2>1, <2>2 DEF Vetoes
  <2> QED BY <2>1, <2>2, <2>3
<1>2. c \cap Halting = {}
  BY <1>1 DEF Absolute
<1>3. Feasible(stop, mult) /\ ~(Size(i, stop, mult) < 1)
  <2>1. "sizing" \notin SizingVetoes(i, stop, mult) /\ "stress_gap" \notin SizingVetoes(i, stop, mult)
    BY <1>1
  <2>2. Feasible(stop, mult)
    BY <2>1, Zenon DEF SizingVetoes
  <2>3. ~(Feasible(stop, mult) /\ Size(i, stop, mult) < 1)
    BY <2>1, Zenon DEF SizingVetoes
  <2> QED BY <2>2, <2>3
<1>4. /\ "per_instrument" \notin PortfolioVetoes(i, new)
      /\ "currency_exposure" \notin PortfolioVetoes(i, new)
      /\ "total_open_risk" \notin PortfolioVetoes(i, new)
  BY <1>1
<1> HIDE DEF new
<1>5. \A p \in held : p.inst # i
  BY <1>4, Zenon DEF PortfolioVetoes
<1>6. \A cur \in Currencies : ~Over(Magnitude(NetRisk(b, cur)), MaxCurrency)
  BY <1>4, Zenon DEF PortfolioVetoes
<1>7. ~Over(MapThenSumSet(Known, b) + Assumed(held), MaxTotal)
  BY <1>4, Zenon DEF PortfolioVetoes
<1> QED BY <1>2, <1>3, <1>5, <1>6, <1>7 DEF new

LEMMA ApprovedIsPosition ==
    ASSUME NEW i \in Pairs, NEW side \in Sides, NEW stop \in Stops, NEW mult \in 0 .. 2,
           BookStress(held) \in Int
    PROVE  LET new == Proposed(i, side, stop, mult)
           IN  new \in Positions /\ new.inst = i /\ new.known /\ new.lots = Size(i, stop, mult)
               /\ new.risk = Size(i, stop, mult) * stop
<1>1. PICK n \in Nat : n = Size(i, stop, mult) /\ n * stop =< FullBudget
  BY SizeFits
<1>2. PICK r \in Nat : r = n * stop
  BY GateConstants, Products
<1>3. Proposed(i, side, stop, mult) =
        [inst |-> i, side |-> side, lots |-> n, risk |-> r, known |-> TRUE, stopped |-> TRUE]
  BY <1>1, <1>2 DEF Proposed
<1>4. Proposed(i, side, stop, mult) \in Positions
  BY <1>1, <1>2, <1>3 DEF Positions
<1> QED BY <1>1, <1>2, <1>3, <1>4

\* What an approval has established of the book with the new position in it.
LEMMA ApprovalHolds ==
    ASSUME IsFiniteSet(held), held \subseteq Positions,
           NEW i \in Pairs, NEW side \in Sides, NEW stop \in Stops, NEW mult \in 0 .. 2, NEW c,
           Vetoes(i, side, stop, mult, c) = {},
           NEW new, new = Proposed(i, side, stop, mult)
    PROVE  /\ c \cap Halting = {}
           /\ new \in Positions /\ 2 * new.risk <= Budget2(mult)
           /\ ~Over(TrueRisk(held \cup {new}), MaxTotal)
           /\ new.lots >= 1 /\ ~Over(BookStress(held \cup {new}), StressLimit)
           /\ (\A p \in held : p.known) => CurrenciesFit(held \cup {new})
<1> DEFINE b == held \cup {new}
<1>1. /\ c \cap Halting = {}
      /\ Feasible(stop, mult) /\ ~(Size(i, stop, mult) < 1)
      /\ \A p \in held : p.inst # i
      /\ \A cur \in Currencies : ~Over(Magnitude(NetRisk(b, cur)), MaxCurrency)
      /\ ~Over(MapThenSumSet(Known, b) + Assumed(held), MaxTotal)
  BY NothingVetoes
<1>2. BookStress(held) \in Nat
  BY StressOfBook
<1>3. PICK stress \in Nat : stress = BookStress(held)
  BY <1>2
<1>4. /\ new \in Positions /\ new.inst = i /\ new.known /\ new.lots = Size(i, stop, mult)
      /\ new.risk = Size(i, stop, mult) * stop
  BY <1>2, ApprovedIsPosition
<1>5. new \notin held
  BY <1>1, <1>4
<1>6. IsFiniteSet(b) /\ b \subseteq Positions
  BY <1>4, FS_AddElement
<1>7. PICK n \in Nat : n = Size(i, stop, mult)
  BY <1>3, SizeFits
<1>8. n >= 1
  BY <1>1, <1>7
<1>9. /\ 2 * (n * stop) =< Budget2(mult)
      /\ n * GapLoss[i] + stress =< (AccountEquity * StressLimit) \div 100
  BY <1>1, <1>3, <1>7, <1>8, SizeFits
<1>10. 2 * new.risk <= Budget2(mult) /\ new.lots >= 1
  BY <1>4, <1>7, <1>8, <1>9
<1> HIDE DEF b
<1>11. ~Over(BookStress(b), StressLimit)
  <2>1. BookStress(b) = GapLoss[i] * n + stress
    <3>1. BookStress(held \cup {new}) = GapLoss[new.inst] * new.lots + BookStress(held)
      BY <1>4, <1>5, StressOfOneMore
    <3> QED BY <1>3, <1>4, <1>7, <3>1 DEF b
  <2>2. PICK gap \in Nat : gap = GapLoss[i] * n
    BY GateConstants, Products
  <2>3. n * GapLoss[i] = GapLoss[i] * n
    BY GateConstants
  <2>4. PICK x \in Nat : x = AccountEquity * StressLimit
    BY GateConstants, Products
  <2>5. gap + stress =< x \div 100
    BY <1>9, <2>2, <2>3, <2>4
  <2>6. (gap + stress) * 100 =< x
    BY <2>5
  <2>7. StressLimit * AccountEquity = x
    BY <2>4, GateConstants
  <2> QED BY <2>1, <2>2, <2>6, <2>7 DEF Over
<1>12. ~Over(MapThenSumSet(LAMBDA p : p.risk, b), MaxTotal)
  <2>1. Assumed(held) = Cardinality({p \in b : ~p.known}) * FullBudget
    <3>1. {p \in b : ~p.known} = {p \in held : ~p.known}
      BY <1>4 DEF b
    <3> QED BY <3>1 DEF Assumed, FullBudget
  <2>2. PICK truth \in Nat : truth = MapThenSumSet(LAMBDA p : p.risk, b)
    BY <1>6, TrueRiskIsCharged
  <2>3. PICK charged : charged = MapThenSumSet(Known, b) + Assumed(held)
    OBVIOUS
  <2>4. truth =< charged
    BY <1>6, <2>1, <2>2, <2>3, TrueRiskIsCharged
  <2>5. charged \in Int
    <3>1. MapThenSumSet(Known, b) \in Nat
      BY <1>6, TrueRiskIsCharged
    <3>2. Cardinality({p \in b : ~p.known}) \in Nat
      BY <1>6, FS_Subset, FS_CardinalityType
    <3>3. FullBudget \in Nat
      <4>1. AccountEquity * RiskPerTrade \in Nat
        BY GateConstants, Products
      <4> QED BY <4>1, RoundedDown DEF FullBudget
    <3>4. Assumed(held) \in Nat
      BY <2>1, <3>2, <3>3, Products
    <3> QED BY <2>3, <3>1, <3>4
  <2>6. PICK most \in Nat : most = MaxTotal * AccountEquity
    BY GateConstants, Products
  <2>7. ~(charged * 100 > most)
    BY <1>1, <2>3, <2>6 DEF Over
  <2>8. ~(truth * 100 > most)
    BY <2>4, <2>5, <2>7
  <2> QED BY <2>2, <2>6, <2>8 DEF Over
<1>13. ASSUME \A p \in held : p.known, NEW cur \in Currencies
       PROVE  LET long  == {p \in b : p.side = 1 /\ BaseCurrency[p.inst] = cur} \cup
                           {p \in b : p.side = -1 /\ QuoteCurrency[p.inst] = cur}
                  short == {p \in b : cur \in {BaseCurrency[p.inst], QuoteCurrency[p.inst]}} \ long
                  total(S) == MapThenSumSet(LAMBDA p : p.risk, S)
              IN  /\ ~Over(total(long) - total(short), MaxCurrency)
                  /\ ~Over(total(short) - total(long), MaxCurrency)
  <2> DEFINE long  == {p \in b : p.side = 1 /\ BaseCurrency[p.inst] = cur} \cup
                      {p \in b : p.side = -1 /\ QuoteCurrency[p.inst] = cur}
             short == {p \in b : cur \in {BaseCurrency[p.inst], QuoteCurrency[p.inst]}} \ long
             total(S) == MapThenSumSet(LAMBDA p : p.risk, S)
  <2>1. \A p \in b : p.known
    BY <1>4, <1>13 DEF b
  <2>2. /\ NetRisk(b, cur) = total(long) - total(short)
        /\ total(long) \in Int /\ total(short) \in Int
    BY <1>6, <2>1, NetIsLongLessShort
  <2>3. ~Over(Magnitude(NetRisk(b, cur)), MaxCurrency)
    BY <1>1, <1>13 DEF b
  <2> HIDE DEF long, short, total
  <2>4. PICK l \in Int, s \in Int : l = total(long) /\ s = total(short)
    BY <2>2
  <2>5. PICK most \in Nat : most = MaxCurrency * AccountEquity
    BY GateConstants, Products
  <2>6. ~(Magnitude(l - s) * 100 > most)
    BY <2>2, <2>3, <2>4, <2>5 DEF Over
  <2>7. ~((l - s) * 100 > most) /\ ~((s - l) * 100 > most)
    BY <2>6 DEF Magnitude
  <2>8. ~Over(total(long) - total(short), MaxCurrency) /\ ~Over(total(short) - total(long), MaxCurrency)
    BY <2>4, <2>5, <2>7 DEF Over
  <2> QED BY <2>8 DEF long, short, total
<1>14. (\A p \in held : p.known) => CurrenciesFit(b)
  BY <1>13 DEF CurrenciesFit
<1> QED BY <1>1, <1>4, <1>10, <1>11, <1>12, <1>14 DEF b, TrueRisk

\* A ruling that approves nothing satisfies what is said of approvals.
LEMMA NoApprovalNoClaim ==
    ASSUME ruling = NoVerdict
    PROVE  /\ ~ruling.approved
           /\ HaltNeverHidden /\ TrueRiskBounded /\ GapSurvivable
           /\ OneBetOneCeiling /\ RiskWithinBudget
<1>1. ~ruling.approved /\ ruling.context = {}
  BY DEF NoVerdict
<1> QED BY <1>1 DEF HaltNeverHidden, TrueRiskBounded, GapSurvivable, OneBetOneCeiling, RiskWithinBudget

LEMMA GateInitially == RgInit => GateInv
<1> SUFFICES ASSUME RgInit PROVE GateInv
  OBVIOUS
<1>1. held = {} /\ ruling = NoVerdict
  BY DEF RgInit
<1> QED BY <1>1, NoApprovalNoClaim, FS_EmptySet DEF GateInv

LEMMA JudgeKeeps ==
    ASSUME GateInv, NEW i \in Pairs, NEW side \in Sides, NEW stop \in Stops, NEW mult \in 0 .. 2,
           NEW c \in Contexts, Judge(i, side, stop, mult, c)
    PROVE  GateInv'
<1>1. PICK v, new : v = Vetoes(i, side, stop, mult, c) /\ new = Proposed(i, side, stop, mult)
  OBVIOUS
<1>2. /\ held' = held /\ IsFiniteSet(held) /\ held \subseteq Positions
      /\ ruling' = IF v = {} THEN [approved |-> TRUE, context |-> c, mult |-> mult, position |-> new]
                   ELSE [approved |-> FALSE, context |-> c, halting |-> HaltingDecision(v)]
  BY <1>1 DEF Judge, GateInv
<1>3. CASE v = {}
  <2>1. /\ ruling'.approved /\ ruling'.context = c /\ ruling'.mult = mult /\ ruling'.position = new
    BY <1>2, <1>3
  <2>2. /\ c \cap Halting = {}
        /\ new \in Positions /\ 2 * new.risk <= Budget2(mult)
        /\ ~Over(TrueRisk(held \cup {new}), MaxTotal)
        /\ (\A p \in held : p.known) => CurrenciesFit(held \cup {new})
        /\ new.lots >= 1 /\ ~Over(BookStress(held \cup {new}), StressLimit)
    BY <1>1, <1>2, <1>3, ApprovalHolds
  <2>3. OneBetOneCeiling' /\ TrueRiskBounded'
    <3>1. (/\ TrueRiskBounded <=>
               (ruling.approved => ~Over(TrueRisk(held \cup {ruling.position}), MaxTotal))
           /\ OneBetOneCeiling <=>
               (ruling.approved /\ (\A p \in held : p.known) => CurrenciesFit(held \cup {ruling.position})))'
      BY ClaimsRestated, PTL
    <3> QED BY <1>2, <2>1, <2>2, <3>1
  <2>4. HaltNeverHidden'
    BY <2>1, <2>2 DEF HaltNeverHidden
  <2>5. GapSurvivable'
    BY <1>2, <2>1, <2>2 DEF GapSurvivable
  <2>6. RiskWithinBudget'
    BY <2>1, <2>2 DEF RiskWithinBudget
  <2> QED BY <1>2, <2>1, <2>2, <2>3, <2>4, <2>5, <2>6 DEF GateInv
<1>4. CASE v # {}
  <2>1. ruling'.approved = FALSE /\ ruling'.context = c /\ ruling'.halting = HaltingDecision(v)
    BY <1>2, <1>4
  <2>2. c \cap Halting # {} => HaltingDecision(v)
    <3>1. Absolute(c) \subseteq v
      BY <1>1 DEF Vetoes
    <3> QED BY <3>1 DEF Absolute, HaltingDecision, Halting
  <2>3. HaltNeverHidden'
    BY <2>1, <2>2 DEF HaltNeverHidden
  <2>4. TrueRiskBounded' /\ GapSurvivable' /\ OneBetOneCeiling' /\ RiskWithinBudget'
    BY <2>1 DEF TrueRiskBounded, GapSurvivable, OneBetOneCeiling, RiskWithinBudget
  <2> QED BY <1>2, <2>1, <2>3, <2>4 DEF GateInv
<1> QED BY <1>3, <1>4

LEMMA BookChangesKeep ==
    ASSUME ruling' = NoVerdict, IsFiniteSet(held'), held' \subseteq Positions
    PROVE  GateInv'
<1>1. /\ ~ruling'.approved
      /\ HaltNeverHidden' /\ TrueRiskBounded' /\ GapSurvivable'
      /\ OneBetOneCeiling' /\ RiskWithinBudget'
  <2>1. (ruling = NoVerdict => /\ ~ruling.approved
                               /\ HaltNeverHidden /\ TrueRiskBounded /\ GapSurvivable
                               /\ OneBetOneCeiling /\ RiskWithinBudget)'
    BY NoApprovalNoClaim, PTL
  <2> QED BY <2>1
<1> QED BY <1>1 DEF GateInv

LEMMA PositionChanges ==
    ASSUME NEW p \in Positions, NEW b \in BOOLEAN
    PROVE  [p EXCEPT !.known = b] \in Positions /\ [p EXCEPT !.stopped = b] \in Positions
  BY DEF Positions

LEMMA GateInductive == GateInv /\ [RgNext]_rgVars => GateInv'
<1> SUFFICES ASSUME GateInv, [RgNext]_rgVars PROVE GateInv'
  OBVIOUS
<1>0. IsFiniteSet(held) /\ held \subseteq Positions /\ (ruling.approved => ruling.position \in Positions)
  BY DEF GateInv
<1>1. ASSUME NEW i \in Pairs, NEW side \in Sides, NEW stop \in Stops, NEW mult \in 0 .. 2,
             NEW c \in Contexts, Judge(i, side, stop, mult, c)
      PROVE  GateInv'
  BY <1>1, JudgeKeeps
<1>2. ASSUME NEW stopped \in BOOLEAN, CarryOut(stopped) PROVE GateInv'
  <2>1. ruling' = NoVerdict
        /\ held' = IF ruling.approved
                   THEN held \cup {[ruling.position EXCEPT !.stopped = stopped]} ELSE held
    BY <1>2 DEF CarryOut
  <2>2. IsFiniteSet(held') /\ held' \subseteq Positions
    BY <1>0, <2>1, PositionChanges, FS_AddElement
  <2> QED BY <2>1, <2>2, BookChangesKeep
<1>3. ASSUME NEW p \in held, Exit(p) \/ RecordLost(p) \/ StopPlaced(p) PROVE GateInv'
  <2>1. ruling' = NoVerdict
    BY <1>3 DEF Exit, RecordLost, StopPlaced
  <2>2. IsFiniteSet(held \ {p}) /\ held \ {p} \subseteq Positions /\ p \in Positions
        /\ [p EXCEPT !.known = FALSE] \in Positions /\ [p EXCEPT !.stopped = TRUE] \in Positions
    <3>1. p \in Positions /\ IsFiniteSet(held \ {p}) /\ held \ {p} \subseteq Positions
      BY <1>0, FS_RemoveElement
    <3> QED BY <3>1, PositionChanges
  <2>3. \/ held' = held \ {p}
        \/ held' = (held \ {p}) \cup {[p EXCEPT !.known = FALSE]}
        \/ held' = (held \ {p}) \cup {[p EXCEPT !.stopped = TRUE]}
    BY <1>3 DEF Exit, RecordLost, StopPlaced
  <2>4. IsFiniteSet(held') /\ held' \subseteq Positions
    BY <2>2, <2>3, FS_AddElement, ZenonT(30)
  <2> QED BY <2>1, <2>4, BookChangesKeep
<1>4. CASE UNCHANGED rgVars
  <2>1. held' = held /\ ruling' = ruling
    BY <1>4 DEF rgVars
  <2>2. HaltNeverHidden' /\ GapSurvivable' /\ RiskWithinBudget'
    BY <2>1 DEF GateInv, HaltNeverHidden, GapSurvivable, RiskWithinBudget
  <2>3. OneBetOneCeiling' /\ TrueRiskBounded'
    <3>1. (/\ TrueRiskBounded <=>
               (ruling.approved => ~Over(TrueRisk(held \cup {ruling.position}), MaxTotal))
           /\ OneBetOneCeiling <=>
               (ruling.approved /\ (\A p \in held : p.known) => CurrenciesFit(held \cup {ruling.position})))'
      BY ClaimsRestated, PTL
    <3> QED BY <2>1, <3>1, ClaimsRestated DEF GateInv
  <2> QED BY <1>0, <2>1, <2>2, <2>3 DEF GateInv
<1> QED BY <1>1, <1>2, <1>3, <1>4 DEF RgNext

\* For any instruments, stops, gaps, correlations and limits, an entry is
\* approved only within its budget, within the gap budget and within the
\* currency and total ceilings of the true book, whatever records were lost, and
\* never in a context that halts; and for any number of accounts the group's
\* ceiling is exceeded only after an entry against rows that were out of date
\* (evaluate_entry, size_position, currency_exposure, book_stress_loss,
\* risk/portfolio.py with section 11b).
THEOREM ExposureStaysBounded == MCMarketSpec => []ExposureBounded
<1>1. MCMarketInit => GateInv /\ GroupInv
  BY GateInitially, GroupInitially DEF MCMarketInit
<1>2. GateInv /\ GroupInv /\ [MCMarketNext]_allVars => GateInv' /\ GroupInv'
  BY MarketSteps, GateInductive, GroupInductive
<1>3. GateInv /\ GroupInv => ExposureBounded
  BY DEF GateInv, GroupInv, ExposureBounded, OnlyARaceExceedsTheGroup, Total
<1> QED BY <1>1, <1>2, <1>3, PTL DEF MCMarketSpec

-----------------------------------------------------------------------------
(* Bars and quotes. Every bar of the store is one the venue had, and it    *)
(* had closed; a bar that a fetch did not bring lies further back than     *)
(* the newest stored one, so if the window still reaches it, it was        *)
(* already missing before.                                                 *)

FdInv ==
    /\ clock \in Nat
    /\ published \subseteq 0 .. FdHorizon /\ \A k \in published : (k + 1) * Interval =< clock
    /\ stored \subseteq published
    /\ receipt \in 0 .. clock /\ venueStamp \in 0 .. clock /\ enteredOn \in 0 .. QuoteLimit
    /\ HolesAreTheVenues

LEMMA BarConstants ==
    /\ Interval \in Nat \ {0} /\ History \in Nat \ {0} /\ FetchGap \in Nat /\ QuoteLimit \in Nat
    /\ FdHorizon \in Nat
  BY BarFeedAssumption

LEMMA NewestOf ==
    ASSUME NEW S \in SUBSET (0 .. FdHorizon)
    PROVE  /\ Newest(S) \in Int /\ Newest(S) >= -1 /\ \A k \in S : k =< Newest(S)
           /\ S # {} => Newest(S) \in S /\ Newest(S) \in Nat
<1>1. CASE S = {}
  BY <1>1 DEF Newest
<1>2. CASE S # {}
  <2>1. S \in SUBSET Nat /\ \A k \in S : k =< FdHorizon
    BY BarConstants
  <2>2. Max(S) \in S /\ \A k \in S : Max(S) >= k
    BY <1>2, <2>1, LargestExists, BarConstants
  <2>3. Newest(S) = Max(S)
    BY <1>2 DEF Newest
  <2>4. Newest(S) \in Nat /\ Newest(S) >= -1
    <3>1. PICK m \in S : m = Max(S)
      BY <2>2
    <3>2. m \in Nat
      BY <2>1, <3>1
    <3> QED BY <2>3, <3>1, <3>2
  <2>5. ASSUME NEW k \in S PROVE k =< Newest(S)
    BY <2>1, <2>2, <2>3, <2>4
  <2> QED BY <1>2, <2>2, <2>3, <2>4, <2>5
<1> QED BY <1>1, <1>2

\* No more bars lie above k than there are places up to m.
LEMMA CountAbove ==
    ASSUME NEW S \in SUBSET (0 .. FdHorizon), NEW k \in Nat, NEW m \in Int, \A j \in S : j =< m
    PROVE  LET n == Cardinality({j \in S : j > k}) IN n \in Nat /\ (n = 0 \/ n =< m - k)
<1> DEFINE T == {j \in S : j > k}
<1>1. IsFiniteSet((k + 1) .. m)
      /\ Cardinality((k + 1) .. m) = IF k + 1 > m THEN 0 ELSE m - (k + 1) + 1
  BY FS_Interval
<1>2. T \in SUBSET ((k + 1) .. m)
  <2>1. \A j \in S : j \in Nat
    BY BarConstants
  <2>2. ASSUME NEW j \in S, j > k PROVE j \in (k + 1) .. m
    BY <2>1, <2>2
  <2> QED BY <2>2
<1>3. IsFiniteSet(T) /\ Cardinality(T) =< Cardinality((k + 1) .. m)
  BY <1>1, <1>2, FS_Subset
<1>4. Cardinality(T) \in Nat
  BY <1>3, FS_CardinalityType
<1> HIDE DEF T
<1>5. Cardinality(T) = 0 \/ Cardinality(T) =< m - k
  BY <1>1, <1>3, <1>4
<1> QED BY <1>4, <1>5 DEF T

\* A closed bar is below the bar of the clock.
LEMMA ClosedBars ==
    ASSUME FdInv
    PROVE  clock \div Interval \in Int /\ \A k \in published : k \in Nat /\ k + 1 =< clock \div Interval
<1>1. clock \div Interval \in Int /\ clock < Interval * (clock \div Interval) + Interval
  BY Quotient, BarConstants DEF FdInv
<1> DEFINE b == clock \div Interval
<1>2. b \in Int /\ clock < Interval * b + Interval
  BY <1>1
<1> HIDE DEF b
<1>3. ASSUME NEW k \in published PROVE k \in Nat /\ k + 1 =< b
  <2>1. k \in Nat /\ (k + 1) * Interval =< clock
    BY <1>3, BarConstants DEF FdInv
  <2>2. ASSUME b =< k PROVE FALSE
    <3>1. Interval * b =< Interval * k
      BY <1>2, <2>1, <2>2, TimesMonotone, BarConstants
    <3>2. (k + 1) * Interval = Interval * k + Interval
      BY <2>1, BarConstants
    <3>3. Interval * k \in Nat /\ Interval * b \in Int /\ clock \in Nat /\ Interval \in Nat
      BY <1>2, <2>1, BarConstants DEF FdInv
    <3> QED BY <1>2, <2>1, <3>1, <3>2, <3>3
  <2> QED BY <1>2, <2>1, <2>2
<1> QED BY <1>1, <1>3 DEF b

LEMMA FdInitially == FdInit => FdInv
  BY BarConstants DEF FdInit, FdInv, HolesAreTheVenues

LEMMA HolesRest ==
    ASSUME FdInv, published' = published, stored' = stored, late' = late
    PROVE  HolesAreTheVenues'
  BY DEF FdInv, HolesAreTheVenues, Newest

LEMMA PublishKeeps ==
    ASSUME FdInv, Publish
    PROVE  FdInv'
<1>1. PICK k \in (BarsClosed \ published) \ MarketShut :
        /\ published' = published \cup {k}
        /\ late' = IF k < Newest(stored) THEN late \cup {k} ELSE late
        /\ UNCHANGED <<clock, stored, lastFetch, asked, feedQuoteVars>>
  BY DEF Publish
<1>2. k \in 0 .. FdHorizon /\ (k + 1) * Interval =< clock
  BY <1>1 DEF BarsClosed
<1>3. Newest(stored)' = Newest(stored)
  BY <1>1 DEF Newest
<1>4. HolesAreTheVenues'
  BY <1>1, <1>3, Zenon DEF FdInv, HolesAreTheVenues
<1> QED BY <1>1, <1>2, <1>4 DEF FdInv, feedQuoteVars

LEMMA CountMeansEnough ==
    ASSUME FdInv
    PROVE  /\ CountHoles \in Nat /\ CountHoles >= 1
           /\ \/ CountHoles = History
              \/ stored # {} /\ CountHoles >= clock \div Interval - Newest(stored) + 2
<1>1. CASE stored = {}
  BY <1>1, BarConstants DEF CountHoles
<1>2. CASE stored # {}
  <2> DEFINE elapsed == clock \div Interval - Newest(stored)
             most == Max({3, elapsed + 2})
  <2>1. stored \in SUBSET (0 .. FdHorizon)
    BY DEF FdInv
  <2>2. Newest(stored) \in published
    BY <1>2, <2>1, NewestOf DEF FdInv
  <2>3. elapsed \in Nat /\ elapsed >= 1
    BY <2>2, ClosedBars
  <2> HIDE DEF elapsed
  <2>4. {3, elapsed + 2} \in SUBSET Nat /\ {3, elapsed + 2} # {}
        /\ \A y \in {3, elapsed + 2} : y =< elapsed + 3
    BY <2>3
  <2>5. most \in {3, elapsed + 2} /\ \A y \in {3, elapsed + 2} : most >= y
    BY <2>3, <2>4, LargestExists
  <2>6. most \in Nat /\ most >= 3 /\ most >= elapsed + 2
    BY <2>3, <2>5
  <2> HIDE DEF most
  <2>7. {History, most} \in SUBSET Nat /\ {History, most} # {}
    BY <2>6, BarConstants
  <2>8. Min({History, most}) \in {History, most}
    BY <2>7, SmallestExists
  <2>9. CountHoles = Min({History, most})
    BY <1>2, Zenon DEF CountHoles, most, elapsed
  <2>10. CountHoles = History \/ CountHoles = most
    BY <2>8, <2>9
  <2> QED BY <1>2, <2>6, <2>10, BarConstants DEF elapsed
<1> QED BY <1>1, <1>2

\* A fetch brings everything that closed since the newest stored bar.
LEMMA FetchBarsKeeps ==
    ASSUME FdInv, FetchBars
    PROVE  FdInv'
<1> DEFINE got == Response(CountHoles)
<1>1. /\ stored' = stored \cup (got \cap BarsClosed)
      /\ UNCHANGED <<clock, published, late, feedQuoteVars>>
  BY DEF FetchBars
<1>2. got = {k \in published : Cardinality({j \in published : j > k}) < CountHoles}
  BY DEF Response
<1> HIDE DEF got
<1>3. published \subseteq BarsClosed
  BY DEF FdInv, BarsClosed
<1>4. stored' = stored \cup got /\ stored' \subseteq published
  BY <1>1, <1>2, <1>3 DEF FdInv
<1>5. published \in SUBSET (0 .. FdHorizon) /\ stored \in SUBSET (0 .. FdHorizon)
      /\ stored' \in SUBSET (0 .. FdHorizon)
  BY <1>4 DEF FdInv
<1>6. CountHoles \in Nat /\ CountHoles >= 1
      /\ \/ CountHoles = History
         \/ stored # {} /\ CountHoles >= clock \div Interval - Newest(stored) + 2
  BY CountMeansEnough
<1>7. PICK top \in Int : top = Newest(published)
  BY <1>5, NewestOf
<1>8. \A j \in published : j =< top
  BY <1>5, <1>7, NewestOf
<1>9. PICK old \in Int : old = Newest(stored)
  BY <1>5, NewestOf
<1>10. old >= -1 /\ (stored # {} => old \in stored /\ old \in Nat) /\ \A j \in stored : j =< old
  BY <1>5, <1>9, NewestOf
<1>11. Newest(stored') = top
  <2>1. CASE published = {}
    BY <1>4, <1>7, <2>1 DEF Newest
  <2>2. CASE published # {}
    <3>1. top \in published /\ top \in Nat
      BY <1>5, <1>7, <2>2, NewestOf
    <3>2. {j \in published : j > top} = {}
      <4>1. ASSUME NEW j \in published, j > top PROVE FALSE
        <5>1. j \in Nat /\ j =< top
          BY <1>5, <1>8, BarConstants
        <5> QED BY <3>1, <4>1, <5>1
      <4> QED BY <4>1
    <3>3. Cardinality({j \in published : j > top}) = 0
      BY <3>2, FS_EmptySet
    <3>4. top \in stored'
      BY <1>2, <1>4, <1>6, <3>1, <3>3
    <3>5. Newest(stored') \in stored' /\ Newest(stored') >= top /\ Newest(stored') \in Nat
      BY <1>5, <3>4, NewestOf
    <3>6. Newest(stored') =< top
      BY <1>4, <1>8, <3>5
    <3> QED BY <3>1, <3>5, <3>6
  <2> QED BY <2>1, <2>2
<1>12. Newest(stored)' = top
  BY <1>11 DEF Newest
<1>13. ASSUME NEW k \in published, k \notin stored', k < top, k > top - History
       PROVE  k \in late
  <2>1. k \in Nat /\ k \notin stored /\ k \notin got
    BY <1>4, <1>5, <1>13, BarConstants
  <2> DEFINE n == Cardinality({j \in published : j > k})
  <2>2. n \in Nat /\ (n = 0 \/ n =< top - k)
    BY <1>5, <1>7, <1>8, <2>1, CountAbove
  <2>3. n >= CountHoles
    <3>1. ~(n < CountHoles)
      BY <1>2, <1>13, <2>1
    <3> QED BY <1>6, <2>2, <3>1
  <2> HIDE DEF n
  <2>4. CountHoles # History
    BY <1>6, <1>13, <2>1, <2>2, <2>3, BarConstants
  <2>5. stored # {} /\ n >= clock \div Interval - old + 2
    <3>1. stored # {} /\ CountHoles >= clock \div Interval - old + 2
      BY <1>6, <1>9, <2>4
    <3>2. clock \div Interval \in Int
      BY ClosedBars
    <3> QED BY <1>6, <2>2, <2>3, <3>1, <3>2
  <2>6. top + 1 =< clock \div Interval /\ clock \div Interval \in Int
    <3>1. top \in published
      BY <1>5, <1>7, <1>13, NewestOf
    <3> QED BY <3>1, ClosedBars
  <2>7. PICK b \in Int : b = clock \div Interval
    BY <2>6
  <2>8. n >= b - old + 2 /\ top + 1 =< b /\ old \in Nat /\ old =< top
    <3>1. old \in published
      BY <1>10, <2>5 DEF FdInv
    <3> QED BY <1>8, <1>10, <2>5, <2>6, <2>7, <3>1
  <2>9. k < old
    BY <1>10, <2>1, <2>2, <2>7, <2>8
  <2>10. k > old - History
    BY <1>13, <2>1, <2>8, BarConstants
  <2> QED BY <1>9, <1>13, <2>1, <2>9, <2>10 DEF FdInv, HolesAreTheVenues
<1>14. HolesAreTheVenues'
  BY <1>1, <1>12, <1>13, Zenon DEF HolesAreTheVenues
<1> QED BY <1>1, <1>4, <1>14 DEF FdInv, feedQuoteVars

LEMMA QuoteAgeIsOlder ==
    ASSUME FdInv
    PROVE  QuoteAge \in Nat /\ clock - venueStamp =< QuoteAge
<1> DEFINE ages == {clock - receipt, clock - venueStamp}
<1>1. clock \in Nat /\ clock - receipt \in Nat /\ clock - venueStamp \in Nat
      /\ clock - receipt =< clock /\ clock - venueStamp =< clock
  BY DEF FdInv
<1>2. ages \in SUBSET Nat /\ ages # {} /\ \A y \in ages : y =< clock
  BY <1>1
<1>3. Max(ages) \in ages /\ \A y \in ages : Max(ages) >= y
  BY <1>1, <1>2, LargestExists
<1>4. QuoteAge = Max(ages)
  BY DEF QuoteAge
<1>5. QuoteAge \in Nat /\ QuoteAge >= clock - venueStamp
  BY <1>2, <1>3, <1>4
<1> QED BY <1>1, <1>5

LEMMA EnterOnQuoteKeeps ==
    ASSUME FdInv, EnterOnQuote
    PROVE  FdInv'
<1>1. /\ UNCHANGED <<clock, barVars, venueStamp, receipt>> /\ QuoteAge =< QuoteLimit
      /\ enteredOn' = Max({enteredOn, clock - venueStamp})
  BY DEF EnterOnQuote
<1>2. PICK age \in Nat : age = clock - venueStamp /\ age =< QuoteLimit
  BY <1>1, QuoteAgeIsOlder, BarConstants DEF FdInv
<1>3. {enteredOn, age} \in SUBSET Nat /\ {enteredOn, age} # {}
      /\ \A y \in {enteredOn, age} : y =< QuoteLimit
  BY <1>2, BarConstants DEF FdInv
<1>4. Max({enteredOn, age}) \in {enteredOn, age}
  BY <1>3, LargestExists, BarConstants
<1>5. enteredOn' \in 0 .. QuoteLimit
  BY <1>1, <1>2, <1>3, <1>4
<1>6. HolesAreTheVenues'
  BY <1>1, HolesRest DEF barVars
<1> QED BY <1>1, <1>5, <1>6 DEF FdInv, barVars

LEMMA FdInductive == FdInv /\ [FdNext]_fdVars => FdInv'
<1> SUFFICES ASSUME FdInv, [FdNext]_fdVars PROVE FdInv'
  OBVIOUS
<1>1. CASE FdTick
  <2>1. HolesAreTheVenues'
    BY <1>1, HolesRest DEF FdTick, barVars
  <2>2. clock' = clock + 1 /\ UNCHANGED <<barVars, feedQuoteVars>>
    BY <1>1 DEF FdTick
  <2>3. \A k \in published : (k + 1) * Interval =< clock'
    <3> TAKE k \in published
    <3>1. (k + 1) * Interval \in Int /\ (k + 1) * Interval =< clock /\ clock \in Nat
      BY BarConstants DEF FdInv
    <3> QED BY <2>2, <3>1
  <2> QED BY <2>1, <2>2, <2>3 DEF FdInv, barVars, feedQuoteVars
<1>2. CASE FdRestart \/ FetchFails
  <2>1. UNCHANGED <<clock, published, stored, late, feedQuoteVars>>
    BY <1>2 DEF FdRestart, FetchFails
  <2>2. HolesAreTheVenues'
    BY <2>1, HolesRest
  <2> QED BY <2>1, <2>2 DEF FdInv, feedQuoteVars
<1>3. CASE QuoteReceived
  <2>1. HolesAreTheVenues'
    BY <1>3, HolesRest DEF QuoteReceived, barVars
  <2> QED BY <1>3, <2>1 DEF FdInv, QuoteReceived, barVars
<1>4. CASE UNCHANGED fdVars
  <2>1. HolesAreTheVenues'
    BY <1>4, HolesRest DEF fdVars
  <2> QED BY <1>4, <2>1 DEF FdInv, fdVars
<1> QED BY <1>1, <1>2, <1>3, <1>4, PublishKeeps, FetchBarsKeeps, EnterOnQuoteKeeps
        DEF FdNext, BarsNext

LEMMA FreshBarsAreAskedFor == FdInv => FreshBarNotSuppressed
<1> SUFFICES ASSUME FdInv, NEW k \in published, k > Newest(stored) PROVE ~NothingNewYet
  BY DEF FreshBarNotSuppressed
<1>1. PICK new \in Int : new = Newest(stored)
  BY NewestOf DEF FdInv
<1>2. k \in Nat /\ k >= new + 1 /\ (k + 1) * Interval =< clock /\ clock \in Nat
  BY <1>1, BarConstants DEF FdInv
<1>3. Interval * (new + 2) =< Interval * (k + 1)
  BY <1>1, <1>2, TimesMonotone, BarConstants
<1>4. (new + 2) * Interval =< clock
  <2>1. Interval * (new + 2) = (new + 2) * Interval /\ Interval * (k + 1) = (k + 1) * Interval
    BY <1>1, <1>2, BarConstants
  <2>2. (new + 2) * Interval \in Int /\ (k + 1) * Interval \in Int
    BY <1>1, <1>2, BarConstants
  <2> QED BY <1>2, <1>3, <2>1, <2>2
<1>5. (new + 2) * Interval \in Int
  BY <1>1, BarConstants
<1> QED BY <1>1, <1>2, <1>4, <1>5 DEF NothingNewYet

LEMMA GapsAreCounted == FdInv => AGapIsAFact
<1> SUFFICES ASSUME FdInv, Cardinality(stored) >= 3, NEW k \in 0 .. FdHorizon,
                    k \notin stored \cup MarketShut, k < Newest(stored), NEW j \in stored, j < k
             PROVE  Quality # "OK"
  BY DEF AGapIsAFact
<1> DEFINE below == {i \in stored : i < k}
           above == {i \in stored : i > k}
           a == Max(below)
           b == Min(above)
<1>1. stored \in SUBSET (0 .. FdHorizon) /\ stored \in SUBSET Nat
  BY BarConstants DEF FdInv
<1>2. Newest(stored) \in stored
  BY <1>1, NewestOf
<1>3. below \in SUBSET Nat /\ below # {} /\ (\A i \in below : i =< FdHorizon)
      /\ above \in SUBSET Nat /\ above # {}
  <2>1. j \in below /\ below \in SUBSET Nat /\ above \in SUBSET Nat
    BY <1>1
  <2>2. Newest(stored) \in above
    BY <1>1, <1>2
  <2>3. ASSUME NEW i \in below PROVE i =< FdHorizon
    BY <1>1, BarConstants
  <2> QED BY <2>1, <2>2, <2>3
<1> HIDE DEF below, above
<1>4. a \in below /\ \A i \in below : a >= i
  BY <1>3, LargestExists, BarConstants
<1>5. b \in above /\ \A i \in above : b =< i
  BY <1>3, SmallestExists
<1> HIDE DEF a, b
<1>6. a \in stored /\ b \in stored /\ a < k /\ k < b
  BY <1>4, <1>5 DEF below, above
<1>7. \A c \in stored : c < k \/ c > k
  BY <1>1
<1>8. Neighbours(a, b)
  <2>1. ASSUME NEW c \in stored, a < c, c < b PROVE FALSE
    BY <1>1, <1>4, <1>5, <1>6, <1>7, <2>1 DEF below, above
  <2>2. a < b
    BY <1>1, <1>6
  <2> QED BY <1>6, <2>1, <2>2 DEF Neighbours
<1>9. Apart(a, b) /\ k \in (a + 1) .. (b - 1) /\ k \notin MarketShut
  BY <1>1, <1>6 DEF Apart
<1> DEFINE gaps == {p \in stored \X stored :
                      /\ Neighbours(p[1], p[2]) /\ Apart(p[1], p[2])
                      /\ \E c \in (p[1] + 1) .. (p[2] - 1) : c \notin MarketShut}
<1>10. <<a, b>> \in gaps
  BY <1>6, <1>8, <1>9
<1>11. IsFiniteSet(gaps)
  <2>1. IsFiniteSet(0 .. FdHorizon)
    BY FS_Interval, BarConstants
  <2>2. IsFiniteSet(stored)
    BY <1>1, <2>1, FS_Subset
  <2>3. IsFiniteSet(stored \X stored)
    BY <2>2, FS_Product
  <2> QED BY <2>3, FS_Subset
<1>12. CountGaps = Cardinality(gaps)
  <2>1. ~(Cardinality(stored) < 3)
    <3>1. IsFiniteSet(0 .. FdHorizon)
      BY FS_Interval, BarConstants
    <3>2. Cardinality(stored) \in Nat
      BY <1>1, <3>1, FS_Subset, FS_CardinalityType
    <3> QED BY <3>2
  <2> QED BY <2>1 DEF CountGaps
<1> HIDE DEF gaps
<1>13. CountGaps \in Nat /\ CountGaps # 0
  BY <1>10, <1>11, <1>12, FS_EmptySet, FS_CardinalityType
<1>14. CountGaps > 0
  BY <1>13
<1> QED BY <1>14 DEF Quality

-----------------------------------------------------------------------------
(* The reference stream. While no two ticks overlapped, only the worker    *)
(* whose event stop() would set may go on, and the handle, unless it was   *)
(* forgotten, is that worker's; a tick that read the switch acts on what   *)
(* it still says, or the switch has moved since.                           *)

OneTickAtATime ==
    \A j, k \in StreamTickers : ticking[j] # "idle" /\ ticking[k] # "idle" => j = k

Obedient ==
    /\ heard = "yes" => \A k \in StreamTickers : ticking[k] = "idle"
    /\ heard = "reading" => \A k \in StreamTickers : ticking[k] # "idle" =>
                               (ticking[k] = "start" <=> switchedOn)

CurrentOnly ==
    /\ Writers \subseteq {current} /\ handle \in {0, current}
    /\ handle = 0 => Writers = {}
    /\ \A k \in StreamTickers : ticking[k] = "join" => current \in told

StreamInv ==
    /\ handle \in {0} \cup Crew /\ current \in {0} \cup Crew
    /\ worker \in [Crew -> {"none", "connecting", "ready", "session", "waiting", "dead"}]
    /\ ticking \in [StreamTickers -> {"idle", "start", "stop", "join"}]
    /\ ~crossedTicks => OneTickAtATime /\ Obedient /\ CurrentOnly
    /\ OffIsQuiet

QuoteInv ==
    /\ refNow \in Nat /\ priceAt \in Int /\ priceAt =< refNow
    /\ fields \in [{"bid", "ask", "last"} -> Nat \cup {NoPrice}]
    /\ \A f \in {"bid", "ask", "last"} : fields[f] # NoPrice => priceAt >= 0
    /\ fields.bid # NoPrice /\ fields.ask # NoPrice => fields.bid =< fields.ask
    /\ AbsenceChangesNothing

LEMMA NoWorkerZero == 0 \notin Crew
  BY DEF Crew

LEMMA NotRunningIsQuiet ==
    ASSUME CurrentOnly, ~StreamRunning
    PROVE  Writers = {}
  BY DEF CurrentOnly, StreamRunning, Writers

LEMMA JoinedIsQuiet ==
    ASSUME CurrentOnly, NEW k \in StreamTickers, ticking[k] = "join"
    PROVE  Writers = {}
  BY DEF CurrentOnly, Writers

LEMMA StreamInitially == RsInit => StreamInv /\ QuoteInv
<1> SUFFICES ASSUME RsInit PROVE StreamInv /\ QuoteInv
  OBVIOUS
<1>1. Writers = {}
  BY DEF RsInit, Writers, Alive
<1>2. StreamInv
  BY <1>1 DEF RsInit, StreamInv, OneTickAtATime, Obedient, CurrentOnly, OffIsQuiet
<1>3. QuoteInv
  BY DEF RsInit, QuoteInv, AbsenceChangesNothing, Unjudged, NoPrice
<1> QED BY <1>2, <1>3

\* A tick that ends, with nobody left that should have stopped.
LEMMA TickEndsQuietly ==
    ASSUME StreamInv, NEW k \in StreamTickers, ticking[k] # "idle", TickEnds(k),
           UNCHANGED <<switchedOn, crossedTicks>>
    PROVE  /\ ticking' \in [StreamTickers -> {"idle", "start", "stop", "join"}]
           /\ \A j \in StreamTickers : ticking'[j] # "idle" => ticking'[j] = ticking[j]
           /\ ~crossedTicks => /\ \A j \in StreamTickers : ticking'[j] = "idle"
                               /\ OneTickAtATime' /\ Obedient'
           /\ (~crossedTicks /\ heard' = "yes") => (ticking[k] = "start" <=> switchedOn)
<1>1. /\ ticking' = [ticking EXCEPT ![k] = "idle"]
      /\ heard' = IF heard = "reading" THEN "yes" ELSE heard
  BY DEF TickEnds
<1>2. /\ ticking \in [StreamTickers -> {"idle", "start", "stop", "join"}]
      /\ ~crossedTicks => OneTickAtATime /\ Obedient
  BY DEF StreamInv
<1>3. ~crossedTicks => \A j \in StreamTickers : ticking'[j] = "idle"
  BY <1>1, <1>2 DEF OneTickAtATime
<1>4. ~crossedTicks => OneTickAtATime' /\ Obedient'
  BY <1>1, <1>3 DEF OneTickAtATime, Obedient
<1>5. (~crossedTicks /\ heard' = "yes") => (ticking[k] = "start" <=> switchedOn)
  BY <1>1, <1>2 DEF Obedient
<1> QED BY <1>1, <1>2, <1>3, <1>4, <1>5

LEMMA TickReadsKeeps ==
    ASSUME StreamInv, NEW k \in StreamTickers, TickReads(k)
    PROVE  StreamInv'
<1>1. /\ ticking[k] = "idle"
      /\ ticking' = [ticking EXCEPT ![k] = IF switchedOn THEN "start" ELSE "stop"]
      /\ crossedTicks' = (crossedTicks \/ Overlapping(k)) /\ heard' = "reading"
      /\ UNCHANGED <<switchedOn, worker, told, current, handle, quoteVars>>
  BY DEF TickReads
<1>2. ticking \in [StreamTickers -> {"idle", "start", "stop", "join"}]
      /\ ticking' \in [StreamTickers -> {"idle", "start", "stop", "join"}]
  BY <1>1 DEF StreamInv
<1>3. ASSUME ~crossedTicks' PROVE OneTickAtATime' /\ Obedient' /\ CurrentOnly'
  <2>1. ~crossedTicks /\ \A j \in StreamTickers \ {k} : ticking[j] = "idle" /\ ticking'[j] = "idle"
    BY <1>1, <1>2, <1>3 DEF Overlapping
  <2>2. ticking'[k] = IF switchedOn THEN "start" ELSE "stop"
    BY <1>1, <1>2
  <2>3. OneTickAtATime'
    BY <2>1 DEF OneTickAtATime
  <2>4. Obedient'
    BY <1>1, <2>1, <2>2 DEF Obedient
  <2>5. CurrentOnly /\ Writers' = Writers
    BY <1>1, <2>1 DEF StreamInv, Writers, Alive
  <2>6. CurrentOnly'
    BY <1>1, <2>1, <2>2, <2>5 DEF CurrentOnly
  <2> QED BY <2>3, <2>4, <2>6
<1>4. OffIsQuiet'
  BY <1>1 DEF OffIsQuiet
<1> QED BY <1>1, <1>2, <1>3, <1>4 DEF StreamInv

LEMMA TickStartsKeeps ==
    ASSUME StreamInv, NEW k \in StreamTickers, TickStarts(k)
    PROVE  StreamInv'
<1>1. /\ ticking[k] = "start" /\ TickEnds(k)
      /\ IF StreamRunning THEN UNCHANGED <<worker, told, current, handle>>
         ELSE \E w \in Crew : /\ worker[w] = "none" /\ \A v \in Crew : v < w => worker[v] # "none"
                              /\ Started(w)
      /\ UNCHANGED <<switchedOn, crossedTicks, quoteVars>>
  BY DEF TickStarts
<1>2. /\ ticking' \in [StreamTickers -> {"idle", "start", "stop", "join"}]
      /\ ~crossedTicks => /\ \A j \in StreamTickers : ticking'[j] = "idle"
                          /\ OneTickAtATime' /\ Obedient'
      /\ (~crossedTicks /\ heard' = "yes") => (ticking[k] = "start" <=> switchedOn)
  BY <1>1, TickEndsQuietly
<1>3. OffIsQuiet'
  BY <1>1, <1>2 DEF OffIsQuiet
<1>4. CASE StreamRunning
  <2>1. UNCHANGED <<worker, told, current, handle>>
    BY <1>1, <1>4
  <2>2. Writers' = Writers
    BY <2>1 DEF Writers, Alive
  <2>3. ~crossedTicks => CurrentOnly'
    BY <1>2, <2>1, <2>2 DEF StreamInv, CurrentOnly
  <2> QED BY <1>1, <1>2, <1>3, <2>1, <2>3 DEF StreamInv
<1>5. CASE ~StreamRunning
  <2>1. PICK w \in Crew : Started(w)
    BY <1>1, <1>5
  <2>2. /\ told' = told /\ current' = w /\ handle' = w
        /\ worker' = [worker EXCEPT ![w] = "connecting"]
    BY <2>1 DEF Started
  <2>3. ASSUME ~crossedTicks PROVE CurrentOnly'
    <3>1. Writers = {}
      BY <1>5, <2>3, NotRunningIsQuiet DEF StreamInv
    <3>2. Writers' \subseteq {w}
      BY <2>2, <3>1 DEF StreamInv, Writers, Alive
    <3>3. w # 0
      BY NoWorkerZero
    <3> QED BY <1>2, <2>2, <2>3, <3>2, <3>3 DEF CurrentOnly
  <2> QED BY <1>1, <1>2, <1>3, <2>2, <2>3 DEF StreamInv
<1> QED BY <1>4, <1>5

LEMMA TickStopsKeeps ==
    ASSUME StreamInv, NEW k \in StreamTickers, TickStops(k)
    PROVE  StreamInv'
<1>1. /\ ticking[k] = "stop" /\ StreamRunning /\ told' = told \cup {current}
      /\ ticking' = [ticking EXCEPT ![k] = "join"]
      /\ UNCHANGED <<switchedOn, worker, current, handle, heard, crossedTicks, quoteVars>>
  BY DEF TickStops
<1>2. ticking \in [StreamTickers -> {"idle", "start", "stop", "join"}]
      /\ ticking' \in [StreamTickers -> {"idle", "start", "stop", "join"}]
  BY <1>1 DEF StreamInv
<1>3. Writers' \subseteq Writers
  BY <1>1 DEF Writers, Alive
<1>4. ASSUME ~crossedTicks PROVE OneTickAtATime' /\ Obedient' /\ CurrentOnly'
  <2>1. OneTickAtATime /\ Obedient /\ CurrentOnly
    BY <1>4 DEF StreamInv
  <2>2. \A j \in StreamTickers : ticking'[j] = IF j = k THEN "join" ELSE ticking[j]
    BY <1>1, <1>2
  <2>3. OneTickAtATime'
    BY <1>1, <2>1, <2>2 DEF OneTickAtATime
  <2>4. Obedient'
    BY <1>1, <2>1, <2>2 DEF Obedient
  <2>5. CurrentOnly'
    BY <1>1, <1>3, <2>1 DEF CurrentOnly
  <2> QED BY <2>3, <2>4, <2>5
<1>5. OffIsQuiet'
  BY <1>1, <1>3 DEF StreamInv, OffIsQuiet, quoteVars
<1> QED BY <1>1, <1>2, <1>4, <1>5 DEF StreamInv

LEMMA TickEndsStopped ==
    ASSUME StreamInv, NEW k \in StreamTickers, TickQuiet(k) \/ StopForgets(k)
    PROVE  StreamInv'
<1>1. /\ ticking[k] # "idle" /\ TickEnds(k) /\ Unsubscribed /\ handle' \in {0, handle}
      /\ UNCHANGED <<switchedOn, worker, told, current, crossedTicks>>
  BY DEF TickQuiet, StopForgets
<1>2. /\ ticking' \in [StreamTickers -> {"idle", "start", "stop", "join"}]
      /\ ~crossedTicks => /\ \A j \in StreamTickers : ticking'[j] = "idle"
                          /\ OneTickAtATime' /\ Obedient'
  BY <1>1, TickEndsQuietly
<1>3. ~crossedTicks => Writers = {}
  BY NotRunningIsQuiet, JoinedIsQuiet DEF TickQuiet, StopForgets, StreamInv
<1>4. Writers' = Writers
  BY <1>1 DEF Writers, Alive
<1>5. ~crossedTicks => CurrentOnly'
  BY <1>1, <1>2, <1>3, <1>4 DEF StreamInv, CurrentOnly
<1>6. OffIsQuiet'
  BY <1>1, <1>3, <1>4 DEF OffIsQuiet, Unsubscribed
<1> QED BY <1>1, <1>2, <1>5, <1>6 DEF StreamInv

LEMMA OwnerSwitchesKeeps == ASSUME StreamInv, OwnerSwitches PROVE StreamInv'
<1>1. Writers' = Writers
  BY DEF OwnerSwitches, Writers, Alive
<1> QED BY <1>1 DEF OwnerSwitches, StreamInv, OneTickAtATime, Obedient, CurrentOnly, OffIsQuiet

\* A worker that goes on was going on before.
LEMMA WorkerStepKeeps ==
    ASSUME StreamInv, NEW w \in Crew, WorkerConnects(w) \/ WorkerSession(w) \/ WorkerEnds(w)
    PROVE  StreamInv'
<1>1. /\ UNCHANGED <<switchedOn, told, current, handle, ticking, heard, crossedTicks, quoteVars>>
      /\ worker[w] \notin {"none", "dead"}
      /\ \A v \in Crew \ {w} : worker'[v] = worker[v]
      /\ worker' \in [Crew -> {"none", "connecting", "ready", "session", "waiting", "dead"}]
  BY DEF WorkerConnects, WorkerSession, WorkerEnds, StreamInv
<1>2. Writers' \subseteq Writers
  BY <1>1 DEF Writers, Alive
<1>3. ASSUME ~crossedTicks PROVE OneTickAtATime' /\ Obedient' /\ CurrentOnly'
  BY <1>1, <1>2, <1>3 DEF StreamInv, OneTickAtATime, Obedient, CurrentOnly
<1>4. OffIsQuiet'
  BY <1>1, <1>2 DEF StreamInv, OffIsQuiet, quoteVars
<1> QED BY <1>1, <1>3, <1>4 DEF StreamInv

\* The quote: what it shows of a price was taken when the clock read priceAt.
LEMMA QuoteUpdateKeeps ==
    ASSUME QuoteInv, NEW w \in Crew, NEW block \in Blocks, QuoteUpdate(w, block)
    PROVE  QuoteInv'
<1> DEFINE news == {f \in DOMAIN block : fields[f] # block[f]}
           merged == [f \in DOMAIN fields |-> IF f \in news THEN block[f] ELSE fields[f]]
<1>1. /\ fields' = IF Crossed(merged) THEN [merged EXCEPT !.bid = NoPrice, !.ask = NoPrice]
                   ELSE merged
      /\ priceAt' = IF news # {} THEN refNow ELSE priceAt
      /\ UNCHANGED <<refNow, verdict, judgedAt>>
  BY DEF QuoteUpdate
<1>2. \A f \in DOMAIN block : f \in {"bid", "ask", "last"} /\ block[f] \in Nat
  <2>1. PICK fs \in SUBSET {"bid", "ask", "last"} : block \in [fs -> RefPrices]
    BY Zenon DEF Blocks
  <2>2. RefPrices \subseteq Nat
    BY ReferenceAssumption
  <2> QED BY <2>1, <2>2
<1>3. DOMAIN fields = {"bid", "ask", "last"} /\ news \subseteq DOMAIN block
  BY DEF QuoteInv
<1>4. merged \in [{"bid", "ask", "last"} -> Nat \cup {NoPrice}]
      /\ \A f \in {"bid", "ask", "last"} : f \notin news => merged[f] = fields[f]
  BY <1>2, <1>3 DEF QuoteInv
<1> HIDE DEF news, merged
<1>5. fields' \in [{"bid", "ask", "last"} -> Nat \cup {NoPrice}]
      /\ \A f \in {"bid", "ask", "last"} : fields'[f] = merged[f] \/ fields'[f] = NoPrice
  BY <1>1, <1>4
<1>6. fields'.bid # NoPrice /\ fields'.ask # NoPrice => fields'.bid =< fields'.ask
  <2>1. CASE Crossed(merged)
    <3>1. fields'["bid"] = NoPrice
      BY <1>1, <1>4, <2>1
    <3> QED BY <3>1
  <2>2. CASE ~Crossed(merged)
    <3>1. fields' = merged /\ merged["bid"] \in Nat \cup {NoPrice}
          /\ merged["ask"] \in Nat \cup {NoPrice}
      BY <1>1, <1>4, <2>2
    <3> QED BY <2>2, <3>1 DEF Crossed, NoPrice
  <2> QED BY <2>1, <2>2
<1>7. priceAt' \in Int /\ priceAt' =< refNow /\ priceAt' >= priceAt
  BY <1>1 DEF QuoteInv
<1>8. ASSUME NEW f \in {"bid", "ask", "last"}, fields'[f] # NoPrice PROVE priceAt' >= 0
  <2>1. merged[f] # NoPrice
    BY <1>5, <1>8
  <2>2. CASE f \in news
    BY <1>1, <2>2 DEF QuoteInv
  <2>3. CASE f \notin news
    BY <1>4, <1>7, <2>1, <2>3 DEF QuoteInv
  <2> QED BY <2>2, <2>3
<1>9. AbsenceChangesNothing'
  BY <1>1 DEF QuoteInv, AbsenceChangesNothing
<1> QED BY <1>1, <1>5, <1>6, <1>7, <1>8, <1>9 DEF QuoteInv

LEMMA BuildContextKeeps ==
    ASSUME QuoteInv, BuildContext
    PROVE  QuoteInv'
<1>1. verdict' = Checked /\ judgedAt' = refNow /\ UNCHANGED <<refNow, fields, priceAt>>
  BY DEF BuildContext
<1>2. ASSUME verdict'.status = "block" PROVE judgedAt' - verdict'.since =< MaxAge
  <2>1. ~(refNow - priceAt > MaxAge) /\ verdict'.since = priceAt
    <3>1. Unjudged.status # "block"
      BY DEF Unjudged
    <3>2. ~(~switchedOn \/ (~Sided /\ fields.last = NoPrice) \/ refNow - priceAt > MaxAge)
      BY <1>1, <1>2, <3>1 DEF Checked
    <3>3. verdict' = [status |-> IF Gap2 > 2 * BlockAt THEN "block" ELSE "ok", since |-> priceAt]
      BY <1>1, <3>2 DEF Checked
    <3> QED BY <3>2, <3>3
  <2>2. refNow \in Nat /\ priceAt \in Int /\ MaxAge \in Nat
    BY ReferenceAssumption DEF QuoteInv
  <2> QED BY <1>1, <2>1, <2>2
<1>3. AbsenceChangesNothing'
  BY <1>2 DEF AbsenceChangesNothing
<1> QED BY <1>1, <1>3 DEF QuoteInv

LEMMA UnsubscribedKeeps ==
    ASSUME QuoteInv, Unsubscribed, UNCHANGED <<refNow, verdict, judgedAt>>
    PROVE  QuoteInv'
<1>1. fields' = [f \in {"bid", "ask", "last"} |-> NoPrice] /\ priceAt' = -1
  BY DEF Unsubscribed, QuoteInv
<1>2. AbsenceChangesNothing'
  BY DEF QuoteInv, AbsenceChangesNothing
<1> QED BY <1>1, <1>2 DEF QuoteInv, NoPrice

LEMMA StreamInductive == StreamInv /\ [RsNext]_rsVars => StreamInv'
<1> SUFFICES ASSUME StreamInv, [RsNext]_rsVars PROVE StreamInv'
  OBVIOUS
<1>1. ASSUME UNCHANGED workVars, priceAt' = priceAt \/ switchedOn PROVE StreamInv'
  <2>1. Writers' = Writers
    BY <1>1 DEF Writers, Alive, workVars
  <2> QED BY <1>1, <2>1 DEF workVars, StreamInv, OneTickAtATime, Obedient, CurrentOnly, OffIsQuiet
<1>2. CASE BuildContext \/ RefTime \/ UNCHANGED rsVars
  BY <1>1, <1>2 DEF BuildContext, RefTime, rsVars, quoteVars
<1>3. ASSUME NEW w \in Crew, NEW block \in Blocks, QuoteUpdate(w, block) PROVE StreamInv'
  BY <1>1, <1>3 DEF QuoteUpdate
<1> QED BY <1>2, <1>3, TickReadsKeeps, TickStartsKeeps, TickStopsKeeps, TickEndsStopped,
           OwnerSwitchesKeeps, WorkerStepKeeps DEF RsNext, WorkNext, PriceNext

LEMMA QuoteInductive == QuoteInv /\ [RsNext]_rsVars => QuoteInv'
<1> SUFFICES ASSUME QuoteInv, [RsNext]_rsVars PROVE QuoteInv'
  OBVIOUS
<1>1. ASSUME UNCHANGED quoteVars PROVE QuoteInv'
  BY <1>1 DEF quoteVars, QuoteInv, AbsenceChangesNothing
<1>2. CASE RefTime
  BY <1>2 DEF RefTime, QuoteInv, AbsenceChangesNothing
<1>3. ASSUME NEW k \in StreamTickers, TickQuiet(k) \/ StopForgets(k) PROVE QuoteInv'
  BY <1>3, UnsubscribedKeeps DEF TickQuiet, StopForgets
<1>4. ASSUME NEW k \in StreamTickers, TickReads(k) \/ TickStarts(k) \/ TickStops(k) PROVE QuoteInv'
  BY <1>1, <1>4 DEF TickReads, TickStarts, TickStops
<1>5. ASSUME NEW w \in Crew, WorkerConnects(w) \/ WorkerSession(w) \/ WorkerEnds(w) PROVE QuoteInv'
  BY <1>1, <1>5 DEF WorkerConnects, WorkerSession, WorkerEnds
<1>6. CASE OwnerSwitches \/ UNCHANGED rsVars
  BY <1>1, <1>6 DEF OwnerSwitches, rsVars
<1> QED BY <1>2, <1>3, <1>4, <1>5, <1>6, QuoteUpdateKeeps, BuildContextKeeps
        DEF RsNext, WorkNext, PriceNext

LEMMA ReferenceIsGuarded ==
    ASSUME StreamInv, QuoteInv
    PROVE  RsTypeOK /\ OneWriter /\ OffIsQuiet /\ AbsenceChangesNothing
<1>1. ASSUME ~crossedTicks PROVE Cardinality(Writers) =< 1
  <2>1. IsFiniteSet({current}) /\ Cardinality({current}) = 1
    BY FS_Singleton
  <2>2. Writers \in SUBSET {current}
    BY <1>1 DEF StreamInv, CurrentOnly
  <2>3. Cardinality(Writers) =< Cardinality({current})
    BY <2>1, <2>2, FS_Subset
  <2> QED BY <2>1, <2>3
<1>2. RsTypeOK
  BY DEF StreamInv, QuoteInv, RsTypeOK
<1> QED BY <1>1, <1>2 DEF StreamInv, QuoteInv, OneWriter

-----------------------------------------------------------------------------
(* The measured link. The smallest sample with k of them at or below it is *)
(* above the ceiling when more than half are, and below it when more than  *)
(* half are: that is all the median is used for. The wall clock has gained *)
(* on the monotonic one, since the last check, what it was stepped.        *)

SkewsAreReal == VenueStamps => \A i \in DOMAIN skews : skews[i].measured = skews[i].real

LhTypes ==
    /\ monoAt \in Nat /\ wallAt \in Int
    /\ skews \in Seq([measured : Int, real : Int])
    /\ lastCheck \in [wall : Int, mono : Int] /\ regressions \in Nat
    /\ outageFrom \in Int /\ brokeAt \in Int
    /\ lastOutage \in [length : Int, lasted : Int, stepped : BOOLEAN]
    /\ {steppedIn, wentBack, wentOn} \subseteq BOOLEAN

GainInv ==
    LET gained == (wallAt - lastCheck.wall) - (monoAt - lastCheck.mono) IN
    /\ ~wentOn => gained =< 0
    /\ (~wentOn /\ wentBack) => gained < 0

LhInv == LhTypes /\ SkewsAreReal /\ GainInv /\ OutageIsMeasured /\ StepsBackAreOnRecord

LEMMA LinkConstants ==
    /\ VenueStamps \in BOOLEAN /\ SkewWindow \in Nat \ {0} /\ SkewCeiling \in Nat
    /\ FreezeAfter \in Nat /\ StepBack \in Nat /\ StepOn \in Nat /\ MaxSteps \in Nat /\ NotDown \in Int
<1>1. /\ VenueStamps \in BOOLEAN /\ SkewWindow \in Nat \ {0} /\ SkewCeiling \in Nat
      /\ FreezeAfter \in Nat /\ StepBack \in Nat /\ StepOn \in Nat /\ MaxSteps \in Nat
  BY LinkAssumption
<1> QED BY <1>1 DEF NotDown

LEMMA LhInitially == LhInit => LhInv
<1> SUFFICES ASSUME LhInit PROVE LhInv
  OBVIOUS
<1>1. LhTypes
  <2>1. NoOutage \in [length : Int, lasted : Int, stepped : BOOLEAN]
    BY DEF NoOutage
  <2>2. skews \in Seq([measured : Int, real : Int])
    BY DEF LhInit
  <2>3. lastCheck \in [wall : Int, mono : Int]
    BY DEF LhInit
  <2> QED BY <2>1, <2>2, <2>3, LinkConstants DEF LhInit, LhTypes
<1>2. SkewsAreReal
  BY DEF LhInit, SkewsAreReal
<1>3. GainInv /\ OutageIsMeasured /\ StepsBackAreOnRecord
  BY DEF LhInit, GainInv, OutageIsMeasured, StepsBackAreOnRecord, NoOutage
<1> QED BY <1>1, <1>2, <1>3 DEF LhInv

LEMMA CheckClockKeeps ==
    ASSUME LhInv, CheckClock, UNCHANGED clockVars
    PROVE  /\ lastCheck' \in [wall : Int, mono : Int] /\ regressions' \in Nat
           /\ wentBack' = FALSE /\ wentOn' = FALSE
           /\ GainInv' /\ StepsBackAreOnRecord'
<1>1. /\ lastCheck' = [wall |-> wallAt, mono |-> monoAt]
      /\ regressions' = IF WentBackSince THEN regressions + 1 ELSE regressions
      /\ missed' = (missed \/ (wentBack /\ ~wentOn /\ regressions' = regressions))
      /\ wentBack' = FALSE /\ wentOn' = FALSE
      /\ wallAt' = wallAt /\ monoAt' = monoAt
  BY DEF CheckClock, clockVars
<1>2. monoAt \in Nat /\ wallAt \in Int /\ regressions \in Nat
  BY DEF LhInv, LhTypes
<1>3. lastCheck' \in [wall : Int, mono : Int] /\ regressions' \in Nat
  BY <1>1, <1>2
<1>4. GainInv'
  <2>1. (wallAt - lastCheck'.wall) - (monoAt - lastCheck'.mono) = 0
    BY <1>1, <1>2
  <2> QED BY <1>1, <2>1 DEF GainInv
<1>5. wentBack /\ ~wentOn => regressions' # regressions
  <2>1. wentBack /\ ~wentOn => WentBackSince
    BY DEF LhInv, GainInv, WentBackSince
  <2> QED BY <1>1, <1>2, <2>1
<1>6. StepsBackAreOnRecord'
  BY <1>1, <1>5 DEF LhInv, StepsBackAreOnRecord
<1> QED BY <1>1, <1>3, <1>4, <1>6

LEMMA ProbeOkKeeps ==
    ASSUME LhInv, ProbeOk
    PROVE  LhInv'
<1> DEFINE sample == [measured |-> wallAt - AccountStamp, real |-> wallAt - monoAt]
           retained == IF Len(skews) < SkewWindow THEN skews ELSE Tail(skews)
<1>1. /\ skews' = Append(retained, sample) /\ CheckClock /\ UNCHANGED clockVars
      /\ lastOutage' = IF outageFrom = NotDown THEN lastOutage
                       ELSE [length |-> wallAt - outageFrom, lasted |-> monoAt - brokeAt,
                             stepped |-> steppedIn]
      /\ outageFrom' = NotDown /\ brokeAt' = NotDown /\ steppedIn' = FALSE
  BY DEF ProbeOk
<1>2. /\ monoAt \in Nat /\ wallAt \in Int /\ skews \in Seq([measured : Int, real : Int])
      /\ outageFrom \in Int /\ brokeAt \in Int /\ steppedIn \in BOOLEAN
      /\ lastOutage \in [length : Int, lasted : Int, stepped : BOOLEAN]
  BY DEF LhInv, LhTypes
<1>3. sample \in [measured : Int, real : Int] /\ (VenueStamps => sample.measured = sample.real)
  BY <1>2 DEF AccountStamp
<1>4. /\ retained \in Seq([measured : Int, real : Int])
      /\ VenueStamps => \A i \in DOMAIN retained : retained[i].measured = retained[i].real
  <2>1. CASE Len(skews) < SkewWindow
    BY <1>2, <2>1 DEF LhInv, SkewsAreReal
  <2>2. CASE ~(Len(skews) < SkewWindow)
    <3>1. skews # <<>>
      BY <1>2, <2>2, LinkConstants
    <3>2. /\ retained = Tail(skews) /\ retained \in Seq([measured : Int, real : Int])
          /\ \A i \in DOMAIN retained : i + 1 \in DOMAIN skews /\ retained[i] = skews[i + 1]
      BY <1>2, <2>2, <3>1
    <3> QED BY <3>2 DEF LhInv, SkewsAreReal
  <2> QED BY <2>1, <2>2
<1> HIDE DEF sample, retained
<1>5. skews' \in Seq([measured : Int, real : Int]) /\ SkewsAreReal'
  <2>1. /\ skews' \in Seq([measured : Int, real : Int])
        /\ \A i \in DOMAIN skews' : \/ i \in DOMAIN retained /\ skews'[i] = retained[i]
                                    \/ skews'[i] = sample
    BY <1>1, <1>3, <1>4
  <2> QED BY <1>3, <1>4, <2>1 DEF SkewsAreReal
<1>6. lastOutage' \in [length : Int, lasted : Int, stepped : BOOLEAN]
  <2>1. [length |-> wallAt - outageFrom, lasted |-> monoAt - brokeAt, stepped |-> steppedIn]
        \in [length : Int, lasted : Int, stepped : BOOLEAN]
    BY <1>2
  <2> QED BY <1>1, <1>2, <2>1
<1>7. OutageIsMeasured'
  <2>1. ~lastOutage'.stepped => lastOutage'.length = lastOutage'.lasted
    <3>1. CASE outageFrom = NotDown
      BY <1>1, <3>1 DEF LhInv, OutageIsMeasured
    <3>2. CASE outageFrom # NotDown
      BY <1>1, <3>2 DEF LhInv, OutageIsMeasured, OfflineSeconds
    <3> QED BY <3>1, <3>2
  <2> QED BY <1>1, <2>1 DEF OutageIsMeasured
<1>8. LhTypes'
  BY <1>1, <1>2, <1>5, <1>6, CheckClockKeeps, LinkConstants DEF LhTypes, clockVars
<1> QED BY <1>1, <1>5, <1>7, <1>8, CheckClockKeeps DEF LhInv

LEMMA ProbeFailsKeeps ==
    ASSUME LhInv, ProbeFails
    PROVE  LhInv'
<1>1. /\ CheckClock /\ UNCHANGED <<clockVars, skews, lastOutage, steppedIn>>
      /\ outageFrom' = IF outageFrom = NotDown THEN wallAt ELSE outageFrom
      /\ brokeAt' = IF outageFrom = NotDown THEN monoAt ELSE brokeAt
  BY DEF ProbeFails, Begins
<1>2. LhTypes'
  BY <1>1, CheckClockKeeps DEF LhInv, LhTypes, clockVars
<1>3. OutageIsMeasured'
  BY <1>1 DEF LhInv, LhTypes, OutageIsMeasured, OfflineSeconds, clockVars
<1>4. SkewsAreReal'
  BY <1>1 DEF LhInv, SkewsAreReal
<1> QED BY <1>1, <1>2, <1>3, <1>4, CheckClockKeeps DEF LhInv

LEMMA WallStepsKeeps ==
    ASSUME LhInv, NEW d \in {-StepBack, StepOn}, WallSteps(d)
    PROVE  LhInv'
<1>1. /\ wallAt' = wallAt + d /\ steppedIn' = (steppedIn \/ outageFrom # NotDown)
      /\ wentBack' = (wentBack \/ d < 0) /\ wentOn' = (wentOn \/ d > 0)
      /\ monoAt' = monoAt /\ skews' = skews /\ lastCheck' = lastCheck /\ regressions' = regressions
      /\ missed' = missed /\ outageFrom' = outageFrom /\ lastOutage' = lastOutage
      /\ brokeAt' = brokeAt
  BY DEF WallSteps
<1>2. d \in Int
  BY LinkConstants
<1>3. LhTypes'
  BY <1>1, <1>2 DEF LhInv, LhTypes
<1>4. GainInv'
  <2>1. lastCheck.wall \in Int /\ lastCheck.mono \in Int /\ wallAt \in Int /\ monoAt \in Int
    BY DEF LhInv, LhTypes
  <2> DEFINE gained == (wallAt - lastCheck.wall) - (monoAt - lastCheck.mono)
  <2>2. (wallAt' - lastCheck'.wall) - (monoAt' - lastCheck'.mono) = gained + d
    BY <1>1, <1>2, <2>1
  <2>3. gained \in Int /\ (~wentOn => gained =< 0) /\ ((~wentOn /\ wentBack) => gained < 0)
    BY <2>1 DEF LhInv, GainInv
  <2>4. (~wentOn' => ~wentOn /\ ~(d > 0)) /\ (wentBack' => wentBack \/ d < 0)
    BY <1>1
  <2> HIDE DEF gained
  <2>5. ~(d > 0) => gained + d =< gained
    BY <1>2, <2>3
  <2>6. (~wentOn' => gained + d =< 0) /\ ((~wentOn' /\ wentBack') => gained + d < 0)
    BY <1>2, <2>3, <2>4, <2>5
  <2> QED BY <2>2, <2>6 DEF GainInv
<1>5. OutageIsMeasured'
  BY <1>1 DEF LhInv, OutageIsMeasured, OfflineSeconds
<1> QED BY <1>1, <1>3, <1>4, <1>5 DEF LhInv, SkewsAreReal, StepsBackAreOnRecord

LEMMA LhTimeKeeps ==
    ASSUME LhInv, LhTime
    PROVE  LhInv'
<1>1. /\ monoAt' = monoAt + 1 /\ wallAt' = wallAt + 1
      /\ UNCHANGED <<clockSteps, skews, guardVars, outageVars>>
  BY DEF LhTime
<1>2. LhTypes'
  BY <1>1 DEF LhInv, LhTypes, guardVars, outageVars
<1>3. GainInv'
  <2>1. lastCheck.wall \in Int /\ lastCheck.mono \in Int /\ wallAt \in Int /\ monoAt \in Int
    BY DEF LhInv, LhTypes
  <2> QED BY <1>1, <2>1 DEF LhInv, GainInv, guardVars
<1>4. OutageIsMeasured'
  BY <1>1 DEF LhInv, LhTypes, OutageIsMeasured, OfflineSeconds, outageVars
<1> QED BY <1>1, <1>2, <1>3, <1>4 DEF LhInv, SkewsAreReal, StepsBackAreOnRecord, guardVars

LEMMA LhInductive == LhInv /\ [LhNext]_lhVars => LhInv'
<1> SUFFICES ASSUME LhInv, [LhNext]_lhVars PROVE LhInv'
  OBVIOUS
<1>1. CASE UNCHANGED lhVars
  BY <1>1 DEF lhVars, clockVars, guardVars, outageVars, LhInv, LhTypes, SkewsAreReal, GainInv,
              OutageIsMeasured, OfflineSeconds, StepsBackAreOnRecord
<1> QED BY <1>1, ProbeOkKeeps, ProbeFailsKeeps, WallStepsKeeps, LhTimeKeeps DEF LhNext

Upto(s, x) == {i \in DOMAIN s : s[i] =< x}
PlacedFrom(s, k) == {x \in {s[i] : i \in DOMAIN s} : Cardinality(Upto(s, x)) >= k}

LEMMA Samples ==
    ASSUME NEW s \in Seq(Int)
    PROVE  /\ Len(s) \in Nat /\ DOMAIN s = 1 .. Len(s) /\ \A i \in DOMAIN s : s[i] \in Int
           /\ IsFiniteSet(1 .. Len(s)) /\ Cardinality(1 .. Len(s)) = Len(s)
           /\ \A S \in SUBSET DOMAIN s :
                /\ IsFiniteSet(S) /\ Cardinality(S) \in Nat /\ Cardinality(S) =< Len(s)
                /\ IsFiniteSet({s[i] : i \in S}) /\ {s[i] : i \in S} \in SUBSET Int
<1>1. Len(s) \in Nat /\ DOMAIN s = 1 .. Len(s) /\ \A i \in DOMAIN s : s[i] \in Int
  OBVIOUS
<1>2. IsFiniteSet(1 .. Len(s)) /\ Cardinality(1 .. Len(s)) = Len(s)
  <2> DEFINE n == Len(s)
  <2>1. n \in Nat
    BY <1>1
  <2> HIDE DEF n
  <2>2. IsFiniteSet(1 .. n) /\ Cardinality(1 .. n) = IF 1 > n THEN 0 ELSE n - 1 + 1
    BY <2>1, FS_Interval
  <2>3. Cardinality(1 .. n) = n
    BY <2>1, <2>2
  <2> QED BY <2>2, <2>3 DEF n
<1>3. ASSUME NEW S \in SUBSET DOMAIN s
      PROVE  /\ IsFiniteSet(S) /\ Cardinality(S) \in Nat /\ Cardinality(S) =< Len(s)
             /\ IsFiniteSet({s[i] : i \in S}) /\ {s[i] : i \in S} \in SUBSET Int
  <2>1. IsFiniteSet(S) /\ Cardinality(S) \in Nat /\ Cardinality(S) =< Len(s)
    BY <1>1, <1>2, FS_Subset, FS_CardinalityType
  <2>2. [i \in S |-> s[i]] \in Surjection(S, {s[i] : i \in S})
    BY DEF Surjection
  <2>3. IsFiniteSet({s[i] : i \in S})
    BY <2>1, <2>2, FS_Surjection
  <2> QED BY <1>1, <2>1, <2>3
<1> QED BY <1>1, <1>2, <1>3

LEMMA SortedExists ==
    ASSUME NEW s \in Seq(Int), NEW k \in 1 .. Len(s)
    PROVE  /\ SortedSkew(s, k) \in PlacedFrom(s, k)
           /\ \A y \in PlacedFrom(s, k) : SortedSkew(s, k) =< y
<1> DEFINE all == {s[i] : i \in DOMAIN s}
<1>1. Len(s) \in Nat /\ DOMAIN s = 1 .. Len(s) /\ \A i \in DOMAIN s : s[i] \in Int
  BY Samples
<1>2. IsFiniteSet(all) /\ all \in SUBSET Int
  BY Samples
<1>3. 1 \in DOMAIN s
  BY <1>1
<1>4. PICK t \in all : \A y \in all : y =< t
  <2>1. all # {}
    BY <1>3
  <2> HIDE DEF all
  <2> QED BY <1>2, <2>1, FiniteHasLargest
<1>5. Upto(s, t) = 1 .. Len(s)
  BY <1>1, <1>4 DEF Upto
<1>6. Cardinality(Upto(s, t)) >= k
  <2>1. Cardinality(1 .. Len(s)) = Len(s)
    BY Samples
  <2> QED BY <1>1, <1>5, <2>1
<1>7. t \in PlacedFrom(s, k) /\ PlacedFrom(s, k) \in SUBSET all
  BY <1>4, <1>6 DEF PlacedFrom
<1>8. IsFiniteSet(PlacedFrom(s, k)) /\ PlacedFrom(s, k) \in SUBSET Int
  BY <1>2, <1>7, FS_Subset
<1>9. SortedSkew(s, k) = Min(PlacedFrom(s, k))
  BY DEF SortedSkew, PlacedFrom, Upto
<1> QED BY <1>7, <1>8, <1>9, FiniteHasSmallest

\* What a majority of the samples is, the sample at the middle is: of those
\* above a bound ...
LEMMA MiddleIsHigh ==
    ASSUME NEW s \in Seq(Int), NEW k \in 1 .. Len(s), NEW c \in Int,
           Cardinality({i \in DOMAIN s : s[i] >= c}) > Len(s) - k
    PROVE  SortedSkew(s, k) \in Int /\ SortedSkew(s, k) >= c
<1> DEFINE high == {i \in DOMAIN s : s[i] >= c}
<1>1. Len(s) \in Nat /\ DOMAIN s = 1 .. Len(s) /\ \A i \in DOMAIN s : s[i] \in Int
  BY Samples
<1>2. PICK x \in PlacedFrom(s, k) : x = SortedSkew(s, k)
  BY SortedExists
<1>3. x \in Int /\ Cardinality(Upto(s, x)) >= k
  BY <1>1, <1>2 DEF PlacedFrom
<1>4. ASSUME x < c PROVE FALSE
  <2>1. Upto(s, x) \in SUBSET ((1 .. Len(s)) \ high)
    BY <1>1, <1>3, <1>4 DEF Upto
  <2>2. IsFiniteSet(1 .. Len(s)) /\ Cardinality(1 .. Len(s)) = Len(s)
    BY Samples
  <2>3. high \in SUBSET (1 .. Len(s)) /\ (1 .. Len(s)) \cap high = high
    BY <1>1
  <2>4. /\ IsFiniteSet((1 .. Len(s)) \ high)
        /\ Cardinality((1 .. Len(s)) \ high) = Len(s) - Cardinality(high)
    <3> HIDE DEF high
    <3> DEFINE all == 1 .. Len(s)
    <3>1. IsFiniteSet(all) /\ Cardinality(all) = Len(s) /\ all \cap high = high
      BY <2>2, <2>3
    <3> HIDE DEF all
    <3>2. IsFiniteSet(all \ high) /\ Cardinality(all \ high) = Cardinality(all) - Cardinality(all \cap high)
      BY <3>1, FS_Difference
    <3>3. Cardinality(all \ high) = Len(s) - Cardinality(high)
      BY <3>1, <3>2
    <3> QED BY <3>2, <3>3 DEF all
  <2>5. Cardinality(Upto(s, x)) =< Cardinality((1 .. Len(s)) \ high)
    BY <2>1, <2>4, FS_Subset
  <2>6. Cardinality(Upto(s, x)) \in Nat /\ Cardinality(high) \in Nat
    BY <2>2, <2>3, Samples, FS_Subset, FS_CardinalityType DEF Upto
  <2>7. Cardinality(high) > Len(s) - k
    OBVIOUS
  <2> HIDE DEF high
  <2> QED BY <1>1, <1>3, <2>4, <2>5, <2>6, <2>7
<1> QED BY <1>2, <1>3, <1>4

\* ... and of those below one.
LEMMA MiddleIsLow ==
    ASSUME NEW s \in Seq(Int), NEW k \in 1 .. Len(s), NEW c \in Int,
           Cardinality({i \in DOMAIN s : s[i] =< c}) >= k
    PROVE  SortedSkew(s, k) \in Int /\ SortedSkew(s, k) =< c
<1> DEFINE lows == {s[i] : i \in Upto(s, c)}
<1>1. Len(s) \in Nat /\ DOMAIN s = 1 .. Len(s) /\ \A i \in DOMAIN s : s[i] \in Int
  BY Samples
<1>2. \A x : IsFiniteSet(Upto(s, x)) /\ Cardinality(Upto(s, x)) \in Nat
  BY Samples DEF Upto
<1>3. Cardinality(Upto(s, c)) >= k
  BY DEF Upto
<1>4. Upto(s, c) # {}
  <2>1. ASSUME Upto(s, c) = {} PROVE FALSE
    <3>1. Cardinality(Upto(s, c)) = 0
      BY <2>1, FS_EmptySet
    <3>2. k >= 1
      BY <1>1
    <3> QED BY <1>1, <1>3, <3>1, <3>2
  <2> QED BY <2>1
<1>5. IsFiniteSet(lows) /\ lows \in SUBSET Int /\ lows # {}
  BY <1>4, Samples DEF Upto
<1>6. PICK t \in lows : \A y \in lows : y =< t
  <2> HIDE DEF lows
  <2> QED BY <1>5, FiniteHasLargest
<1>7. t \in Int /\ t =< c /\ Upto(s, c) \in SUBSET Upto(s, t) /\ t \in {s[i] : i \in DOMAIN s}
  BY <1>1, <1>5, <1>6 DEF Upto
<1>8. Cardinality(Upto(s, c)) =< Cardinality(Upto(s, t))
  BY <1>2, <1>7, FS_Subset
<1>9. Cardinality(Upto(s, t)) >= k
  BY <1>1, <1>2, <1>3, <1>8
<1>10. t \in PlacedFrom(s, k)
  BY <1>7, <1>9 DEF PlacedFrom
<1>11. SortedSkew(s, k) =< t /\ SortedSkew(s, k) \in Int
  BY <1>1, <1>10, SortedExists DEF PlacedFrom
<1> QED BY <1>7, <1>11


AtLeast(s, c) == {i \in DOMAIN s : s[i] >= c}

LEMMA Halves ==
    ASSUME NEW n \in Nat
    PROVE  /\ n \div 2 \in Nat
           /\ n % 2 = 1 => n = 2 * (n \div 2) + 1
           /\ n % 2 # 1 => n = 2 * (n \div 2)
<1>1. n % 2 = 1 => n = 2 * (n \div 2) + 1
  OBVIOUS
<1>2. n % 2 # 1 => n = 2 * (n \div 2)
  OBVIOUS
<1>3. n \div 2 \in Nat
  OBVIOUS
<1> QED BY <1>1, <1>2, <1>3

\* So the median lies where most samples do.
LEMMA MedianIsHigh ==
    ASSUME NEW s \in Seq(Int), NEW c \in Int, 2 * Cardinality(AtLeast(s, c)) > Len(s)
    PROVE  Median2(s) \in Int /\ Median2(s) >= 2 * c
<1> DEFINE n == Len(s)
           half == n \div 2
           many == Cardinality(AtLeast(s, c))
<1>1. n \in Nat /\ many \in Nat /\ many =< n /\ 2 * many > n
  BY Samples DEF AtLeast
<1>2. half \in Nat /\ (n % 2 = 1 => n = 2 * half + 1) /\ (n % 2 # 1 => n = 2 * half)
  BY <1>1, Halves
<1>3. ASSUME NEW k \in 1 .. n, many > n - k
      PROVE  SortedSkew(s, k) \in Int /\ SortedSkew(s, k) >= c
  BY <1>3, MiddleIsHigh DEF AtLeast
<1>4. CASE n % 2 = 1
  <2>1. Median2(s) = 2 * SortedSkew(s, half + 1)
    BY <1>4 DEF Median2
  <2>2. n = 2 * half + 1
    BY <1>2, <1>4
  <2> HIDE DEF n, half, many
  <2>3. half + 1 \in 1 .. n /\ many > n - (half + 1)
    BY <1>1, <1>2, <2>2
  <2> QED BY <1>3, <2>1, <2>3
<1>5. CASE n % 2 # 1
  <2>1. Median2(s) = SortedSkew(s, half) + SortedSkew(s, half + 1)
    BY <1>5 DEF Median2
  <2>2. n = 2 * half
    BY <1>2, <1>5
  <2> HIDE DEF n, half, many
  <2>3. half \in 1 .. n /\ half + 1 \in 1 .. n /\ many > n - half /\ many > n - (half + 1)
    BY <1>1, <1>2, <2>2
  <2> QED BY <1>3, <2>1, <2>3
<1> QED BY <1>4, <1>5

LEMMA MedianIsLow ==
    ASSUME NEW s \in Seq(Int), NEW c \in Int, 2 * Cardinality(Upto(s, c)) > Len(s)
    PROVE  Median2(s) \in Int /\ Median2(s) =< 2 * c
<1> DEFINE n == Len(s)
           half == n \div 2
           many == Cardinality(Upto(s, c))
<1>1. n \in Nat /\ many \in Nat /\ many =< n /\ 2 * many > n
  BY Samples DEF Upto
<1>2. half \in Nat /\ (n % 2 = 1 => n = 2 * half + 1) /\ (n % 2 # 1 => n = 2 * half)
  BY <1>1, Halves
<1>3. ASSUME NEW k \in 1 .. n, many >= k
      PROVE  SortedSkew(s, k) \in Int /\ SortedSkew(s, k) =< c
  BY <1>3, MiddleIsLow DEF Upto
<1>4. CASE n % 2 = 1
  <2>1. Median2(s) = 2 * SortedSkew(s, half + 1)
    BY <1>4 DEF Median2
  <2>2. n = 2 * half + 1
    BY <1>2, <1>4
  <2> HIDE DEF n, half, many
  <2>3. half + 1 \in 1 .. n /\ many >= half + 1
    BY <1>1, <1>2, <2>2
  <2> QED BY <1>3, <2>1, <2>3
<1>5. CASE n % 2 # 1
  <2>1. Median2(s) = SortedSkew(s, half) + SortedSkew(s, half + 1)
    BY <1>5 DEF Median2
  <2>2. n = 2 * half
    BY <1>2, <1>5
  <2> HIDE DEF n, half, many
  <2>3. half \in 1 .. n /\ half + 1 \in 1 .. n /\ many >= half /\ many >= half + 1
    BY <1>1, <1>2, <2>2
  <2> QED BY <1>3, <2>1, <2>3
<1> QED BY <1>4, <1>5

LEMMA SampleOf ==
    ASSUME NEW S, NEW s \in Seq(S), NEW i \in DOMAIN s
    PROVE  s[i] \in S
OBVIOUS

LEMMA SkewsAreMeasured ==
    ASSUME VenueStamps, LhInv
    PROVE  /\ Measured \in Seq(Int) /\ Len(Measured) = Len(skews) /\ DOMAIN Measured = DOMAIN skews
           /\ \A i \in DOMAIN skews : Measured[i] = skews[i].real /\ skews[i].real \in Int
<1>1. skews \in Seq([measured : Int, real : Int]) /\ SkewsAreReal
  BY DEF LhInv, LhTypes
<1> DEFINE n == Len(skews)
<1>2. n \in Nat /\ DOMAIN skews = 1 .. n
  BY <1>1
<1>3. ASSUME NEW i \in DOMAIN skews
      PROVE  /\ skews[i] \in [measured : Int, real : Int] /\ skews[i].measured \in Int
             /\ skews[i].real \in Int
  <2>1. skews[i] \in [measured : Int, real : Int]
    BY <1>1, <1>3, SampleOf
  <2> QED BY <2>1
<1>4. Measured = [i \in 1 .. n |-> skews[i].measured]
  BY <1>2 DEF Measured
<1> HIDE DEF n
<1>5. Measured \in Seq(Int) /\ Len(Measured) = n /\ DOMAIN Measured = 1 .. n
  BY <1>2, <1>3, <1>4
<1>6. ASSUME NEW i \in DOMAIN skews PROVE Measured[i] = skews[i].real
  BY <1>1, <1>2, <1>4 DEF SkewsAreReal
<1> QED BY <1>2, <1>3, <1>5, <1>6 DEF n

\* A step beyond the ceiling that most samples show ...
LEMMA StepsAreRefused ==
    ASSUME VenueStamps, LhInv, 2 * Cardinality(TooFar) > Len(skews), SameWay
    PROVE  ~LinkAllows
<1>1. /\ Measured \in Seq(Int) /\ Len(Measured) = Len(skews) /\ DOMAIN Measured = DOMAIN skews
      /\ \A i \in DOMAIN skews : Measured[i] = skews[i].real /\ skews[i].real \in Int
  BY SkewsAreMeasured
<1>2. Len(Measured) \in Nat /\ SkewCeiling \in Nat
  BY <1>1, LinkConstants
<1>3. /\ TooFar \in SUBSET DOMAIN Measured
      /\ \A i \in TooFar : /\ Measured[i] = skews[i].real /\ Measured[i] \in Int
                           /\ Abs(Measured[i]) > SkewCeiling
  BY <1>1 DEF TooFar
<1>4. IsFiniteSet(TooFar) /\ Cardinality(TooFar) \in Nat /\ 2 * Cardinality(TooFar) > Len(Measured)
  BY <1>1, <1>3, Samples
<1>5. ASSUME TooFar = {} PROVE FALSE
  <2>1. Cardinality(TooFar) = 0
    BY <1>5, FS_EmptySet
  <2> QED BY <1>2, <1>4, <2>1
<1>6. PICK j : j \in TooFar
  BY <1>5
<1>7. skews # <<>>
  BY <1>1, <1>3, <1>6
<1>8. CASE skews[j].real > 0
  <2> DEFINE c == SkewCeiling + 1
  <2>1. ASSUME NEW i \in TooFar PROVE i \in AtLeast(Measured, c)
    <3>1. skews[i].real > 0
      BY <1>6, <1>8, <2>1 DEF SameWay
    <3> QED BY <1>2, <1>3, <2>1, <3>1 DEF AtLeast, Abs
  <2>2. AtLeast(Measured, c) \in SUBSET DOMAIN Measured /\ TooFar \in SUBSET AtLeast(Measured, c)
    BY <2>1 DEF AtLeast
  <2>3. c \in Int
    BY <1>2
  <2> HIDE DEF c
  <2>4. IsFiniteSet(AtLeast(Measured, c)) /\ Cardinality(AtLeast(Measured, c)) \in Nat
    BY <1>1, <2>2, Samples
  <2>5. Cardinality(TooFar) =< Cardinality(AtLeast(Measured, c))
    BY <2>2, <2>4, FS_Subset
  <2>6. 2 * Cardinality(AtLeast(Measured, c)) > Len(Measured)
    BY <1>2, <1>4, <2>4, <2>5
  <2>7. Median2(Measured) \in Int /\ Median2(Measured) >= 2 * c
    BY <1>1, <2>3, <2>6, MedianIsHigh
  <2>8. Abs(Median2(Measured)) > 2 * SkewCeiling
    BY <1>2, <2>7 DEF c, Abs
  <2>9. ~(Abs(Median2(Measured)) =< 2 * SkewCeiling)
    BY <1>2, <2>7, <2>8 DEF Abs
  <2> QED BY <1>7, <2>9 DEF LinkAllows
<1>9. CASE ~(skews[j].real > 0)
  <2> DEFINE c == -(SkewCeiling + 1)
  <2>1. ASSUME NEW i \in TooFar PROVE i \in Upto(Measured, c)
    <3>1. ~(skews[i].real > 0)
      BY <1>6, <1>9, <2>1 DEF SameWay
    <3> QED BY <1>2, <1>3, <2>1, <3>1 DEF Upto, Abs
  <2>2. Upto(Measured, c) \in SUBSET DOMAIN Measured /\ TooFar \in SUBSET Upto(Measured, c)
    BY <2>1 DEF Upto
  <2>3. c \in Int
    BY <1>2
  <2> HIDE DEF c
  <2>4. IsFiniteSet(Upto(Measured, c)) /\ Cardinality(Upto(Measured, c)) \in Nat
    BY <1>1, <2>2, Samples
  <2>5. Cardinality(TooFar) =< Cardinality(Upto(Measured, c))
    BY <2>2, <2>4, FS_Subset
  <2>6. 2 * Cardinality(Upto(Measured, c)) > Len(Measured)
    BY <1>2, <1>4, <2>4, <2>5
  <2>7. Median2(Measured) \in Int /\ Median2(Measured) =< 2 * c
    BY <1>1, <2>3, <2>6, MedianIsLow
  <2>8. ~(Abs(Median2(Measured)) =< 2 * SkewCeiling)
    BY <1>2, <2>7 DEF c, Abs
  <2> QED BY <1>7, <2>8 DEF LinkAllows
<1> QED BY <1>8, <1>9

\* ... and no odd sample among good ones.
LEMMA OddSamplesPass ==
    ASSUME VenueStamps, LhInv, Len(skews) > 2, outageFrom = NotDown,
           Cardinality({i \in DOMAIN skews : skews[i].real # 0}) =< 1
    PROVE  LinkAllows
<1> DEFINE n == Len(Measured)
           odd == {i \in DOMAIN skews : skews[i].real # 0}
           good == (1 .. n) \ odd
<1>1. /\ Measured \in Seq(Int) /\ n = Len(skews) /\ DOMAIN Measured = DOMAIN skews
      /\ \A i \in DOMAIN skews : Measured[i] = skews[i].real /\ skews[i].real \in Int
  BY SkewsAreMeasured
<1>2. n \in Nat /\ n > 2 /\ DOMAIN Measured = 1 .. n /\ SkewCeiling \in Nat /\ FreezeAfter \in Nat
  BY <1>1, LinkConstants
<1>3. IsFiniteSet(1 .. n) /\ Cardinality(1 .. n) = n
  BY <1>1, Samples
<1>4. odd \in SUBSET (1 .. n) /\ Cardinality(odd) =< 1 /\ \A i \in good : Measured[i] = 0
  BY <1>1, <1>2
<1>5. good \in SUBSET Upto(Measured, 0) /\ good \in SUBSET AtLeast(Measured, 0)
  BY <1>2, <1>4 DEF Upto, AtLeast
<1> HIDE DEF odd
<1>6. Cardinality(good) >= n - 1
  <2> DEFINE all == 1 .. n
  <2>1. IsFiniteSet(all) /\ Cardinality(all) = n /\ all \cap odd = odd
    BY <1>3, <1>4
  <2>2. Cardinality(odd) \in Nat
    BY <1>3, <1>4, FS_Subset, FS_CardinalityType
  <2> HIDE DEF all, n
  <2>3. Cardinality(all \ odd) = Cardinality(all) - Cardinality(all \cap odd)
    BY <2>1, FS_Difference
  <2> DEFINE c == Cardinality(odd)
  <2>4. c \in Nat /\ c =< 1 /\ n \in Nat /\ Cardinality(all \ odd) = n - c
    BY <1>2, <1>4, <2>1, <2>2, <2>3
  <2> HIDE DEF c
  <2>5. Cardinality(all \ odd) >= n - 1
    BY <2>4
  <2> QED BY <2>5 DEF all
<1>7. Cardinality(good) \in Nat
  <2>1. good \in SUBSET (1 .. n)
    OBVIOUS
  <2> HIDE DEF good
  <2> QED BY <1>3, <2>1, FS_Subset, FS_CardinalityType
<1> HIDE DEF good
<1>8. /\ IsFiniteSet(Upto(Measured, 0)) /\ IsFiniteSet(AtLeast(Measured, 0))
      /\ Cardinality(Upto(Measured, 0)) \in Nat /\ Cardinality(AtLeast(Measured, 0)) \in Nat
  BY <1>1, Samples DEF Upto, AtLeast
<1>9. /\ Cardinality(good) =< Cardinality(Upto(Measured, 0))
      /\ Cardinality(good) =< Cardinality(AtLeast(Measured, 0))
  BY <1>5, <1>8, FS_Subset
<1>10. 2 * Cardinality(Upto(Measured, 0)) > n /\ 2 * Cardinality(AtLeast(Measured, 0)) > n
  <2> HIDE DEF n
  <2> QED BY <1>2, <1>6, <1>7, <1>8, <1>9
<1>11. Median2(Measured) \in Int /\ Median2(Measured) =< 2 * 0 /\ Median2(Measured) >= 2 * 0
  BY <1>1, <1>10, MedianIsHigh, MedianIsLow
<1>12. Abs(Median2(Measured)) =< 2 * SkewCeiling
  BY <1>2, <1>11 DEF Abs
<1>13. outageFrom = NotDown /\ OfflineSeconds =< FreezeAfter
  BY <1>2 DEF OfflineSeconds
<1> QED BY <1>12, <1>13 DEF LinkAllows

LEMMA StepsStop ==
    ASSUME VenueStamps, LhInv
    PROVE  StepStopsEntries
BY StepsAreRefused, OddSamplesPass DEF StepStopsEntries


\* No decision rests on data that only looks fresh. Bars: the incremental fetch
\* of data/feed.py asks for what has been published, leaves no hole of its own
\* and calls no gap OK, and no entry is judged on a price older than the limit.
\* The reference: one worker of data/tradingview.py writes the prices, none
\* does once the owner has switched it off, and a reference that is absent,
\* crossed or old changes no verdict. The link: ops/health.py measures an
\* outage from its first failed probe; a step of the wall clock beyond the
\* ceiling that most samples of core/clock.py show stops entries, one odd
\* sample does not, and a step back is on record after the next probe. A skew
\* is one of the wall clock against the venue's only where the venue stamps its
\* own time (VenueStamps).
THEOREM PricesStayCurrent ==
    ASSUME VenueStamps
    PROVE  MCMarketSpec => []PricesAreCurrent
<1> DEFINE Inv == FdInv /\ StreamInv /\ QuoteInv /\ LhInv
<1>1. MCMarketInit => Inv
  BY FdInitially, StreamInitially, LhInitially DEF MCMarketInit
<1>2. Inv /\ [MCMarketNext]_allVars => Inv'
  <2> SUFFICES ASSUME Inv, [MCMarketNext]_allVars PROVE Inv'
    OBVIOUS
  <2>1. [FdNext]_fdVars /\ [RsNext]_rsVars /\ [LhNext]_lhVars
    BY MarketSteps
  <2>2. FdInv'
    BY <2>1, FdInductive
  <2>3. StreamInv' /\ QuoteInv'
    BY <2>1, StreamInductive, QuoteInductive
  <2>4. LhInv'
    BY <2>1, LhInductive
  <2> QED BY <2>2, <2>3, <2>4
<1>3. Inv => PricesAreCurrent
  <2> SUFFICES ASSUME Inv PROVE PricesAreCurrent
    OBVIOUS
  <2>1. NoEntryOnFrozenPrice
    BY BarConstants DEF FdInv, NoEntryOnFrozenPrice
  <2>2. FreshBarNotSuppressed /\ HolesAreTheVenues /\ AGapIsAFact
    BY FreshBarsAreAskedFor, GapsAreCounted DEF FdInv
  <2>3. RsTypeOK /\ OneWriter /\ OffIsQuiet /\ AbsenceChangesNothing
    BY ReferenceIsGuarded
  <2>4. OutageIsMeasured /\ StepStopsEntries /\ StepsBackAreOnRecord
    BY StepsStop DEF LhInv
  <2> QED BY <2>1, <2>2, <2>3, <2>4 DEF PricesAreCurrent
<1> HIDE DEF Inv
<1> QED BY <1>1, <1>2, <1>3, PTL DEF MCMarketSpec

-----------------------------------------------------------------------------
(* The simulated venue. Its book is balanced up to a gap: a fill first     *)
(* takes its commission from the balance and then gives it to a position   *)
(* or to a closed trade, and no other operation opens a gap.               *)

Charge(n, days) == -LotSwap * n * days

VenuePositions ==
    [side : {-1, 1}, lots : Nat, entry : Int, stop : Int, target : Int,
     risk : Int, fee : Int, financing : Int, since : Int]

Reasons == {"none", "stop_loss", "take_profit", "margin_stop_out", "opposite_fill", "manual"}

Ledgers == [balance : Int, pos : VenuePositions, closed : Int, reset : Int, reason : Reasons]

BookShape(b) ==
    /\ b \in Ledgers
    /\ b.pos.risk = LotRisk * b.pos.lots
    /\ ~Held(b) => b.pos.fee = 0 /\ b.pos.financing = 0

\* What is missing from the balance.
Gap(b) == b.balance - (StartBalance + b.closed + b.reset - b.pos.fee + b.pos.financing)

\* The financing of lots of one date is that of every value date up to r.
Paid(b, r) ==
    Held(b) /\ b.pos.since # Mixed
        => /\ 0 =< b.pos.since /\ b.pos.since =< r
           /\ b.pos.financing = Charge(b.pos.lots, SwapDays((b.pos.since + 1)..r))

LEMMA VenueConstants ==
    /\ \A m \in Mids : m \in Nat
    /\ \A s \in NewStops : s \in Nat
    /\ \A s \in Slips : s \in Int
    /\ \A s \in Sizes : s \in Nat \ {0}
    /\ MaxIds \in Nat /\ HalfSpread \in Nat /\ Barrier \in Nat /\ LotRisk \in Nat
    /\ LotFee \in Nat /\ LotSwap \in Nat /\ StartBalance \in Nat
    /\ PartialOver \in Nat \ {0} /\ LotMargin \in Nat \ {0}
    /\ DayMultiples \in Seq(Nat) /\ Len(DayMultiples) \in Nat
<1>1. DayMultiples \in Seq(Nat)
  BY PaperVenueAssumption
<1>2. Len(DayMultiples) \in Nat
  BY <1>1
<1> QED BY <1>1, <1>2, PaperVenueAssumption

\* A share of a multiple is the multiple of the share.
LEMMA ExactShare ==
    ASSUME NEW a \in Int, NEW n \in Nat \ {0}, NEW q \in Int, a = n * q
    PROVE  a \div n = q
<1> DEFINE p == a \div n
<1>1. p \in Int /\ n * p =< n * q /\ n * q < n * p + n
  BY Quotient
<1> HIDE DEF p
<1>2. ASSUME p + 1 =< q PROVE FALSE
  <2>1. n * (p + 1) =< n * q
    BY <1>1, <1>2, TimesMonotone
  <2> QED BY <1>1, <2>1
<1>3. ASSUME q + 1 =< p PROVE FALSE
  <2>1. n * (q + 1) =< n * p
    BY <1>1, <1>3, TimesMonotone
  <2> QED BY <1>1, <2>1
<1> QED BY <1>1, <1>2, <1>3 DEF p

LEMMA RiskShare ==
    ASSUME NEW m \in Nat \ {0}, NEW n \in Nat
    PROVE  /\ LotRisk * m \in Int /\ (LotRisk * m) * n \in Int
           /\ ((LotRisk * m) * n) \div m = LotRisk * n
           /\ LotRisk * m - LotRisk * n = LotRisk * (m - n)
<1>1. LotRisk \in Nat
  BY VenueConstants
<1>2. (LotRisk * m) * n \in Int /\ LotRisk * n \in Int /\ (LotRisk * m) * n = m * (LotRisk * n)
  BY <1>1
<1>3. ((LotRisk * m) * n) \div m = LotRisk * n
  BY <1>2, ExactShare
<1> QED BY <1>1, <1>2, <1>3

LEMMA ChargeShare ==
    ASSUME NEW m \in Nat \ {0}, NEW n \in Nat, NEW days \in Int
    PROVE  /\ Charge(m, days) \in Int /\ Charge(m, days) * n \in Int
           /\ (Charge(m, days) * n) \div m = Charge(n, days)
           /\ Charge(m, days) - Charge(n, days) = Charge(m - n, days)
<1>1. LotSwap \in Nat
  BY VenueConstants
<1>2. /\ Charge(m, days) \in Int /\ Charge(m, days) * n \in Int /\ Charge(n, days) \in Int
      /\ Charge(m, days) * n = m * Charge(n, days)
  BY <1>1 DEF Charge
<1>3. (Charge(m, days) * n) \div m = Charge(n, days)
  BY <1>2, ExactShare
<1>4. Charge(m, days) - Charge(n, days) = Charge(m - n, days)
  BY <1>1 DEF Charge
<1> QED BY <1>2, <1>3, <1>4

LEMMA ChargeSum ==
    ASSUME NEW n \in Nat, NEW j \in Int, NEW k \in Int
    PROVE  /\ Charge(n, j) \in Int /\ Charge(n, k) \in Int
           /\ Charge(n, j) + Charge(n, k) = Charge(n, j + k)
           /\ Charge(n, 0) = 0
<1>1. LotSwap \in Nat
  BY VenueConstants
<1> QED BY <1>1 DEF Charge

LEMMA SwapDaysIsTotal == ASSUME NEW days PROVE SwapDays(days) = Total(DayMultiples, days)
<1>1. Total(DayMultiples, days) = (CHOOSE g : IsFold(DayMultiples, g, SUBSET days))[days]
  BY TotalIsFold
<1> QED BY <1>1 DEF SwapDays, IsFold, Unfolded, Pick

\* The value dates of a stretch are those of its two parts.
LEMMA SwapDaysSplit ==
    ASSUME NEW s \in Nat, NEW r \in Nat, NEW d \in Nat, s =< r, r =< d, d =< Len(DayMultiples)
    PROVE  /\ SwapDays((s + 1)..r) \in Int /\ SwapDays((r + 1)..d) \in Int
           /\ SwapDays((s + 1)..d) = SwapDays((s + 1)..r) + SwapDays((r + 1)..d)
           /\ SwapDays((d + 1)..d) = 0
<1> DEFINE S == (s + 1)..r
           T == (r + 1)..d
<1>1. S \cup T = (s + 1)..d /\ S \cap T = {} /\ (d + 1)..d = {}
  OBVIOUS
<1>2. IsFiniteSet(S) /\ IsFiniteSet(T)
  BY FS_Interval
<1>3. \A x \in S \cup T : DayMultiples[x] \in Int
  <2>1. DayMultiples \in Seq(Nat) /\ S \cup T \subseteq 1..Len(DayMultiples)
    BY VenueConstants
  <2> QED BY <2>1
<1> HIDE DEF S, T
<1>4. Total(DayMultiples, S \cup T) = Total(DayMultiples, S) + Total(DayMultiples, T)
  BY <1>1, <1>2, <1>3, TotalOfUnion
<1>5. Total(DayMultiples, S) \in Int /\ Total(DayMultiples, T) \in Int
  BY <1>2, <1>3, TotalIsInteger
<1>6. Total(DayMultiples, {}) = 0
  BY TotalOfNothing
<1> QED BY <1>1, <1>4, <1>5, <1>6, SwapDaysIsTotal DEF S, T


LEMMA GapNumbers ==
    ASSUME NEW start \in Int, NEW bal \in Int, NEW c \in Int, NEW r \in Int, NEW f \in Int, NEW g \in Int
    PROVE  bal - (start + c + r - f + g) \in Int
  OBVIOUS

\* What a close moves leaves the gap alone but for the extra fee.
LEMMA GapAfterClose ==
    ASSUME NEW start \in Int, NEW bal \in Int, NEW c \in Int, NEW r \in Int, NEW f \in Int, NEW g \in Int,
           NEW won \in Int, NEW f1 \in Int, NEW g1 \in Int, NEW x \in Int, NEW debt \in Int
    PROVE  bal + won + debt - (start + (c + (won - f1 - x + g1)) + (r + debt) - (f - f1) + (g - g1))
               = bal - (start + c + r - f + g) + x
  OBVIOUS

LEMMA BookFields ==
    ASSUME NEW b, BookShape(b)
    PROVE  /\ b.balance \in Int /\ b.closed \in Int /\ b.reset \in Int /\ b.reason \in Reasons
           /\ b.pos \in VenuePositions
           /\ b.pos.side \in {-1, 1} /\ b.pos.lots \in Nat
           /\ b.pos.entry \in Int /\ b.pos.stop \in Int /\ b.pos.target \in Int
           /\ b.pos.risk \in Int /\ b.pos.fee \in Int /\ b.pos.financing \in Int /\ b.pos.since \in Int
           /\ Gap(b) \in Int
<1>1. /\ b.balance \in Int /\ b.closed \in Int /\ b.reset \in Int /\ b.reason \in Reasons
      /\ b.pos \in VenuePositions
  BY DEF BookShape, Ledgers
<1>2. /\ b.pos.side \in {-1, 1} /\ b.pos.lots \in Nat
      /\ b.pos.entry \in Int /\ b.pos.stop \in Int /\ b.pos.target \in Int
      /\ b.pos.risk \in Int /\ b.pos.fee \in Int /\ b.pos.financing \in Int /\ b.pos.since \in Int
  BY <1>1 DEF VenuePositions
<1>3. StartBalance \in Int
  BY VenueConstants
<1>4. Gap(b) \in Int
  BY <1>1, <1>2, <1>3, GapNumbers DEF Gap
<1> QED BY <1>1, <1>2, <1>4

\* A step that only clears the reason.
LEMMA SettledKeeps ==
    ASSUME NEW b, BookShape(b)
    PROVE  /\ BookShape(Settled(b)) /\ Gap(Settled(b)) = Gap(b)
           /\ Settled(b).pos = b.pos /\ Settled(b).balance = b.balance
<1> DEFINE c == Settled(b)
<1>1. /\ c \in Ledgers /\ c.pos = b.pos /\ c.balance = b.balance
      /\ c.closed = b.closed /\ c.reset = b.reset
  BY DEF BookShape, Ledgers, Settled, Reasons
<1> HIDE DEF c
<1>2. BookShape(c) /\ Gap(c) = Gap(b)
  BY <1>1 DEF BookShape, Gap, Held
<1> QED BY <1>1, <1>2 DEF c

LEMMA PaidConcernsPosition ==
    ASSUME NEW b, NEW c, b.pos = c.pos, NEW r
    PROVE  (Paid(b, r) <=> Paid(c, r)) /\ (Held(b) <=> Held(c))
  BY DEF Paid, Held

LEMMA ConsumedMeans ==
    ASSUME NEW p \in VenuePositions, NEW n \in 1..p.lots
    PROVE  /\ Consumed(p, n) \in VenuePositions
           /\ Consumed(p, n).lots = p.lots - n
           /\ Consumed(p, n).fee = p.fee - (p.fee * n) \div p.lots
           /\ Consumed(p, n).financing = p.financing - (p.financing * n) \div p.lots
           /\ Consumed(p, n).risk = p.risk - (p.risk * n) \div p.lots
           /\ Consumed(p, n).since = p.since
<1>1. p.lots \in Nat \ {0} /\ n \in Nat /\ p.fee \in Int /\ p.financing \in Int /\ p.risk \in Int
  BY DEF VenuePositions
<1>2. p.fee * n \in Int /\ p.financing * n \in Int /\ p.risk * n \in Int
  BY <1>1
<1>3. PICK f \in Int : f = p.fee - (p.fee * n) \div p.lots
  BY <1>1, <1>2, Quotient
<1>4. PICK g \in Int : g = p.financing - (p.financing * n) \div p.lots
  BY <1>1, <1>2, Quotient
<1>5. PICK k \in Int : k = p.risk - (p.risk * n) \div p.lots
  BY <1>1, <1>2, Quotient
<1>6. PICK l \in Nat : l = p.lots - n
  BY <1>1
<1>7. Consumed(p, n) = [p EXCEPT !.lots = l, !.fee = f, !.financing = g, !.risk = k]
  BY <1>3, <1>4, <1>5, <1>6 DEF Consumed
<1>8. /\ Consumed(p, n) \in VenuePositions /\ Consumed(p, n).lots = l /\ Consumed(p, n).fee = f
      /\ Consumed(p, n).financing = g /\ Consumed(p, n).risk = k /\ Consumed(p, n).since = p.since
  BY <1>7 DEF VenuePositions
<1> QED BY <1>3, <1>4, <1>5, <1>6, <1>8

\* The result of a close in terms of what is left.
Emptied(rest) == IF rest.lots = 0 THEN NoPosition ELSE rest

LEMMA NoPositionMeans ==
    /\ NoPosition \in VenuePositions /\ NoPosition.lots = 0 /\ NoPosition.risk = 0
    /\ NoPosition.fee = 0 /\ NoPosition.financing = 0
<1>1. LotRisk \in Nat
  BY VenueConstants
<1> QED BY <1>1 DEF NoPosition, VenuePositions

\* What closing n lots makes of a book; x is the extra fee.
Realised(b, n, reason, x, a) ==
    BookShape(a) /\ Gap(a) = Gap(b) + x /\ a.reason = reason /\ a.pos = Emptied(Consumed(b.pos, n))

\* Closing lots keeps the book in shape and opens a gap of the extra fee.
LEMMA RealiseKeeps ==
    ASSUME NEW b, BookShape(b), NEW n \in 1..b.pos.lots, NEW paid \in Int,
           NEW reason \in Reasons, NEW x \in Int
    PROVE  Realised(b, n, reason, x, Realise(b, paid, n, reason, x))
<1> DEFINE a == Realise(b, paid, n, reason, x)
           won == (paid - b.pos.entry) * b.pos.side * n
           f == (b.pos.fee * n) \div b.pos.lots
           g == (b.pos.financing * n) \div b.pos.lots
           k == (b.pos.risk * n) \div b.pos.lots
           rest == Consumed(b.pos, n)
           after == Emptied(rest)
           balance == b.balance + won
<1>1. /\ b.balance \in Int /\ b.closed \in Int /\ b.reset \in Int /\ b.pos \in VenuePositions
      /\ b.pos.side \in {-1, 1} /\ b.pos.lots \in Nat \ {0} /\ b.pos.entry \in Int
      /\ b.pos.risk \in Int /\ b.pos.fee \in Int /\ b.pos.financing \in Int
      /\ n \in Nat \ {0} /\ n =< b.pos.lots
      /\ b.pos.risk = LotRisk * b.pos.lots /\ LotRisk \in Nat /\ StartBalance \in Nat
  BY BookFields, VenueConstants DEF BookShape
<1>2. won \in Int
  <2>1. paid - b.pos.entry \in Int /\ (paid - b.pos.entry) * b.pos.side \in Int
    BY <1>1
  <2> QED BY <1>1, <2>1
<1>3. b.pos.fee * n \in Int /\ b.pos.financing * n \in Int /\ b.pos.risk * n \in Int
  BY <1>1
<1>4. f \in Int /\ g \in Int /\ k \in Int
  BY <1>1, <1>3, Quotient
<1>5. /\ rest \in VenuePositions /\ rest.lots = b.pos.lots - n /\ rest.fee = b.pos.fee - f
      /\ rest.financing = b.pos.financing - g /\ rest.risk = b.pos.risk - k
  BY <1>1, ConsumedMeans
<1>6. rest.risk = LotRisk * rest.lots
  <2>1. k = LotRisk * n /\ LotRisk * b.pos.lots - LotRisk * n = LotRisk * (b.pos.lots - n)
    BY <1>1, RiskShare
  <2> HIDE DEF k, rest
  <2> QED BY <1>1, <1>5, <2>1
<1>7. rest.lots = 0 => rest.fee = 0 /\ rest.financing = 0
  <2> SUFFICES ASSUME rest.lots = 0 PROVE rest.fee = 0 /\ rest.financing = 0
    OBVIOUS
  <2>1. n = b.pos.lots
    <3>1. rest.lots = b.pos.lots - n
      BY <1>5
    <3> HIDE DEF rest
    <3> QED BY <1>1, <3>1
  <2>2. b.pos.fee * n = n * b.pos.fee /\ b.pos.financing * n = n * b.pos.financing
    BY <1>1
  <2>3. (b.pos.fee * n) \div n = b.pos.fee /\ (b.pos.financing * n) \div n = b.pos.financing
    BY <1>1, <1>3, <2>2, ExactShare
  <2>4. f = b.pos.fee /\ g = b.pos.financing
    BY <2>1, <2>3
  <2> HIDE DEF f, g, rest
  <2> QED BY <1>1, <1>5, <2>4
<1>8. /\ after \in VenuePositions /\ after.risk = LotRisk * after.lots
      /\ after.lots = 0 => after.fee = 0 /\ after.financing = 0
      /\ after.fee = b.pos.fee - f /\ after.financing = b.pos.financing - g
  <2> HIDE DEF rest, f, g
  <2> QED BY <1>1, <1>4, <1>5, <1>6, <1>7, NoPositionMeans DEF Emptied
<1>9. a = [balance |-> IF balance < 0 THEN 0 ELSE balance, pos |-> after,
           closed |-> b.closed + (won - f - x + g),
           reset |-> b.reset + (IF balance < 0 THEN -balance ELSE 0), reason |-> reason]
  BY DEF Realise, Emptied
<1>10. PICK debt \in Int : /\ debt = (IF balance < 0 THEN -balance ELSE 0)
                           /\ (IF balance < 0 THEN 0 ELSE balance) = balance + debt
  <2> HIDE DEF won
  <2> QED BY <1>1, <1>2
<1>11. /\ a.balance = balance + debt /\ a.pos = after /\ a.reason = reason
       /\ a.closed = b.closed + (won - f - x + g) /\ a.reset = b.reset + debt
  <2> HIDE DEF balance, won, f, g, after
  <2> QED BY <1>9, <1>10
<1>12. a \in Ledgers
  <2>1. balance + debt \in Int /\ b.closed + (won - f - x + g) \in Int /\ b.reset + debt \in Int
    <3> HIDE DEF won, f, g
    <3> QED BY <1>1, <1>2, <1>4, <1>10
  <2> HIDE DEF balance, won, f, g, after
  <2> QED BY <1>8, <1>9, <1>10, <2>1 DEF Ledgers
<1> HIDE DEF a, won, f, g, after, rest
<1>13. BookShape(a)
  <2>1. a.pos.lots \in Nat
    BY <1>8, <1>11 DEF VenuePositions
  <2>2. ~Held(a) => a.pos.lots = 0
    BY <2>1 DEF Held
  <2> QED BY <1>8, <1>11, <1>12, <2>2 DEF BookShape
<1>14. Gap(a) = Gap(b) + x
  <2>1. /\ a.balance = b.balance + won + debt /\ a.closed = b.closed + (won - f - x + g)
        /\ a.reset = b.reset + debt /\ a.pos.fee = b.pos.fee - f /\ a.pos.financing = b.pos.financing - g
    BY <1>8, <1>11
  <2>2. StartBalance \in Int /\ b.pos.fee \in Int /\ b.pos.financing \in Int /\ b.balance \in Int
        /\ b.closed \in Int /\ b.reset \in Int
    BY <1>1
  <2> QED BY <1>2, <1>4, <1>10, <2>1, <2>2, GapAfterClose DEF Gap
<1>15. a.pos = Emptied(Consumed(b.pos, n)) /\ a.reason = reason
  BY <1>11 DEF after, rest
<1>16. Realised(b, n, reason, x, a)
  BY <1>13, <1>14, <1>15, Zenon DEF Realised
<1> QED BY <1>16 DEF a


\* What closes takes its part of the financing: what is left has paid the same dates.
LEMMA CloseLeavesPaid ==
    ASSUME NEW b, BookShape(b), NEW n \in 1..b.pos.lots, NEW a, a.pos = Emptied(Consumed(b.pos, n)),
           NEW r \in Int, r =< Len(DayMultiples), Paid(b, r)
    PROVE  Paid(a, r)
<1> SUFFICES ASSUME Held(a), a.pos.since # Mixed
             PROVE  /\ 0 =< a.pos.since /\ a.pos.since =< r
                    /\ a.pos.financing = Charge(a.pos.lots, SwapDays((a.pos.since + 1)..r))
  BY DEF Paid
<1> DEFINE days == SwapDays((b.pos.since + 1)..r)
<1>1. /\ b.pos \in VenuePositions /\ b.pos.lots \in Nat \ {0} /\ n \in Nat /\ n =< b.pos.lots
      /\ b.pos.financing \in Int /\ b.pos.since \in Int
  BY BookFields
<1>2. /\ a.pos.lots = b.pos.lots - n /\ a.pos.since = b.pos.since
      /\ a.pos.financing = b.pos.financing - (b.pos.financing * n) \div b.pos.lots
  <2>1. a.pos = Consumed(b.pos, n)
    BY NoPositionMeans DEF Emptied, Held
  <2> QED BY <1>1, <2>1, ConsumedMeans
<1>3. Held(b)
  BY <1>1 DEF Held
<1>4. 0 =< b.pos.since /\ b.pos.since =< r /\ b.pos.financing = Charge(b.pos.lots, days)
  BY <1>2, <1>3 DEF Paid
<1>5. days \in Int
  <2>1. b.pos.since \in Nat /\ r \in Nat /\ r =< r
    BY <1>1, <1>4
  <2> QED BY <1>4, <2>1, SwapDaysSplit
<1> HIDE DEF days
<1>6. a.pos.financing = Charge(a.pos.lots, days)
  <2>1. (b.pos.financing * n) \div b.pos.lots = Charge(n, days)
    <3>1. b.pos.lots \in Nat \ {0} /\ n \in Nat
      BY <1>1
    <3>2. (Charge(b.pos.lots, days) * n) \div b.pos.lots = Charge(n, days)
      BY <1>5, <3>1, ChargeShare, Zenon
    <3>3. b.pos.financing = Charge(b.pos.lots, days)
      BY <1>4
    <3> QED BY <3>2, <3>3, Zenon
  <2>2. Charge(b.pos.lots, days) - Charge(n, days) = Charge(b.pos.lots - n, days)
    BY <1>1, <1>5, ChargeShare
  <2> QED BY <1>2, <1>4, <2>1, <2>2
<1> QED BY <1>2, <1>4, <1>6 DEF days

\* A close of the whole position leaves none.
LEMMA CloseAll ==
    ASSUME NEW b, BookShape(b), Held(b), NEW paid \in Int, NEW reason \in Reasons
    PROVE  LET a == Realise(b, paid, b.pos.lots, reason, 0)
           IN  BookShape(a) /\ Gap(a) = Gap(b) /\ a.reason = reason /\ ~Held(a)
<1> DEFINE a == Realise(b, paid, b.pos.lots, reason, 0)
<1>1. b.pos.lots \in 1..b.pos.lots /\ b.pos \in VenuePositions /\ Gap(b) \in Int
  BY BookFields DEF Held
<1>2. BookShape(a) /\ Gap(a) = Gap(b) + 0 /\ a.reason = reason /\ a.pos = Emptied(Consumed(b.pos, b.pos.lots))
  <2>1. 0 \in Int
    OBVIOUS
  <2>2. b.pos.lots \in 1..b.pos.lots
    BY <1>1
  <2>3. Realised(b, b.pos.lots, reason, 0, a)
    BY <2>1, <2>2, RealiseKeeps, Zenon
  <2> QED BY <2>3 DEF Realised
<1>3. Consumed(b.pos, b.pos.lots).lots = b.pos.lots - b.pos.lots
  BY <1>1, ConsumedMeans
<1>4. b.pos.lots - b.pos.lots = 0
  BY <1>1
<1>5. a.pos = NoPosition
  BY <1>2, <1>3, <1>4 DEF Emptied
<1> HIDE DEF a
<1>6. ~Held(a)
  BY <1>5, NoPositionMeans DEF Held
<1>7. Gap(b) + 0 = Gap(b)
  BY <1>1
<1> QED BY <1>2, <1>6, <1>7 DEF a

LEMMA FlatIsPaid == ASSUME NEW b, ~Held(b), NEW r PROVE Paid(b, r)
  BY DEF Paid

LEMMA OpenedMeans ==
    ASSUME date \in Nat, NEW side \in {-1, 1}, NEW lots \in Nat, NEW paid \in Int, NEW wanted,
           NEW stop \in Int, NEW target \in Int, NEW fee \in Int
    PROVE  LET p == Opened(side, lots, paid, wanted, stop, target, fee)
           IN  /\ p \in VenuePositions /\ p.lots = lots /\ p.risk = LotRisk * lots
               /\ p.fee = fee /\ p.financing = 0 /\ p.since = date
<1> DEFINE p == Opened(side, lots, paid, wanted, stop, target, fee)
<1>1. PICK k \in Int : k = LotRisk * lots
  BY VenueConstants
<1>2. p = [side |-> side, lots |-> lots, entry |-> paid, stop |-> stop, target |-> target,
           risk |-> k, fee |-> fee, financing |-> 0, since |-> date]
  BY <1>1 DEF Opened, RiskOf
<1>3. /\ p \in VenuePositions /\ p.lots = lots /\ p.risk = k
      /\ p.fee = fee /\ p.financing = 0 /\ p.since = date
  <2> HIDE DEF p
  <2> QED BY <1>2 DEF VenuePositions
<1> QED BY <1>1, <1>3

\* A book whose position is replaced.
WithPosition(b, p) == [b EXCEPT !.pos = p]

LEMMA WithPositionMeans ==
    ASSUME NEW b, BookShape(b), NEW p \in VenuePositions, p.risk = LotRisk * p.lots, p.lots \in Nat \ {0}
    PROVE  LET a == WithPosition(b, p)
           IN  /\ BookShape(a) /\ a.pos = p
               /\ \A x \in Int : p.fee - p.financing = b.pos.fee - b.pos.financing + x => Gap(a) = Gap(b) + x
<1> DEFINE a == WithPosition(b, p)
<1>1. /\ a \in Ledgers /\ a.pos = p
      /\ a.balance = b.balance /\ a.closed = b.closed /\ a.reset = b.reset
  BY DEF BookShape, Ledgers, WithPosition
<1> HIDE DEF a
<1>2. BookShape(a)
  BY <1>1 DEF BookShape, Held
<1>3. /\ b.balance \in Int /\ b.closed \in Int /\ b.reset \in Int
      /\ b.pos.fee \in Int /\ b.pos.financing \in Int /\ StartBalance \in Int
      /\ p.fee \in Int /\ p.financing \in Int
  BY BookFields, VenueConstants DEF VenuePositions
<1>4. ASSUME NEW x \in Int, p.fee - p.financing = b.pos.fee - b.pos.financing + x
      PROVE  Gap(a) = Gap(b) + x
  <2>1. ASSUME NEW start \in Int, NEW bal \in Int, NEW c \in Int, NEW r \in Int, NEW f \in Int, NEW g \in Int,
               NEW f1 \in Int, NEW g1 \in Int, f1 - g1 = f - g + x
        PROVE  bal - (start + c + r - f1 + g1) = bal - (start + c + r - f + g) + x
    BY <2>1
  <2>2. b.balance - (StartBalance + b.closed + b.reset - p.fee + p.financing)
        = b.balance - (StartBalance + b.closed + b.reset - b.pos.fee + b.pos.financing) + x
    BY <1>3, <1>4, <2>1
  <2> QED BY <1>1, <2>2 DEF Gap
<1> QED BY <1>1, <1>2, <1>4 DEF a


\* Lots averaged into a position of their side.
Grown(p, lots, entry, fee, risk, stop, target, since) ==
    [p EXCEPT !.lots = @ + lots, !.entry = entry, !.fee = @ + fee, !.risk = @ + risk,
              !.stop = stop, !.target = target, !.since = since]

GrownBy(p, lots, fee, risk, since, q) ==
    /\ q \in VenuePositions /\ q.lots = p.lots + lots /\ q.fee = p.fee + fee
    /\ q.risk = p.risk + risk /\ q.financing = p.financing /\ q.since = since

LEMMA GrownMeans ==
    ASSUME NEW p \in VenuePositions, NEW lots \in Nat, NEW entry \in Int, NEW fee \in Int, NEW risk \in Int,
           NEW stop \in Int, NEW target \in Int, NEW since \in Int
    PROVE  GrownBy(p, lots, fee, risk, since, Grown(p, lots, entry, fee, risk, stop, target, since))
<1>1. p.lots \in Nat /\ p.fee \in Int /\ p.risk \in Int
  BY DEF VenuePositions
<1>2. PICK l \in Nat : l = p.lots + lots
  BY <1>1
<1>3. PICK f \in Int : f = p.fee + fee
  BY <1>1
<1>4. PICK k \in Int : k = p.risk + risk
  BY <1>1
<1> DEFINE q == Grown(p, lots, entry, fee, risk, stop, target, since)
<1>5. q = [p EXCEPT !.lots = l, !.entry = entry, !.fee = f, !.risk = k,
                    !.stop = stop, !.target = target, !.since = since]
  BY <1>2, <1>3, <1>4 DEF Grown
<1> HIDE DEF q
<1>6. /\ q \in VenuePositions /\ q.lots = l /\ q.fee = f /\ q.risk = k
      /\ q.financing = p.financing /\ q.since = since
  BY <1>5 DEF VenuePositions
<1>7. GrownBy(p, lots, fee, risk, since, q)
  BY <1>2, <1>3, <1>4, <1>6 DEF GrownBy
<1> QED BY <1>7 DEF q

\* What a fill makes of a book.
Filled(b, fee, a) == BookShape(a) /\ Gap(a) = Gap(b) + fee /\ Paid(a, date)

LEMMA PaidToday ==
    ASSUME date \in Nat, date =< Len(DayMultiples), NEW n \in Nat
    PROVE  Charge(n, SwapDays((date + 1)..date)) = 0
<1>1. date =< date
  OBVIOUS
<1>2. SwapDays((date + 1)..date) = 0
  BY <1>1, SwapDaysSplit
<1>3. 0 \in Int
  OBVIOUS
<1>4. Charge(n, 0) = 0
  BY <1>3, ChargeSum
<1> QED BY <1>2, <1>4

\* A position entered today owes no financing yet.
LEMMA EnterKeeps ==
    ASSUME date \in Nat, date =< Len(DayMultiples), NEW b, BookShape(b), ~Held(b),
           NEW p \in VenuePositions, NEW fee \in Int,
           p.lots \in Nat \ {0}, p.risk = LotRisk * p.lots, p.fee = fee, p.financing = 0, p.since = date
    PROVE  Filled(b, fee, WithPosition(b, p))
<1> DEFINE a == WithPosition(b, p)
<1>1. b.pos.fee = 0 /\ b.pos.financing = 0
  BY DEF BookShape
<1>2. BookShape(a) /\ a.pos = p
  BY WithPositionMeans
<1>3. Gap(a) = Gap(b) + fee
  <2>1. p.fee - p.financing = b.pos.fee - b.pos.financing + fee
    BY <1>1
  <2> QED BY <2>1, WithPositionMeans
<1>4. Charge(p.lots, SwapDays((date + 1)..date)) = 0
  BY PaidToday
<1> HIDE DEF a
<1>5. Paid(a, date)
  BY <1>2, <1>4 DEF Paid
<1> QED BY <1>2, <1>3, <1>5 DEF a, Filled

\* Averaging in: lots of several days are told apart from lots of one.
LEMMA GrowKeeps ==
    ASSUME date \in Nat, date =< Len(DayMultiples), NEW b, BookShape(b), Held(b), Paid(b, date),
           NEW lots \in Nat \ {0}, NEW entry \in Int, NEW fee \in Int, NEW stop \in Int, NEW target \in Int
    PROVE  Filled(b, fee, WithPosition(b, Grown(b.pos, lots, entry, fee, LotRisk * lots, stop, target,
                                                IF b.pos.since = date THEN b.pos.since ELSE Mixed)))
<1>1. /\ b.pos \in VenuePositions /\ b.pos.lots \in Nat \ {0} /\ b.pos.risk = LotRisk * b.pos.lots
      /\ b.pos.fee \in Int /\ b.pos.financing \in Int /\ b.pos.since \in Int /\ LotRisk \in Nat
  BY BookFields, VenueConstants DEF Held, BookShape
<1>2. PICK since \in Int : since = (IF b.pos.since = date THEN b.pos.since ELSE Mixed)
  BY <1>1 DEF Mixed
<1>3. PICK risk \in Int : risk = LotRisk * lots
  BY <1>1
<1> DEFINE p == Grown(b.pos, lots, entry, fee, risk, stop, target, since)
           a == WithPosition(b, p)
<1>4. /\ p \in VenuePositions /\ p.lots = b.pos.lots + lots /\ p.fee = b.pos.fee + fee
      /\ p.risk = b.pos.risk + risk /\ p.financing = b.pos.financing /\ p.since = since
  <2>1. lots \in Nat /\ b.pos \in VenuePositions
    BY <1>1
  <2>2. GrownBy(b.pos, lots, fee, risk, since, p)
    BY <2>1, GrownMeans, Zenon
  <2> QED BY <2>2 DEF GrownBy
<1> HIDE DEF p
<1>5. p.lots \in Nat \ {0} /\ p.risk = LotRisk * p.lots
  <2>1. LotRisk * b.pos.lots + LotRisk * lots = LotRisk * (b.pos.lots + lots)
    BY <1>1
  <2>2. p.risk = LotRisk * b.pos.lots + LotRisk * lots
    BY <1>1, <1>3, <1>4, Zenon
  <2>3. p.risk = LotRisk * p.lots
    BY <1>4, <2>1, <2>2, Zenon
  <2>4. p.lots = b.pos.lots + lots
    BY <1>4
  <2>5. p.lots \in Nat \ {0}
    BY <1>1, <2>4
  <2> QED BY <2>3, <2>5
<1>6. BookShape(a) /\ a.pos = p
  BY <1>4, <1>5, WithPositionMeans
<1>7. Gap(a) = Gap(b) + fee
  <2>1. p.fee - p.financing = b.pos.fee - b.pos.financing + fee
    BY <1>1, <1>4, SMTT(30)
  <2> QED BY <1>4, <1>5, <2>1, WithPositionMeans
<1> HIDE DEF a
<1>8. Paid(a, date)
  <2> SUFFICES ASSUME p.since # Mixed
               PROVE  p.since = date /\ p.financing = Charge(p.lots, SwapDays((date + 1)..date))
    BY <1>6 DEF Paid
  <2>1. p.since = date /\ b.pos.since = date /\ b.pos.since # Mixed
    BY <1>2, <1>4
  <2>2. b.pos.financing = Charge(b.pos.lots, SwapDays((date + 1)..date))
    BY <2>1 DEF Paid
  <2>3. Charge(b.pos.lots, SwapDays((date + 1)..date)) = 0 /\ Charge(p.lots, SwapDays((date + 1)..date)) = 0
    BY <1>1, <1>5, PaidToday
  <2> QED BY <1>4, <2>1, <2>2, <2>3
<1>9. Filled(b, fee, a)
  BY <1>6, <1>7, <1>8 DEF Filled
<1> QED BY <1>2, <1>3, <1>9 DEF a, p


\* A close of everything leaves no position.
LEMMA EmptiedMeans ==
    ASSUME NEW p \in VenuePositions, p.lots \in Nat \ {0}
    PROVE  Emptied(Consumed(p, p.lots)) = NoPosition
<1>1. p.lots \in 1..p.lots /\ p.lots - p.lots = 0
  OBVIOUS
<1>2. Consumed(p, p.lots).lots = p.lots - p.lots
  BY <1>1, ConsumedMeans
<1> QED BY <1>1, <1>2 DEF Emptied

\* A fill of the other side closes first and opens the rest.
LEMMA ReverseKeeps ==
    ASSUME date \in Nat, date =< Len(DayMultiples), NEW b, BookShape(b), Held(b), Paid(b, date),
           NEW side \in {-1, 1}, b.pos.side # side, NEW lots \in Nat \ {0}, NEW paid \in Int, NEW wanted,
           NEW stop \in Int, NEW target \in Int, NEW fee \in Int
    PROVE  Filled(b, fee, ApplyFill(b, side, lots, paid, wanted, stop, target, fee))
<1>1. b.pos \in VenuePositions /\ b.pos.lots \in Nat \ {0} /\ Gap(b) \in Int
  BY BookFields DEF Held
<1>2. PICK closing : closing = (IF b.pos.lots < lots THEN b.pos.lots ELSE lots)
  OBVIOUS
<1>3. closing \in 1..b.pos.lots /\ closing \in Nat /\ closing =< lots /\ (closing # lots => closing = b.pos.lots)
  BY <1>1, <1>2
<1>4. PICK share : share = (fee * closing) \div lots
  OBVIOUS
<1>5. share \in Int /\ (closing = lots => share = fee)
  <2>1. fee * closing \in Int /\ (closing = lots => fee * closing = lots * fee)
    BY <1>3
  <2>2. share \in Int
    BY <1>4, <2>1, Quotient
  <2>3. closing = lots => share = fee
    BY <1>4, <2>1, ExactShare
  <2> QED BY <2>2, <2>3
<1>6. PICK after : after = Realise(b, paid, closing, "opposite_fill", share)
  OBVIOUS
<1>7. Realised(b, closing, "opposite_fill", share, after)
  <2>1. "opposite_fill" \in Reasons
    BY DEF Reasons
  <2> QED BY <1>3, <1>5, <1>6, <2>1, RealiseKeeps, Zenon
<1>8. BookShape(after) /\ Gap(after) = Gap(b) + share /\ after.pos = Emptied(Consumed(b.pos, closing))
  BY <1>7 DEF Realised
<1>9. CASE lots = closing
  <2>1. ApplyFill(b, side, lots, paid, wanted, stop, target, fee) = after
    BY <1>2, <1>4, <1>6, <1>9, Zenon DEF ApplyFill
  <2>2. Paid(after, date)
    <3>1. date \in Int
      OBVIOUS
    <3> QED BY <1>3, <1>8, <3>1, CloseLeavesPaid
  <2>3. Gap(after) = Gap(b) + fee
    BY <1>5, <1>8, <1>9
  <2> QED BY <1>8, <2>1, <2>2, <2>3 DEF Filled
<1>10. CASE lots # closing
  <2>1. PICK p : p = Opened(side, lots - closing, paid, wanted, stop, target, fee - share)
    OBVIOUS
  <2>2. ApplyFill(b, side, lots, paid, wanted, stop, target, fee) = WithPosition(after, p)
    BY <1>2, <1>4, <1>6, <1>10, <2>1, Zenon DEF ApplyFill, WithPosition
  <2>3. lots - closing \in Nat \ {0} /\ fee - share \in Int
    BY <1>3, <1>5, <1>10
  <2>4. /\ p \in VenuePositions /\ p.lots = lots - closing /\ p.risk = LotRisk * (lots - closing)
        /\ p.fee = fee - share /\ p.financing = 0 /\ p.since = date
    BY <2>1, <2>3, OpenedMeans
  <2>5. ~Held(after)
    <3>1. after.pos = NoPosition
      BY <1>1, <1>3, <1>8, <1>10, EmptiedMeans
    <3> QED BY <3>1, NoPositionMeans DEF Held
  <2>6. Filled(after, fee - share, WithPosition(after, p))
    BY <1>8, <2>3, <2>4, <2>5, EnterKeeps
  <2>7. Gap(b) + share + (fee - share) = Gap(b) + fee
    BY <1>1, <1>5
  <2>8. /\ BookShape(WithPosition(after, p)) /\ Paid(WithPosition(after, p), date)
        /\ Gap(WithPosition(after, p)) = Gap(after) + (fee - share)
    BY <2>6 DEF Filled
  <2>9. Gap(WithPosition(after, p)) = Gap(b) + fee
    BY <1>8, <2>7, <2>8
  <2> QED BY <2>2, <2>8, <2>9 DEF Filled
<1> QED BY <1>9, <1>10

LEMMA AverageIsNumber ==
    ASSUME NEW p \in Int, NEW n \in Nat \ {0}, NEW q \in Int, NEW k \in Nat \ {0}
    PROVE  Average(p, n, q, k) \in Int
<1>1. n + k \in Nat \ {0} /\ p * n \in Int /\ q * k \in Int
  OBVIOUS
<1>2. p * n + q * k \in Int
  BY <1>1
<1>3. (p * n + q * k) \div (n + k) \in Int
  BY <1>1, <1>2, Quotient
<1> QED BY <1>3 DEF Average

LEMMA FillKeeps ==
    ASSUME date \in Nat, date =< Len(DayMultiples), NEW b, BookShape(b), Paid(b, date),
           NEW side \in {-1, 1}, NEW lots \in Nat \ {0}, NEW paid \in Int, NEW wanted,
           NEW stop \in Int, NEW target \in Int, NEW fee \in Int
    PROVE  Filled(b, fee, ApplyFill(b, side, lots, paid, wanted, stop, target, fee))
<1>1. CASE ~Held(b)
  <2>1. PICK p : p = Opened(side, lots, paid, wanted, stop, target, fee)
    OBVIOUS
  <2>2. ApplyFill(b, side, lots, paid, wanted, stop, target, fee) = WithPosition(b, p)
    BY <1>1, <2>1, Zenon DEF ApplyFill, WithPosition
  <2>3. /\ p \in VenuePositions /\ p.lots = lots /\ p.risk = LotRisk * lots
        /\ p.fee = fee /\ p.financing = 0 /\ p.since = date
    BY <2>1, OpenedMeans
  <2> QED BY <1>1, <2>2, <2>3, EnterKeeps
<1>2. CASE Held(b) /\ b.pos.side = side
  <2>1. b.pos \in VenuePositions /\ b.pos.lots \in Nat \ {0} /\ b.pos.entry \in Int
    BY <1>2, BookFields DEF Held
  <2>2. PICK entry \in Int : entry = Average(b.pos.entry, b.pos.lots, paid, lots)
    BY <2>1, AverageIsNumber
  <2>3. ApplyFill(b, side, lots, paid, wanted, stop, target, fee)
        = WithPosition(b, Grown(b.pos, lots, entry, fee, LotRisk * lots, stop, target,
                                IF b.pos.since = date THEN b.pos.since ELSE Mixed))
    <3>1. ApplyFill(b, side, lots, paid, wanted, stop, target, fee)
          = [b EXCEPT !.pos = [b.pos EXCEPT !.lots = @ + lots,
                       !.entry = Average(b.pos.entry, b.pos.lots, paid, lots),
                       !.fee = @ + fee, !.risk = @ + RiskOf(wanted, lots),
                       !.stop = stop, !.target = target, !.since = IF @ = date THEN @ ELSE Mixed]]
      BY <1>2, Zenon DEF ApplyFill
    <3> QED BY <2>2, <3>1, Zenon DEF WithPosition, Grown, RiskOf
  <2> QED BY <1>2, <2>2, <2>3, GrowKeeps
<1>3. CASE Held(b) /\ b.pos.side # side
  BY <1>3, ReverseKeeps
<1> QED BY <1>1, <1>2, <1>3


-----------------------------------------------------------------------------
(* A quote: the dates that passed are charged, then the position may close *)

Charged(b, c) == [b EXCEPT !.balance = @ + c, !.pos.financing = @ + c]

LEMMA ChargedMeans ==
    ASSUME NEW b, BookShape(b), Held(b), NEW c \in Int
    PROVE  LET a == Charged(b, c)
           IN  /\ BookShape(a) /\ Gap(a) = Gap(b) /\ a.pos.lots = b.pos.lots
               /\ a.pos.since = b.pos.since /\ a.pos.financing = b.pos.financing + c
<1>1. /\ b \in Ledgers /\ b.balance \in Int /\ b.closed \in Int /\ b.reset \in Int /\ b.pos.lots \in Nat
      /\ b.pos.fee \in Int /\ b.pos.financing \in Int /\ StartBalance \in Int /\ b.pos \in VenuePositions
  BY BookFields, VenueConstants DEF BookShape
<1>2. PICK m \in Int : m = b.balance + c
  BY <1>1
<1>3. PICK g \in Int : g = b.pos.financing + c
  BY <1>1
<1>4. PICK q : q = [b.pos EXCEPT !.financing = g]
  OBVIOUS
<1>5. /\ q \in VenuePositions /\ q.lots = b.pos.lots /\ q.since = b.pos.since /\ q.financing = g
      /\ q.fee = b.pos.fee /\ q.risk = b.pos.risk
  BY <1>1, <1>4 DEF VenuePositions
<1> DEFINE a == Charged(b, c)
<1>6. a = [b EXCEPT !.balance = m, !.pos = q]
  BY <1>2, <1>3, <1>4, Zenon DEF Charged
<1> HIDE DEF a
<1>7. /\ a \in Ledgers /\ a.pos = q /\ a.balance = m /\ a.closed = b.closed /\ a.reset = b.reset
  BY <1>1, <1>5, <1>6 DEF Ledgers
<1>8. BookShape(a)
  BY <1>5, <1>7 DEF BookShape, Held
<1>9. Gap(a) = Gap(b)
  <2>1. ASSUME NEW start \in Int, NEW bal \in Int, NEW k \in Int, NEW r \in Int, NEW f \in Int, NEW h \in Int
        PROVE  (bal + c) - (start + k + r - f + (h + c)) = bal - (start + k + r - f + h)
    OBVIOUS
  <2>2. (b.balance + c) - (StartBalance + b.closed + b.reset - b.pos.fee + (b.pos.financing + c))
        = b.balance - (StartBalance + b.closed + b.reset - b.pos.fee + b.pos.financing)
    BY <1>1, <2>1
  <2>3. /\ a.balance = b.balance + c /\ a.closed = b.closed /\ a.reset = b.reset
        /\ a.pos.fee = b.pos.fee /\ a.pos.financing = b.pos.financing + c
    BY <1>2, <1>3, <1>5, <1>7
  <2>4. Gap(a) = (b.balance + c)
                   - (StartBalance + b.closed + b.reset - b.pos.fee + (b.pos.financing + c))
    BY <2>3, Zenon DEF Gap
  <2> QED BY <2>2, <2>4, Zenon DEF Gap
<1> QED BY <1>3, <1>5, <1>7, <1>8, <1>9 DEF a

\* Every value date passed is charged, once.
LEMMA RollKeeps ==
    ASSUME NEW b, BookShape(b), NEW d \in Nat, d =< Len(DayMultiples), rolledTo \in Int, rolledTo =< d,
           -1 =< rolledTo, rolledTo = -1 => ~Held(b), Paid(b, rolledTo)
    PROVE  BookShape(RolledOver(b, d)) /\ Gap(RolledOver(b, d)) = Gap(b) /\ Paid(RolledOver(b, d), d)
<1>1. CASE ~Held(b)
  <2>1. RolledOver(b, d) = b
    BY <1>1 DEF RolledOver
  <2> QED BY <1>1, <2>1, FlatIsPaid
<1>2. CASE Held(b) /\ d =< rolledTo
  <2>1. RolledOver(b, d) = b /\ rolledTo = d
    BY <1>2 DEF RolledOver
  <2> QED BY <2>1
<1>3. CASE Held(b) /\ ~ (d =< rolledTo)
  <2>1. rolledTo \in Nat /\ rolledTo =< d /\ rolledTo # -1
    BY <1>3
  <2>2. PICK k : k = SwapDays((rolledTo + 1)..d)
    OBVIOUS
  <2>3. k \in Int
    <3>1. rolledTo =< rolledTo
      BY <2>1
    <3> QED BY <2>1, <2>2, <3>1, SwapDaysSplit
  <2>4. b.pos.lots \in Nat /\ b.pos.since \in Int
    BY BookFields
  <2>5. PICK c : c = Charge(b.pos.lots, k)
    OBVIOUS
  <2>6. c \in Int
    <3>1. 0 \in Int
      OBVIOUS
    <3> QED BY <2>3, <2>4, <2>5, <3>1, ChargeSum
  <2>7. RolledOver(b, d) = Charged(b, c)
    BY <1>3, <2>1, <2>2, <2>5, Zenon DEF RolledOver, Pending, Charge, Charged
  <2>8. PICK a : a = Charged(b, c)
    OBVIOUS
  <2>9. /\ BookShape(a) /\ Gap(a) = Gap(b) /\ a.pos.lots = b.pos.lots
        /\ a.pos.since = b.pos.since /\ a.pos.financing = b.pos.financing + c
    BY <1>3, <2>6, <2>8, ChargedMeans
  <2>10. Paid(a, d)
    <3> SUFFICES ASSUME b.pos.since # Mixed
                 PROVE  /\ 0 =< b.pos.since /\ b.pos.since =< d
                        /\ b.pos.financing + c = Charge(b.pos.lots, SwapDays((b.pos.since + 1)..d))
      BY <2>9 DEF Paid
    <3>1. /\ 0 =< b.pos.since /\ b.pos.since =< rolledTo
          /\ b.pos.financing = Charge(b.pos.lots, SwapDays((b.pos.since + 1)..rolledTo))
      BY <1>3 DEF Paid
    <3>2. b.pos.since \in Nat /\ b.pos.since =< d
      BY <2>1, <2>4, <3>1
    <3>3. PICK j : j = SwapDays((b.pos.since + 1)..rolledTo)
      OBVIOUS
    <3>4. j \in Int /\ SwapDays((b.pos.since + 1)..d) = j + k
      BY <2>1, <2>2, <3>1, <3>2, <3>3, SwapDaysSplit
    <3>5. Charge(b.pos.lots, j) + Charge(b.pos.lots, k) = Charge(b.pos.lots, j + k)
      BY <2>3, <2>4, <3>4, ChargeSum
    <3>6. b.pos.financing + c = Charge(b.pos.lots, SwapDays((b.pos.since + 1)..d))
      BY <2>5, <3>1, <3>3, <3>4, <3>5, Zenon
    <3> QED BY <3>1, <3>2, <3>6
  <2> QED BY <2>7, <2>8, <2>9, <2>10
<1> QED BY <1>1, <1>2, <1>3

\* A check of the exits leaves the book alone or flat.
KeptOrFlat(b, a) == BookShape(a) /\ Gap(a) = Gap(b) /\ (a = b \/ ~Held(a))

LEMMA ExitPrices ==
    ASSUME NEW b, BookShape(b), NEW m \in Int, NEW slip \in Int
    PROVE  /\ PriceFor(-b.pos.side, m) \in Int
           /\ Worse(b.pos.side, PriceFor(-b.pos.side, m), b.pos.stop) - slip * b.pos.side \in Int
           /\ PriceFor(-b.pos.side, m) - slip * b.pos.side \in Int
<1>1. b.pos.side \in {-1, 1} /\ b.pos.stop \in Int /\ HalfSpread \in Nat
  BY BookFields, VenueConstants
<1>2. ASSUME NEW side \in {-1, 1}, NEW stop \in Int
      PROVE  /\ PriceFor(-side, m) \in Int
             /\ Worse(side, PriceFor(-side, m), stop) - slip * side \in Int
             /\ PriceFor(-side, m) - slip * side \in Int
  <2>1. PriceFor(-side, m) \in Int
    BY <1>1 DEF PriceFor
  <2>2. slip * side \in Int
    OBVIOUS
  <2>3. Worse(side, PriceFor(-side, m), stop) \in Int
    BY <2>1 DEF Worse
  <2> QED BY <2>1, <2>2, <2>3
<1> QED BY <1>1, <1>2

LEMMA ExitsKeep ==
    ASSUME NEW b, BookShape(b), NEW m \in Int, NEW slip \in Int
    PROVE  KeptOrFlat(b, Exits(b, m, slip))
<1>1. b.pos.target \in Int /\ {"stop_loss", "take_profit"} \subseteq Reasons
  BY BookFields DEF Reasons
<1>2. CASE ~Held(b)
  BY <1>2, Zenon DEF Exits, KeptOrFlat
<1>3. CASE Held(b) /\ StopHit(b, m)
  <2>1. PICK p \in Int : p = Worse(b.pos.side, PriceFor(-b.pos.side, m), b.pos.stop) - slip * b.pos.side
    BY ExitPrices
  <2>2. Exits(b, m, slip) = Realise(b, p, b.pos.lots, "stop_loss", 0)
    BY <1>3, <2>1, Zenon DEF Exits
  <2> QED BY <1>1, <1>3, <2>2, CloseAll DEF KeptOrFlat
<1>4. CASE Held(b) /\ ~StopHit(b, m) /\ TargetHit(b, m)
  <2>1. Exits(b, m, slip) = Realise(b, b.pos.target, b.pos.lots, "take_profit", 0)
    BY <1>4, Zenon DEF Exits
  <2> QED BY <1>1, <1>4, <2>1, CloseAll DEF KeptOrFlat
<1>5. CASE Held(b) /\ ~StopHit(b, m) /\ ~TargetHit(b, m)
  BY <1>5, Zenon DEF Exits, KeptOrFlat
<1> QED BY <1>2, <1>3, <1>4, <1>5

\* After the margin check no position is at or below the stop-out level.
LEMMA MarginKeeps ==
    ASSUME NEW b, BookShape(b), NEW m \in Int
    PROVE  /\ KeptOrFlat(b, MarginChecked(b, m))
           /\ Held(MarginChecked(b, m)) => ~StoppedOut(MarginChecked(b, m), m)
<1>1. PICK p \in Int : p = PriceFor(-b.pos.side, m)
  <2>1. 0 \in Int
    OBVIOUS
  <2> QED BY <2>1, ExitPrices
<1>2. CASE StoppedOut(b, m)
  <2>1. MarginChecked(b, m) = Realise(b, p, b.pos.lots, "margin_stop_out", 0)
    BY <1>1, <1>2, Zenon DEF MarginChecked
  <2>2. "margin_stop_out" \in Reasons /\ Held(b)
    BY <1>2 DEF Reasons, StoppedOut
  <2> QED BY <2>1, <2>2, CloseAll DEF KeptOrFlat
<1>3. CASE ~StoppedOut(b, m)
  BY <1>3, Zenon DEF MarginChecked, KeptOrFlat
<1> QED BY <1>2, <1>3

LEMMA FedKeeps ==
    ASSUME NEW b, BookShape(b), NEW m \in Int, NEW slip \in Int
    PROVE  /\ KeptOrFlat(b, Fed(b, m, slip))
           /\ Held(Fed(b, m, slip)) => ~StoppedOut(Fed(b, m, slip), m)
<1>1. PICK e : e = Exits(b, m, slip)
  OBVIOUS
<1>2. PICK a : a = MarginChecked(e, m)
  OBVIOUS
<1>3. KeptOrFlat(b, e)
  BY <1>1, ExitsKeep
<1>4. BookShape(e)
  BY <1>3 DEF KeptOrFlat
<1>5. KeptOrFlat(e, a) /\ (Held(a) => ~StoppedOut(a, m))
  BY <1>2, <1>4, MarginKeeps
<1>6. KeptOrFlat(b, a)
  <2>1. BookShape(a) /\ Gap(a) = Gap(b) /\ (e = b \/ ~Held(e)) /\ (a = e \/ ~Held(a))
    BY <1>3, <1>5 DEF KeptOrFlat
  <2> QED BY <2>1 DEF KeptOrFlat
<1> QED BY <1>1, <1>2, <1>5, <1>6, Zenon DEF Fed

LEMMA FlatIsFed == ASSUME NEW b, ~Held(b), NEW m, NEW slip PROVE Fed(b, m, slip) = b
<1>1. Exits(b, m, slip) = b
  BY Zenon DEF Exits
<1>2. MarginChecked(b, m) = b
  BY Zenon DEF MarginChecked, StoppedOut
<1> QED BY <1>1, <1>2 DEF Fed


-----------------------------------------------------------------------------
(* The simulated venue's invariant                                         *)

VenueStates == {"none", "FILLED", "PARTIAL", "UNKNOWN", "REJECTED", "CANCELLED"}

PvTypes ==
    /\ mid \in Nat
    /\ date \in Nat /\ date =< Len(DayMultiples)
    /\ orders \in [PvOrders -> VenueStates]
    /\ executions \in [PvOrders -> Nat]

\* Before the first quote nothing is held; after it the clock's date is charged.
RolledInv == rolledTo = date \/ (rolledTo = -1 /\ mid = 0 /\ ~Held(book))

LedgerInv == BookShape(book) /\ Gap(book) = 0 /\ Paid(book, rolledTo)

OnceInv == \A o \in PvOrders : executions[o] =< 1 /\ (orders[o] = "none" => executions[o] = 0)

PvInv == PvTypes /\ RolledInv /\ LedgerInv /\ OnceInv /\ BothIsALoss

LEMMA PvInitially == PvInit => PvInv
<1> SUFFICES ASSUME PvInit PROVE PvInv
  OBVIOUS
<1>1. PvTypes
  BY VenueConstants DEF PvInit, PvTypes, VenueStates
<1>2. /\ book \in Ledgers /\ book.pos = NoPosition
      /\ book.balance = StartBalance /\ book.closed = 0 /\ book.reset = 0
  BY VenueConstants, NoPositionMeans DEF PvInit, Ledgers, Reasons
<1>3. ~Held(book)
  BY <1>2, NoPositionMeans DEF Held
<1>4. BookShape(book)
  BY <1>2, NoPositionMeans, VenueConstants DEF BookShape
<1>5. Gap(book) = 0
  <2>1. StartBalance - (StartBalance + 0 + 0 - 0 + 0) = 0
    BY VenueConstants
  <2> QED BY <1>2, <2>1, NoPositionMeans DEF Gap
<1>6. RolledInv /\ LedgerInv
  BY <1>3, <1>4, <1>5, FlatIsPaid DEF PvInit, RolledInv, LedgerInv
<1>7. OnceInv
  BY DEF PvInit, OnceInv
<1>8. ~lastBar.both
  BY DEF PvInit, NoBar
<1>9. BothIsALoss
  BY <1>8, Zenon DEF BothIsALoss
<1> QED BY <1>1, <1>6, <1>7, <1>9 DEF PvInv

\* A step that is no bar leaves no bar to score.
LEMMA NoBarIsScored == lastBar' = NoBar => BothIsALoss'
<1> SUFFICES ASSUME lastBar' = NoBar PROVE BothIsALoss'
  OBVIOUS
<1>1. ~lastBar'.both
  BY DEF NoBar
<1> QED BY <1>1, Zenon DEF BothIsALoss

LEMMA BookIsInOrder == LedgerInv => BooksBalance /\ RiskOfHeldLots
<1> SUFFICES ASSUME LedgerInv PROVE BooksBalance /\ RiskOfHeldLots
  OBVIOUS
<1>1. RiskOfHeldLots
  BY DEF LedgerInv, BookShape, RiskOfHeldLots
<1>2. /\ book.balance \in Int /\ book.closed \in Int /\ book.reset \in Int
      /\ book.pos.fee \in Int /\ book.pos.financing \in Int /\ StartBalance \in Int
  BY BookFields, VenueConstants DEF LedgerInv
<1>3. PICK f \in Int, g \in Int : f = book.pos.fee /\ g = book.pos.financing
  BY <1>2
<1>4. book.balance - (StartBalance + book.closed + book.reset - f + g) = 0
  BY <1>3, Zenon DEF LedgerInv, Gap
<1>5. book.balance = StartBalance + book.closed + book.reset - f + g
  BY <1>2, <1>4
<1>6. BooksBalance
  BY <1>3, <1>5, Zenon DEF BooksBalance
<1> QED BY <1>1, <1>6

LEMMA FinancingIsCharged == LedgerInv => FinancingIsExact
  BY DEF LedgerInv, Paid, FinancingIsExact, Charge

LEMMA EquityIsNumber ==
    ASSUME NEW b, BookShape(b), NEW m \in Int
    PROVE  Equity(b, m) \in Int /\ MarginUsed(b) \in Int
<1>1. /\ b.balance \in Int /\ b.pos.lots \in Nat /\ b.pos.entry \in Int /\ b.pos.side \in {-1, 1}
      /\ LotMargin \in Nat
  BY BookFields, VenueConstants
<1>2. PICK p \in Int : p = PriceFor(-b.pos.side, m)
  <2>1. 0 \in Int
    OBVIOUS
  <2> QED BY <2>1, ExitPrices
<1>3. ASSUME NEW side \in {-1, 1}, NEW lots \in Nat, NEW entry \in Int
      PROVE  (p - entry) * side * lots \in Int /\ lots * LotMargin \in Int
  <2>1. (p - entry) * side \in Int
    OBVIOUS
  <2> QED BY <1>1, <2>1
<1>4. Unrealised(b, m) \in Int /\ MarginUsed(b) \in Int
  BY <1>1, <1>2, <1>3 DEF Unrealised, MarginUsed
<1>5. Equity(b, m) \in Int
  BY <1>1, <1>4 DEF Equity
<1> QED BY <1>4, <1>5

LEMMA NotStoppedOut ==
    ASSUME NEW b, BookShape(b), NEW m \in Int, Held(b), ~StoppedOut(b, m)
    PROVE  2 * Equity(b, m) > MarginUsed(b)
<1>1. ~ (2 * Equity(b, m) <= MarginUsed(b))
  BY Zenon DEF StoppedOut
<1>2. PICK e \in Int : e = Equity(b, m)
  BY EquityIsNumber
<1>3. PICK u \in Int : u = MarginUsed(b)
  BY EquityIsNumber
<1> QED BY <1>1, <1>2, <1>3

\* Clearing the reason changes no equity.
LEMMA SettledIsHealthy ==
    ASSUME NEW b, BookShape(b), NEW m \in Int, Held(b) => ~StoppedOut(b, m), Held(Settled(b))
    PROVE  2 * Equity(Settled(b), m) > MarginUsed(Settled(b))
<1>1. Settled(b).pos = b.pos /\ Settled(b).balance = b.balance
  BY SettledKeeps
<1>2. /\ Held(b) /\ Equity(Settled(b), m) = Equity(b, m) /\ MarginUsed(Settled(b)) = MarginUsed(b)
  BY <1>1, Zenon DEF Held, Equity, Unrealised, MarginUsed
<1> QED BY <1>2, NotStoppedOut

LEMMA QuoteKeeps == ASSUME PvInv, Quote PROVE PvInv' /\ NeverUnderStopOut
<1> USE DEF PvInv
<1>1. PICK m \in Mids, slip \in Slips, d \in date..Len(DayMultiples) :
        /\ mid' = m /\ date' = d /\ rolledTo' = d
        /\ book' = Settled(Fed(RolledOver(book, d), m, slip))
  BY DEF Quote
<1>2. /\ lastBar' = NoBar /\ orders' = orders /\ executions' = executions
  BY DEF Quote
<1>3. /\ m \in Nat /\ slip \in Int /\ d \in Nat /\ d =< Len(DayMultiples) /\ date =< d
  BY VenueConstants DEF PvTypes
<1>4. PICK b : b = RolledOver(book, d)
  OBVIOUS
<1>5. PICK a : a = Fed(b, m, slip)
  OBVIOUS
<1>6. BookShape(b) /\ Gap(b) = 0 /\ Paid(b, d)
  <2>1. rolledTo \in Int /\ rolledTo =< d /\ -1 =< rolledTo /\ (rolledTo = -1 => ~Held(book))
    BY <1>3 DEF RolledInv, PvTypes
  <2> QED BY <1>3, <1>4, <2>1, RollKeeps DEF LedgerInv
<1>7. KeptOrFlat(b, a) /\ (Held(a) => ~StoppedOut(a, m))
  <2>1. m \in Int
    BY <1>3
  <2> QED BY <1>3, <1>5, <1>6, <2>1, FedKeeps
<1>8. BookShape(a) /\ Gap(a) = 0 /\ Paid(a, d)
  BY <1>6, <1>7, FlatIsPaid DEF KeptOrFlat
<1>9. BookShape(book') /\ Gap(book') = 0 /\ Paid(book', d)
  <2>1. book' = Settled(a)
    BY <1>1, <1>4, <1>5
  <2>2. BookShape(Settled(a)) /\ Gap(Settled(a)) = Gap(a) /\ Settled(a).pos = a.pos
    BY <1>8, SettledKeeps
  <2> QED BY <1>8, <2>1, <2>2, PaidConcernsPosition
<1>10. LedgerInv' /\ RolledInv'
  BY <1>1, <1>9 DEF LedgerInv, RolledInv
<1>11. PvTypes' /\ OnceInv'
  BY <1>1, <1>2, <1>3 DEF PvTypes, OnceInv
<1>12. BothIsALoss'
  BY <1>2, NoBarIsScored
<1>13. NeverUnderStopOut
  <2>1. book' = Settled(a) /\ mid' = m /\ m \in Int
    BY <1>1, <1>3, <1>4, <1>5
  <2> QED BY <1>7, <1>8, <2>1, SettledIsHealthy DEF NeverUnderStopOut
<1> QED BY <1>10, <1>11, <1>12, <1>13


\* The worse extreme is marked first: a stop inside the bar is met before a
\* target inside it.
LEMMA StopBeforeTarget ==
    ASSUME NEW b, BookShape(b), Held(b), NEW low \in Int, NEW high \in Int, low =< high,
           \E m \in {low, high} : StopHit(b, m)
    PROVE  StopHit(b, AdverseFirst(b, low, high)[1])
<1>1. b.pos.side \in {-1, 1} /\ b.pos.stop \in Int /\ HalfSpread \in Nat
  BY BookFields, VenueConstants
<1>2. PICK x \in Int : x = (IF b.pos.side = -1 THEN high ELSE low)
  OBVIOUS
<1>3. AdverseFirst(b, low, high)[1] = x
  BY <1>2 DEF AdverseFirst
<1>4. PICK m \in {low, high} : StopHit(b, m)
  OBVIOUS
<1>5. ASSUME NEW side \in {-1, 1}, NEW stop \in Int, (PriceFor(-side, m) - stop) * side <= 0,
             x = (IF side = -1 THEN high ELSE low)
      PROVE  (PriceFor(-side, x) - stop) * side <= 0
  <2>1. CASE side = 1
    BY <1>1, <1>5, <2>1 DEF PriceFor
  <2>2. CASE side = -1
    BY <1>1, <1>5, <2>2 DEF PriceFor
  <2> QED BY <2>1, <2>2
<1>6. b.pos.stop > 0 /\ (PriceFor(-b.pos.side, m) - b.pos.stop) * b.pos.side <= 0
  BY <1>4 DEF StopHit
<1>7. (PriceFor(-b.pos.side, x) - b.pos.stop) * b.pos.side <= 0
  BY <1>1, <1>2, <1>5, <1>6
<1> QED BY <1>3, <1>6, <1>7 DEF StopHit

\* A mark that meets the stop ends in a loss, and no later mark changes that.
LEMMA StopIsALoss ==
    ASSUME NEW b, BookShape(b), Held(b), NEW m \in Int, NEW slip \in Int, StopHit(b, m)
    PROVE  ~Held(Fed(b, m, slip)) /\ Fed(b, m, slip).reason = "stop_loss"
<1>1. PICK p \in Int : p = Worse(b.pos.side, PriceFor(-b.pos.side, m), b.pos.stop) - slip * b.pos.side
  BY ExitPrices
<1>2. PICK e : e = Exits(b, m, slip)
  OBVIOUS
<1>3. e = Realise(b, p, b.pos.lots, "stop_loss", 0)
  BY <1>1, <1>2, Zenon DEF Exits
<1>4. ~Held(e) /\ e.reason = "stop_loss"
  <2>1. "stop_loss" \in Reasons
    BY DEF Reasons
  <2> QED BY <1>3, <2>1, CloseAll
<1>5. MarginChecked(e, m) = e
  BY <1>4, Zenon DEF MarginChecked, StoppedOut
<1> QED BY <1>2, <1>4, <1>5 DEF Fed

\* Where neither barrier is met, only the margin check can close.
LEMMA QuietMark ==
    ASSUME NEW b, BookShape(b), Held(b), NEW m \in Int, NEW slip \in Int, ~StopHit(b, m), ~TargetHit(b, m)
    PROVE  Fed(b, m, slip) = b \/ (~Held(Fed(b, m, slip)) /\ Fed(b, m, slip).reason = "margin_stop_out")
<1>1. Exits(b, m, slip) = b
  BY Zenon DEF Exits
<1>2. CASE ~StoppedOut(b, m)
  BY <1>1, <1>2, Zenon DEF Fed, MarginChecked
<1>3. CASE StoppedOut(b, m)
  <2>1. PICK p \in Int : p = PriceFor(-b.pos.side, m)
    BY ExitPrices
  <2>2. Fed(b, m, slip) = Realise(b, p, b.pos.lots, "margin_stop_out", 0)
    BY <1>1, <1>3, <2>1, Zenon DEF Fed, MarginChecked
  <2>3. "margin_stop_out" \in Reasons
    BY DEF Reasons
  <2> QED BY <2>2, <2>3, CloseAll
<1> QED BY <1>2, <1>3

\* The four marks of a bar: its open, the worse extreme, the other, its close.
Replayed(b, o, path, c, slip) == Fed(Fed(Fed(Fed(b, o, slip), path[1], slip), path[2], slip), c, slip)

LEMMA FlatIsReplayed ==
    ASSUME NEW b, ~Held(b), NEW path, NEW c, NEW slip
    PROVE  /\ Fed(Fed(b, path[2], slip), c, slip) = b
           /\ Fed(Fed(Fed(b, path[1], slip), path[2], slip), c, slip) = b
<1>1. Fed(b, path[1], slip) = b /\ Fed(b, path[2], slip) = b /\ Fed(b, c, slip) = b
  BY FlatIsFed
<1> QED BY <1>1, Zenon

LEMMA BarIsScored ==
    ASSUME NEW b, BookShape(b), NEW o \in Int, NEW low \in Int, NEW high \in Int, low =< high,
           NEW c \in Int, NEW slip \in Int, BothTouched(b, o, low, high)
    PROVE  Replayed(b, o, AdverseFirst(b, low, high), c, slip).reason # "take_profit"
<1>1. Held(b) /\ ~StopHit(b, o) /\ ~TargetHit(b, o) /\ \E m \in {low, high} : StopHit(b, m)
  BY Zenon DEF BothTouched
<1>2. PICK path : path = AdverseFirst(b, low, high)
  OBVIOUS
<1>3. PICK b1 : b1 = Fed(b, o, slip)
  OBVIOUS
<1>4. b1 = b \/ (~Held(b1) /\ b1.reason = "margin_stop_out")
  BY <1>1, <1>3, QuietMark
<1>5. CASE ~Held(b1) /\ b1.reason = "margin_stop_out"
  <2>1. Replayed(b, o, path, c, slip) = b1
    <3>1. Fed(Fed(Fed(b1, path[1], slip), path[2], slip), c, slip) = b1
      BY <1>5, FlatIsReplayed
    <3>2. Replayed(b, o, path, c, slip) = Fed(Fed(Fed(b1, path[1], slip), path[2], slip), c, slip)
      BY <1>3 DEF Replayed
    <3> QED BY <3>1, <3>2
  <2> QED BY <1>2, <1>5, <2>1
<1>6. CASE b1 = b
  <2>1. StopHit(b, path[1]) /\ path[1] \in Int
    <3>1. StopHit(b, path[1])
      BY <1>1, <1>2, StopBeforeTarget
    <3>2. path[1] \in Int
      BY <1>2 DEF AdverseFirst
    <3> QED BY <3>1, <3>2
  <2>2. PICK b2 : b2 = Fed(b, path[1], slip)
    OBVIOUS
  <2>3. ~Held(b2) /\ b2.reason = "stop_loss"
    BY <1>1, <2>1, <2>2, StopIsALoss
  <2>4. Replayed(b, o, path, c, slip) = b2
    <3>1. Fed(Fed(b2, path[2], slip), c, slip) = b2
      BY <2>3, FlatIsReplayed
    <3>2. Replayed(b, o, path, c, slip) = Fed(Fed(b2, path[2], slip), c, slip)
      BY <1>3, <1>6, <2>2 DEF Replayed
    <3> QED BY <3>1, <3>2
  <2> QED BY <1>2, <2>3, <2>4
<1> QED BY <1>4, <1>5, <1>6

LEMMA ReplayKeeps ==
    ASSUME NEW b, BookShape(b), NEW o \in Int, NEW path, path[1] \in Int, path[2] \in Int,
           NEW c \in Int, NEW slip \in Int
    PROVE  /\ KeptOrFlat(b, Replayed(b, o, path, c, slip))
           /\ Held(Replayed(b, o, path, c, slip)) => ~StoppedOut(Replayed(b, o, path, c, slip), c)
<1>1. PICK b1 : b1 = Fed(b, o, slip)
  OBVIOUS
<1>2. PICK b2 : b2 = Fed(b1, path[1], slip)
  OBVIOUS
<1>3. PICK b3 : b3 = Fed(b2, path[2], slip)
  OBVIOUS
<1>4. PICK b4 : b4 = Fed(b3, c, slip)
  OBVIOUS
<1>5. KeptOrFlat(b, b1)
  BY <1>1, FedKeeps
<1>6. KeptOrFlat(b1, b2)
  BY <1>2, <1>5, FedKeeps DEF KeptOrFlat
<1>7. KeptOrFlat(b2, b3)
  BY <1>3, <1>6, FedKeeps DEF KeptOrFlat
<1>8. KeptOrFlat(b3, b4) /\ (Held(b4) => ~StoppedOut(b4, c))
  BY <1>4, <1>7, FedKeeps DEF KeptOrFlat
<1>9. KeptOrFlat(b, b4)
  BY <1>5, <1>6, <1>7, <1>8 DEF KeptOrFlat
<1>10. b4 = Replayed(b, o, path, c, slip)
  BY <1>1, <1>2, <1>3, <1>4, Zenon DEF Replayed
<1> QED BY <1>8, <1>9, <1>10


\* A step that changes no more than the book, on the date of the last quote.
LEMMA BookStepKeeps ==
    ASSUME PvInv, NEW b, BookShape(b), Gap(b) = 0, Paid(b, rolledTo), rolledTo = date,
           book' = Settled(b), mid' \in Nat, date' = date, rolledTo' = rolledTo
    PROVE  LedgerInv' /\ RolledInv'
<1>1. BookShape(Settled(b)) /\ Gap(Settled(b)) = Gap(b) /\ Settled(b).pos = b.pos
  BY SettledKeeps
<1>2. BookShape(book') /\ Gap(book') = 0 /\ Paid(book', rolledTo)
  BY <1>1, PaidConcernsPosition
<1> QED BY <1>2 DEF LedgerInv, RolledInv

LEMMA BarKeeps == ASSUME PvInv, Bar PROVE PvInv' /\ NeverUnderStopOut
<1> USE DEF PvInv
<1>1. PICK low \in Mids, high \in Mids, c \in Mids, slip \in Slips :
        /\ low <= mid /\ mid <= high
        /\ book' = Settled(Replayed(book, mid, AdverseFirst(book, low, high), c, slip))
        /\ lastBar' = [both |-> BothTouched(book, mid, low, high),
                       reason |-> Replayed(book, mid, AdverseFirst(book, low, high), c, slip).reason]
        /\ mid' = c
  BY SMT DEF Bar, Replayed
<1>2. rolledTo = date /\ date' = date /\ rolledTo' = rolledTo /\ orders' = orders /\ executions' = executions
  BY DEF Bar
<1>3. mid \in Int /\ low \in Int /\ high \in Int /\ c \in Nat /\ c \in Int /\ slip \in Int /\ low =< high
  BY <1>1, VenueConstants DEF PvTypes
<1>4. PICK path : path = AdverseFirst(book, low, high)
  OBVIOUS
<1>5. path[1] \in Int /\ path[2] \in Int
  BY <1>3, <1>4 DEF AdverseFirst
<1>6. PICK a : a = Replayed(book, mid, path, c, slip)
  OBVIOUS
<1>7. KeptOrFlat(book, a) /\ (Held(a) => ~StoppedOut(a, c))
  BY <1>3, <1>5, <1>6, ReplayKeeps DEF LedgerInv
<1>8. BookShape(a) /\ Gap(a) = 0 /\ Paid(a, rolledTo)
  BY <1>7, FlatIsPaid DEF KeptOrFlat, LedgerInv
<1>9. book' = Settled(a) /\ mid' = c
  BY <1>1, <1>4, <1>6
<1>10. LedgerInv' /\ RolledInv'
  BY <1>2, <1>3, <1>8, <1>9, BookStepKeeps
<1>11. PvTypes' /\ OnceInv'
  BY <1>1, <1>2, <1>3 DEF PvTypes, OnceInv
<1>12. BothIsALoss'
  <2>1. lastBar'.reason = a.reason /\ (lastBar'.both <=> BothTouched(book, mid, low, high))
    BY <1>1, <1>4, <1>6, Zenon
  <2>2. BothTouched(book, mid, low, high) => a.reason # "take_profit"
    BY <1>3, <1>4, <1>6, BarIsScored DEF LedgerInv
  <2> QED BY <2>1, <2>2, Zenon DEF BothIsALoss
<1>13. NeverUnderStopOut
  BY <1>3, <1>7, <1>8, <1>9, SettledIsHealthy DEF NeverUnderStopOut
<1> QED BY <1>10, <1>11, <1>12, <1>13

\* A step that leaves the price and the date alone owes no margin check.
LEMMA NoNewPrice == mid' = mid /\ date' = date => NeverUnderStopOut
  BY DEF NeverUnderStopOut

LEMMA FillLotsMeans == ASSUME NEW lots \in Nat \ {0} PROVE FillLots(lots) \in Nat \ {0}
<1>1. PartialOver \in Nat \ {0}
  BY VenueConstants
<1>2. CASE lots > PartialOver
  <2>1. lots * 6 \in Int /\ lots >= 2
    BY <1>1, <1>2
  <2>2. PICK q : q = (lots * 6) \div 10
    OBVIOUS
  <2>3. 10 \in Nat \ {0}
    OBVIOUS
  <2>4. q \in Int /\ 10 * q =< lots * 6 /\ lots * 6 < 10 * q + 10
    BY <2>1, <2>2, <2>3, Quotient
  <2>5. q \in Nat \ {0}
    BY <2>1, <2>4
  <2> QED BY <1>2, <2>2, <2>5 DEF FillLots
<1>3. CASE ~ (lots > PartialOver)
  BY <1>3 DEF FillLots
<1> QED BY <1>2, <1>3

\* The commission leaves the balance before the fill finds its place for it.
Charging(b, fee) == [b EXCEPT !.balance = @ - fee]

LEMMA ChargingMeans ==
    ASSUME NEW b, BookShape(b), Gap(b) = 0, NEW fee \in Int
    PROVE  BookShape(Charging(b, fee)) /\ Gap(Charging(b, fee)) = -fee /\ Charging(b, fee).pos = b.pos
<1>1. /\ b \in Ledgers /\ b.balance \in Int /\ b.closed \in Int /\ b.reset \in Int
      /\ b.pos.fee \in Int /\ b.pos.financing \in Int /\ StartBalance \in Int
  BY BookFields, VenueConstants DEF BookShape
<1>2. PICK m \in Int : m = b.balance - fee
  BY <1>1
<1> DEFINE a == Charging(b, fee)
<1>3. a = [b EXCEPT !.balance = m]
  BY <1>2 DEF Charging
<1> HIDE DEF a
<1>4. a \in Ledgers /\ a.pos = b.pos /\ a.balance = m /\ a.closed = b.closed /\ a.reset = b.reset
  BY <1>1, <1>3 DEF Ledgers
<1>5. BookShape(a)
  BY <1>4 DEF BookShape, Held
<1>6. PICK f \in Int, g \in Int : f = b.pos.fee /\ g = b.pos.financing
  BY <1>1
<1>7. b.balance - (StartBalance + b.closed + b.reset - f + g) = 0
  BY <1>6, Zenon DEF Gap
<1>8. m - (StartBalance + b.closed + b.reset - f + g) = -fee
  BY <1>1, <1>2, <1>7
<1>9. Gap(a) = m - (StartBalance + b.closed + b.reset - f + g)
  BY <1>4, <1>6, Zenon DEF Gap
<1> QED BY <1>4, <1>5, <1>8, <1>9 DEF a


\* An order changes state; only one that was never seen is executed.
LEMMA OrderMoves ==
    ASSUME PvInv, NEW o \in PvOrders, NEW s \in VenueStates, s # "none",
           orders' = [orders EXCEPT ![o] = s],
           \/ executions' = executions
           \/ orders[o] = "none" /\ executions' = [executions EXCEPT ![o] = @ + 1],
           mid' = mid, date' = date
    PROVE  PvTypes' /\ OnceInv'
<1> USE DEF PvInv
<1>1. CASE executions' = executions
  BY <1>1 DEF PvTypes, OnceInv
<1>2. CASE orders[o] = "none" /\ executions' = [executions EXCEPT ![o] = @ + 1]
  BY <1>2 DEF PvTypes, OnceInv
<1> QED BY <1>1, <1>2

LEMMA PlacesMean ==
    ASSUME PvInv, NEW side \in {-1, 1}, NEW slip \in Slips
    PROVE  /\ PriceFor(side, mid) + slip * side \in Int
           /\ mid - side * Barrier \in Int /\ mid + side * Barrier \in Int
<1>1. mid \in Nat /\ slip \in Int /\ Barrier \in Nat /\ HalfSpread \in Nat
  BY VenueConstants DEF PvInv, PvTypes
<1> QED BY <1>1 DEF PriceFor

LEMMA SubmitKeeps == ASSUME PvInv, Submit PROVE PvInv' /\ NeverUnderStopOut
<1> USE DEF PvInv
<1>1. PICK o \in PvOrders, side \in {-1, 1}, lots \in Sizes, slip \in Slips, state \in {"FILLED", "UNKNOWN"} :
        Sendable(o) /\ Complete(o, side, lots, slip, state)
  BY Zenon DEF Submit
<1>2. lastBar' = NoBar /\ mid' = mid /\ date' = date /\ rolledTo' = rolledTo
  BY DEF Submit
<1>3. orders[o] = "none" /\ mid > 0 /\ rolledTo = date
  BY <1>1 DEF Sendable, Seen, RolledInv
<1>4. PICK n \in Nat \ {0} : n = FillLots(lots)
  BY VenueConstants, FillLotsMeans
<1>5. PICK fee \in Int : fee = LotFee * n
  BY VenueConstants
<1>6. PICK paid \in Int : paid = PriceFor(side, mid) + slip * side
  BY PlacesMean
<1>7. PICK stop \in Int, target \in Int : stop = mid - side * Barrier /\ target = mid + side * Barrier
  BY PlacesMean
<1>8. PICK b : b = Charging(book, fee)
  OBVIOUS
<1>9. BookShape(b) /\ Gap(b) = -fee /\ Paid(b, date)
  BY <1>3, <1>8, ChargingMeans, PaidConcernsPosition DEF LedgerInv
<1>10. PICK a : a = ApplyFill(b, side, n, paid, lots, stop, target, fee)
  OBVIOUS
<1>11. Filled(b, fee, a)
  BY <1>9, <1>10, FillKeeps DEF PvTypes
<1>12. BookShape(a) /\ Gap(a) = 0 /\ Paid(a, rolledTo)
  <2>1. -fee + fee = 0
    OBVIOUS
  <2> QED BY <1>3, <1>9, <1>11, <2>1 DEF Filled
<1>13. book' = Settled(a)
  BY <1>1, <1>4, <1>5, <1>6, <1>7, <1>8, <1>10, Zenon DEF Complete, Charging
<1>14. LedgerInv' /\ RolledInv'
  BY <1>2, <1>3, <1>12, <1>13, BookStepKeeps DEF PvTypes
<1>15. PvTypes' /\ OnceInv'
  <2>1. PICK s : s = (IF state = "UNKNOWN" THEN state ELSE IF n < lots THEN "PARTIAL" ELSE "FILLED")
    OBVIOUS
  <2>2. s \in VenueStates /\ s # "none"
    BY <2>1 DEF VenueStates
  <2>3. /\ orders' = [orders EXCEPT ![o] = s]
        /\ executions' = [executions EXCEPT ![o] = @ + 1]
    BY <1>1, <1>4, <2>1, Zenon DEF Complete
  <2> QED BY <1>2, <1>3, <2>2, <2>3, OrderMoves
<1> QED BY <1>2, <1>14, <1>15, NoBarIsScored, NoNewPrice

\* Steps that only move an order.
LEMMA RestingBookKeeps ==
    ASSUME PvInv, book' = book, mid' = mid, date' = date, rolledTo' = rolledTo
    PROVE  LedgerInv' /\ RolledInv' /\ NeverUnderStopOut
  BY NoNewPrice DEF PvInv, LedgerInv, RolledInv

LEMMA OrderStepsKeep == ASSUME PvInv, LastLook \/ QueryOrder \/ Cancel PROVE PvInv' /\ NeverUnderStopOut
<1>1. PICK o \in PvOrders, s \in VenueStates \ {"none"} :
        orders' = [orders EXCEPT ![o] = s] /\ executions' = executions
  BY DEF LastLook, QueryOrder, Cancel, VenueStates
<1>2. lastBar' = NoBar /\ book' = book /\ mid' = mid /\ date' = date /\ rolledTo' = rolledTo
  BY DEF LastLook, QueryOrder, Cancel
<1>3. PvTypes' /\ OnceInv'
  BY <1>1, <1>2, OrderMoves
<1> QED BY <1>2, <1>3, RestingBookKeeps, NoBarIsScored DEF PvInv

LEMMA ClosePositionKeeps == ASSUME PvInv, ClosePosition PROVE PvInv' /\ NeverUnderStopOut
<1> USE DEF PvInv
<1>1. PICK lots \in Sizes, slip \in Slips :
        book' = Settled(Realise(book, PriceFor(-book.pos.side, mid) - slip * book.pos.side,
                                IF lots < book.pos.lots THEN lots ELSE book.pos.lots, "manual", 0))
  BY Zenon DEF ClosePosition
<1>2. /\ Held(book) /\ mid > 0 /\ lastBar' = NoBar /\ mid' = mid /\ date' = date
      /\ rolledTo' = rolledTo /\ orders' = orders /\ executions' = executions
  BY DEF ClosePosition
<1>3. BookShape(book) /\ Gap(book) = 0 /\ Paid(book, rolledTo) /\ mid \in Int /\ slip \in Int /\ rolledTo = date
  BY <1>2, VenueConstants DEF LedgerInv, PvTypes, RolledInv
<1>4. PICK n \in 1..book.pos.lots : n = (IF lots < book.pos.lots THEN lots ELSE book.pos.lots)
  <2>1. book.pos.lots \in Nat \ {0} /\ lots \in Nat \ {0}
    BY <1>2, <1>3, BookFields, VenueConstants DEF Held
  <2> QED BY <2>1
<1>5. PICK paid \in Int : paid = PriceFor(-book.pos.side, mid) - slip * book.pos.side
  BY <1>3, ExitPrices
<1>6. PICK a : a = Realise(book, paid, n, "manual", 0)
  OBVIOUS
<1>7. Realised(book, n, "manual", 0, a)
  <2>1. 0 \in Int /\ "manual" \in Reasons
    BY DEF Reasons
  <2> QED BY <1>3, <1>4, <1>5, <1>6, <2>1, RealiseKeeps, Zenon
<1>8. BookShape(a) /\ Gap(a) = 0 /\ Paid(a, rolledTo)
  <2>1. BookShape(a) /\ Gap(a) = Gap(book) + 0 /\ a.pos = Emptied(Consumed(book.pos, n))
    BY <1>7 DEF Realised
  <2>2. rolledTo \in Int /\ rolledTo =< Len(DayMultiples)
    BY <1>3 DEF PvTypes
  <2>3. Paid(a, rolledTo)
    BY <1>3, <1>4, <2>1, <2>2, CloseLeavesPaid
  <2> QED BY <1>3, <2>1, <2>3
<1>9. book' = Settled(a)
  BY <1>1, <1>4, <1>5, <1>6, Zenon
<1>10. LedgerInv' /\ RolledInv'
  BY <1>2, <1>3, <1>8, <1>9, BookStepKeeps DEF PvTypes
<1>11. PvTypes' /\ OnceInv'
  BY <1>2 DEF PvTypes, OnceInv
<1> QED BY <1>2, <1>10, <1>11, NoBarIsScored, NoNewPrice

\* A stop that moves: nothing else of the position does.
WithStop(b, stop) == [b EXCEPT !.pos.stop = stop]

LEMMA WithStopMeans ==
    ASSUME NEW b, BookShape(b), NEW stop \in Int
    PROVE  /\ BookShape(WithStop(b, stop)) /\ Gap(WithStop(b, stop)) = Gap(b)
           /\ \A r : Paid(b, r) => Paid(WithStop(b, stop), r)
           /\ Held(WithStop(b, stop)) <=> Held(b)
<1>1. PICK q : q = [b.pos EXCEPT !.stop = stop]
  OBVIOUS
<1>2. b \in Ledgers /\ b.pos \in VenuePositions
  BY BookFields DEF BookShape
<1>3. /\ q \in VenuePositions /\ q.lots = b.pos.lots /\ q.risk = b.pos.risk /\ q.fee = b.pos.fee
      /\ q.financing = b.pos.financing /\ q.since = b.pos.since
  BY <1>1, <1>2 DEF VenuePositions
<1> DEFINE a == WithStop(b, stop)
<1>4. a = [b EXCEPT !.pos = q]
  BY <1>1, Zenon DEF WithStop
<1> HIDE DEF a
<1>5. a \in Ledgers /\ a.pos = q /\ a.balance = b.balance /\ a.closed = b.closed /\ a.reset = b.reset
  BY <1>2, <1>3, <1>4 DEF Ledgers
<1>6. BookShape(a)
  BY <1>3, <1>5 DEF BookShape, Held
<1>7. Gap(a) = Gap(b)
  BY <1>3, <1>5, Zenon DEF Gap
<1>8. Held(a) <=> Held(b)
  BY <1>3, <1>5, Zenon DEF Held
<1>9. \A r : Paid(b, r) => Paid(a, r)
  BY <1>3, <1>5, <1>8, Zenon DEF Paid
<1> QED BY <1>6, <1>7, <1>8, <1>9 DEF a

LEMMA ModifyKeeps == ASSUME PvInv, ModifyPosition PROVE PvInv' /\ NeverUnderStopOut
<1> USE DEF PvInv
<1>1. PICK stop \in NewStops : book' = WithStop(book, stop)
  BY Zenon DEF ModifyPosition, WithStop
<1>2. /\ lastBar' = NoBar /\ mid' = mid /\ date' = date
      /\ rolledTo' = rolledTo /\ orders' = orders /\ executions' = executions
  BY DEF ModifyPosition
<1>3. BookShape(book') /\ Gap(book') = 0 /\ Paid(book', rolledTo) /\ (Held(book') <=> Held(book))
  BY <1>1, VenueConstants, WithStopMeans DEF LedgerInv
<1>4. LedgerInv' /\ RolledInv'
  BY <1>2, <1>3 DEF LedgerInv, RolledInv
<1>5. PvTypes' /\ OnceInv'
  BY <1>2 DEF PvTypes, OnceInv
<1> QED BY <1>2, <1>4, <1>5, NoBarIsScored, NoNewPrice

LEMMA PvInductive == PvInv /\ [PvNext]_pvVars => PvInv' /\ NeverUnderStopOut
<1> SUFFICES ASSUME PvInv, [PvNext]_pvVars PROVE PvInv' /\ NeverUnderStopOut
  OBVIOUS
<1>1. CASE UNCHANGED pvVars
  <2>1. /\ book' = book /\ mid' = mid /\ date' = date /\ rolledTo' = rolledTo
        /\ orders' = orders /\ executions' = executions /\ lastBar' = lastBar
    BY <1>1 DEF pvVars
  <2>2. PvTypes' /\ OnceInv'
    BY <2>1 DEF PvInv, PvTypes, OnceInv
  <2>3. BothIsALoss'
    BY <2>1, Zenon DEF PvInv, BothIsALoss
  <2> QED BY <2>1, <2>2, <2>3, RestingBookKeeps DEF PvInv
<1> QED BY <1>1, QuoteKeeps, BarKeeps, SubmitKeeps, OrderStepsKeep, ClosePositionKeeps, ModifyKeeps DEF PvNext

LEMMA VenueIsHonest ==
    PvInv => /\ FinancingIsExact /\ BooksBalance /\ RiskOfHeldLots /\ BothIsALoss /\ VenueExecutesOnce
  BY FinancingIsCharged, BookIsInOrder DEF PvInv, OnceInv, VenueExecutesOnce


-----------------------------------------------------------------------------
(* The harness: until a bar's signals are filled nothing of the bar is     *)
(* replayed, and what waits is of the bar before.                          *)

BtStages == {"open", "fill", "replay", "roll", "exits", "signals"}

BtTypes ==
    /\ bar \in Nat \ {0} /\ stage \in BtStages /\ replayedTo \in Nat
    /\ openSince \in SUBSET Nat /\ raised \in SUBSET Nat

UnseenInv ==
    /\ replayedTo =< bar
    /\ stage \in {"open", "fill"} => replayedTo < bar /\ raised \subseteq {bar - 1}
    /\ stage \notin {"open", "fill"} => raised = {}

BtInv == BtTypes /\ UnseenInv /\ NoLookAhead /\ HeldWithinHorizon

LEMMA BtInitially == BtInit => BtInv
<1> SUFFICES ASSUME BtInit PROVE BtInv
  OBVIOUS
<1>1. BtTypes /\ UnseenInv
  BY DEF BtInit, BtTypes, BtStages, UnseenInv
<1>2. NoLookAhead /\ HeldWithinHorizon
  BY DEF BtInit, NoLookAhead, HeldWithinHorizon
<1> QED BY <1>1, <1>2 DEF BtInv

LEMMA FillSignalsKeeps == ASSUME BtInv, FillSignals PROVE BtInv'
<1> USE DEF BtInv, BtTypes, BtStages, UnseenInv
<1>1. /\ stage = "fill" /\ stage' = "replay" /\ openSince' = {bar} /\ raised' = {}
      /\ bar' = bar /\ replayedTo' = replayedTo
  BY DEF FillSignals, To, StageAfter
<1>2. PICK r \in raised : fills' = fills \cup {[raised |-> r, at |-> bar, known |-> replayedTo]}
  BY DEF FillSignals
<1>3. BtTypes' /\ UnseenInv'
  BY <1>1
<1>4. r = bar - 1 /\ bar \in Nat \ {0} /\ replayedTo \in Nat /\ replayedTo < bar
  BY <1>1, <1>2
<1>5. bar = r + 1 /\ replayedTo < bar
  BY <1>4
<1>6. NoLookAhead'
  BY <1>2, <1>5 DEF NoLookAhead
<1>7. HeldWithinHorizon'
  BY <1>1 DEF HeldWithinHorizon
<1> QED BY <1>3, <1>6, <1>7

LEMMA ExitsAreInTime == ASSUME BtInv, HarnessExits PROVE BtInv'
<1> USE DEF BtInv, BtTypes, BtStages, UnseenInv
<1>1. /\ stage = "exits" /\ stage' = "signals" /\ bar' = bar /\ replayedTo' = replayedTo
      /\ raised' = raised /\ fills' = fills
  BY DEF HarnessExits, To, StageAfter
<1>2. HoldFor \in Nat /\ Warmup \in Nat
  BY BacktestAssumption
<1>3. openSince' = {} \/ (openSince' = openSince /\ ~ (bar > Warmup /\ \E s \in openSince : Expired(s)))
  BY DEF HarnessExits
<1>4. BtTypes' /\ UnseenInv'
  BY <1>1, <1>3
<1>5. HeldWithinHorizon'
  <2> SUFFICES ASSUME NEW s \in openSince', bar > Warmup PROVE bar + 1 - s < HoldFor
    BY <1>1 DEF HeldWithinHorizon
  <2>1. s \in openSince /\ ~Expired(s)
    BY <1>3
  <2> QED BY <1>2, <2>1 DEF Expired
<1>6. NoLookAhead'
  BY <1>1 DEF NoLookAhead
<1> QED BY <1>4, <1>5, <1>6

LEMMA BtInductive == BtInv /\ [BtNext]_btVars => BtInv'
<1> SUFFICES ASSUME BtInv, [BtNext]_btVars PROVE BtInv'
  OBVIOUS
<1> USE DEF BtInv, BtTypes, BtStages, UnseenInv, NoLookAhead, HeldWithinHorizon
<1>1. CASE MarkOpen
  BY <1>1 DEF MarkOpen, To, StageAfter
<1>2. CASE DropSignals
  BY <1>2 DEF DropSignals, To, StageAfter
<1>3. CASE ReplayBar
  <2>1. /\ stage = "replay" /\ stage' = "roll" /\ bar' = bar /\ raised' = raised /\ fills' = fills
        /\ replayedTo' \in {bar, replayedTo} /\ openSince' \in {openSince, {}}
    BY <1>3 DEF ReplayBar, To, StageAfter
  <2> QED BY <2>1
<1>4. CASE RollDay
  BY <1>4 DEF RollDay, To, StageAfter
<1>5. CASE Generate
  <2>1. /\ stage = "signals" /\ stage' = "open" /\ bar' = bar + 1 /\ raised' \subseteq {bar}
        /\ replayedTo' = replayedTo /\ openSince' = openSince /\ fills' = fills
    BY <1>5 DEF Generate, To, StageAfter
  <2> QED BY <2>1
<1>6. CASE UNCHANGED btVars
  BY <1>6 DEF btVars
<1> QED BY <1>1, <1>2, <1>3, <1>4, <1>5, <1>6, FillSignalsKeeps, ExitsAreInTime DEF BtNext

\* A backtest can be believed: the simulated venue's books balance to the unit,
\* an id is executed at most once, the risk on record is that of the lots held,
\* every value date is charged exactly, a bar that reaches both barriers is a
\* loss and no position survives a price at the stop-out level; and a signal is
\* filled at the next bar's open, before anything of that bar is known
\* (brokers/paper.py, run_backtest).
THEOREM SimulationStaysHonest == MCMarketSpec => SimulationIsHonest
<1> DEFINE Inv == PvInv /\ BtInv
           Honest == /\ NeverUnderStopOut /\ FinancingIsExact' /\ BooksBalance'
                     /\ RiskOfHeldLots' /\ BothIsALoss' /\ VenueExecutesOnce'
                     /\ NoLookAhead' /\ HeldWithinHorizon'
<1>0. PvInv' => (/\ FinancingIsExact /\ BooksBalance /\ RiskOfHeldLots /\ BothIsALoss /\ VenueExecutesOnce)'
  BY VenueIsHonest, PTL
<1>1. MCMarketInit => Inv
  BY PvInitially, BtInitially DEF MCMarketInit
<1>2. Inv /\ [MCMarketNext]_allVars => Inv' /\ Honest
  <2> SUFFICES ASSUME Inv, [MCMarketNext]_allVars PROVE Inv' /\ Honest
    OBVIOUS
  <2>1. [PvNext]_pvVars /\ [BtNext]_btVars
    BY MarketSteps
  <2>2. PvInv' /\ NeverUnderStopOut
    BY <2>1, PvInductive
  <2>3. BtInv'
    BY <2>1, BtInductive
  <2>4. (/\ FinancingIsExact /\ BooksBalance /\ RiskOfHeldLots /\ BothIsALoss /\ VenueExecutesOnce)'
    BY <2>2, <1>0, Zenon
  <2>5. (NoLookAhead /\ HeldWithinHorizon)'
    BY <2>3 DEF BtInv
  <2> QED BY <2>2, <2>3, <2>4, <2>5
<1>3. Inv /\ Inv' /\ Honest => 
        [/\ subject = "paper" =>
                /\ NeverUnderStopOut /\ FinancingIsExact' /\ BooksBalance'
                /\ RiskOfHeldLots' /\ BothIsALoss' /\ VenueExecutesOnce'
         /\ subject = "backtest" => NoLookAhead' /\ HeldWithinHorizon']_<<pvVars, btVars>>
  BY Zenon
<1> HIDE DEF Inv, Honest
<1> QED BY <1>1, <1>2, <1>3, PTL DEF MCMarketSpec, SimulationIsHonest

==============================================================================
