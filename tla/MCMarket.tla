------------------------------- MODULE MCMarket ------------------------------
(***************************************************************************)
(* What a decision to trade is made of: prices, news, risk, the position,  *)
(* and the simulated venue. Each component is explored by itself on a      *)
(* small instance: the variable subject says which one a behaviour is      *)
(* about, and the others rest. They share no state, so one state graph     *)
(* holds them side by side.                                                *)
(***************************************************************************)
EXTENDS RiskBudget, RiskGate, GroupRisk, PositionCare, PaperVenue, Backtest,
        BarFeed, ReferenceStream, LinkHealth, NewsDesk, Surprise

VARIABLE subject   \* the component this behaviour is about

MCLadder == <<4>>

MCBase ==
    [i \in Pairs |-> CASE i = "EURUSD" -> "EUR" [] i = "GBPUSD" -> "GBP" [] OTHER -> "USD"]

MCQuote == [i \in Pairs |-> IF i = "USDCHF" THEN "CHF" ELSE "USD"]

\* USDCHF gaps six times as far as the others.
MCGapLoss == [i \in Pairs |-> IF i = "USDCHF" THEN 12 ELSE 2]

MCCorrelated == {{"EURUSD", "GBPUSD"}, {"EURUSD", "USDCHF"}}

\* What else is wrong when a candidate is judged.
MCContexts ==
    {{}, {"max_drawdown", "no_price"}, {"kill_switch", "no_stop"}, {"stale_data"}}

\* Quotes are explored up to this instant.
QuotesUntil == 6

\* The second rollover is the triple one.
MCMultiples == <<1, 3>>

\* The day each bar belongs to.
MCBarDay == <<1, 1, 1, 2, 2, 2, 3, 3>>

\* Two releases of one title.
MCTitles == [o \in {"o1", "o2"} |-> "speech"]

Subjects ==
    {"budget", "gate", "group", "care", "paper", "backtest", "bars",
     "quotes", "stream", "price", "link", "calendar", "press", "surprise"}

\* The components that a behaviour is not about stay in one initial state.
MCMarketInit ==
    /\ subject \in Subjects
    /\ RbInit /\ RgInit /\ GrInit /\ PcInit /\ PvInit
    /\ BtInit /\ FdInit /\ RsInit /\ LhInit /\ NdInit
    /\ SuInit
    /\ subject = "budget" \/ acct = [eq |-> 100, bal |-> 100]
    /\ subject = "surprise" \/ planned = [e \in Releases |-> 1]

\* Everything of every component.
allVars ==
    <<subject, rbVars, rgVars, grVars, pcVars, pvVars, btVars,
      fdVars, rsVars, lhVars, ndVars, suVars>>

\* A step of one component leaves the others alone.
About(s) == subject = s /\ UNCHANGED subject

ButRiskBudget ==
    UNCHANGED <<rgVars, grVars, pcVars, pvVars, btVars, fdVars,
                rsVars, lhVars, ndVars, suVars>>

ButRiskGate ==
    UNCHANGED <<rbVars, grVars, pcVars, pvVars, btVars, fdVars,
                rsVars, lhVars, ndVars, suVars>>

ButGroupRisk ==
    UNCHANGED <<rbVars, rgVars, pcVars, pvVars, btVars, fdVars,
                rsVars, lhVars, ndVars, suVars>>

ButPositionCare ==
    UNCHANGED <<rbVars, rgVars, grVars, pvVars, btVars, fdVars,
                rsVars, lhVars, ndVars, suVars>>

ButPaperVenue ==
    UNCHANGED <<rbVars, rgVars, grVars, pcVars, btVars, fdVars,
                rsVars, lhVars, ndVars, suVars>>

ButBacktest ==
    UNCHANGED <<rbVars, rgVars, grVars, pcVars, pvVars, fdVars,
                rsVars, lhVars, ndVars, suVars>>

ButBarFeed ==
    UNCHANGED <<rbVars, rgVars, grVars, pcVars, pvVars, btVars,
                rsVars, lhVars, ndVars, suVars>>

ButReferenceStream ==
    UNCHANGED <<rbVars, rgVars, grVars, pcVars, pvVars, btVars,
                fdVars, lhVars, ndVars, suVars>>

ButLinkHealth ==
    UNCHANGED <<rbVars, rgVars, grVars, pcVars, pvVars, btVars,
                fdVars, rsVars, ndVars, suVars>>

ButNewsDesk ==
    UNCHANGED <<rbVars, rgVars, grVars, pcVars, pvVars, btVars,
                fdVars, rsVars, lhVars, suVars>>

ButSurprise ==
    UNCHANGED <<rbVars, rgVars, grVars, pcVars, pvVars, btVars,
                fdVars, rsVars, lhVars, ndVars>>

MCMarketNext ==
    \/ About("budget") /\ RbNext /\ ButRiskBudget
    \/ About("gate") /\ RgNext /\ ButRiskGate
    \/ About("group") /\ GrNext /\ ButGroupRisk
    \/ About("care") /\ PcNext /\ ButPositionCare
    \/ About("paper") /\ PvNext /\ ButPaperVenue
    \/ About("backtest") /\ BtNext /\ ButBacktest
    \/ About("bars") /\ BarsNext /\ ButBarFeed
    \/ About("quotes") /\ FdNext /\ clock' =< QuotesUntil /\ ButBarFeed
    \/ About("stream") /\ WorkNext /\ ButReferenceStream
    \/ About("price") /\ RsNext /\ ticking'["api"] = "idle" /\ worker'[2] = "none" /\ ButReferenceStream
    \/ About("link") /\ LhNext /\ ButLinkHealth
    \/ About("calendar") /\ CalendarNext /\ ButNewsDesk
    \/ About("press") /\ PressNext /\ ButNewsDesk
    \/ About("surprise") /\ SuNext /\ ButSurprise

MCMarketSpec == MCMarketInit /\ [][MCMarketNext]_allVars

------------------------------------------------------------------------------
(* Properties, composed of those of the components *)

\* An entry is approved only within its budget and within every ceiling, on
\* the true book and on the owner's accounts together, and nothing that has to
\* halt the agent is hidden by another veto (evaluate_entry, size_position,
\* currency_exposure, gap stress, section 11b with risk/portfolio.py).
ExposureBounded ==
    /\ HaltNeverHidden /\ TrueRiskBounded /\ GapSurvivable
    /\ OneBetOneCeiling /\ RiskWithinBudget
    /\ OnlyARaceExceedsTheGroup

\* What a backtest is trusted for: the simulated venue keeps exact books,
\* executes an id once, charges every value date, counts the worse barrier and
\* closes out in time, and the harness does not see the future
\* (brokers/paper.py, run_backtest).
SimulationIsHonest ==
    [][/\ subject = "paper" =>
            /\ NeverUnderStopOut /\ FinancingIsExact' /\ BooksBalance'
            /\ RiskOfHeldLots' /\ BothIsALoss' /\ VenueExecutesOnce'
       /\ subject = "backtest" => NoLookAhead' /\ HeldWithinHorizon']_<<pvVars, btVars>>

\* No decision rests on data that only looks fresh: bars are neither hidden nor
\* dropped, a frozen price, a silent reference or a stepped clock is noticed,
\* and one worker writes the reference (data/feed.py, data/tradingview.py,
\* ops/health.py, core/clock.py).
PricesAreCurrent ==
    /\ FreshBarNotSuppressed /\ HolesAreTheVenues /\ AGapIsAFact
    /\ NoEntryOnFrozenPrice
    /\ RsTypeOK /\ OneWriter /\ OffIsQuiet /\ AbsenceChangesNothing
    /\ OutageIsMeasured /\ StepStopsEntries /\ StepsBackAreOnRecord

\* News is used as of its time: a confirmed release closes its window, a
\* misread item blocks only briefly, and a surprise knows nothing it could not have
\* known (news/policy.py, news/desk.py, news/calendar.py).
NewsIsTimely ==
    /\ NoEntryNearRelease /\ OneMisreadIsBrief
    /\ ForecastPredatesFigure /\ ScaleIsCausal
==============================================================================
