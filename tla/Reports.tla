------------------------------ MODULE Reports ------------------------------
(***************************************************************************)
(* The reports on the orders: the overview of the analytics, the analytics *)
(* of one store and of all of them, the dashboard of the administration    *)
(* and the one of a seller. A report fixes its periods when it begins and  *)
(* then reads the tables with statements that run side by side and in no   *)
(* transaction, while orders are placed and move on. A figure is the set   *)
(* of the orders it counts or adds up; amounts, percentages, the events of *)
(* the visitors and the short caches of two of the reports are left out.   *)
(* An instant is a number, the least difference of two of them 1 ms.       *)
(* Source: analytics-query.service.ts, store-analytics.service.ts,         *)
(* admin-dashboard.service.ts, business-dashboard.service.ts               *)
(***************************************************************************)
EXTENDS Naturals, Integers, FiniteSets

CONSTANTS Moments,      \* when a report is asked for: day of the calendar, time of the day
          DayLength,    \* instants of a day
          Offset,       \* the server's clock is ahead of UTC by so many instants
          Stores,
          LateOrders,   \* bound: orders placed while a report is read
          ReportManners \* "calm": nothing changes meanwhile; "busy"

ASSUME ReportAssumption ==
    /\ DayLength \in Nat \ {0, 1} /\ Offset \in Nat /\ Offset < DayLength
    /\ Moments \subseteq Nat /\ LateOrders \in Nat /\ Stores # {}
    /\ ReportManners \subseteq {"calm", "busy"}

-----------------------------------------------------------------------------
(* The calendar: the first month is a January, and no year is a leap year. *)

Months == 1 .. 84     \* bound: the years of the calendar
DaysBefore == <<0, 31, 59, 90, 120, 151, 181, 212, 243, 273, 304, 334, 365>>
FirstDay(m) == ((m - 1) \div 12) * 365 + DaysBefore[((m - 1) % 12) + 1]

CalendarDay(t) == (t + Offset) \div DayLength
Midnight(t) == CalendarDay(t) * DayLength - Offset     \* setHours(0, 0, 0, 0)
UtcDay(t) == t \div DayLength                    \* toISOString().slice(0, 10)
\* A report looks back on 60 months at most.
ASSUME MomentAssumption ==
    \A t \in Moments : FirstDay(61) <= CalendarDay(t) /\ CalendarDay(t) < FirstDay(85)
Ever == FirstDay(85) * DayLength                 \* no upper bound

MonthOf(t) == CHOOSE m \in Months :
                 FirstDay(m) <= CalendarDay(t) /\ CalendarDay(t) < FirstDay(m + 1)
Back(t, days) == t - days * DayLength            \* setDate, setHours
\* setMonth keeps the day of the month, and runs over into the next month.
MonthsBack(t, k) ==
    t - DayLength * (FirstDay(MonthOf(t)) - FirstDay(MonthOf(t) - k))
FirstOfMonth(t) == t - DayLength * (CalendarDay(t) - FirstDay(MonthOf(t)))    \* setDate(1)
FirstOfYear(t) == t - DayLength * (CalendarDay(t) - FirstDay(MonthOf(t) - ((MonthOf(t) - 1) % 12)))

-----------------------------------------------------------------------------
(* The periods of a report. *)

Pages == {"overview", "store", "platform", "admin", "business"}
PeriodsOf(p) == CASE p = "admin" -> {"day", "week", "month", "year"}
                  [] p = "business" -> {"day"}
                  [] OTHER -> {"day", "week", "month"}

\* Mutant: both periods have the instant between them.
SpanTouching(t, now) ==
    LET start == CASE t = "day" -> Back(now, 1) [] t = "week" -> Back(now, 7)
                   [] OTHER -> MonthsBack(now, 1)
    IN [start |-> start, end |-> now, prevEnd |-> start,
        prevStart |-> start - (now - start)]

\* buildRange of the analytics, and of the stores.
Span(t, now) ==
    LET start == CASE t = "day" -> Back(now, 1) [] t = "week" -> Back(now, 7)
                   [] OTHER -> MonthsBack(now, 1)
    IN [start |-> start, end |-> now, prevEnd |-> start - 1,
        prevStart |-> start - 1 - (now - start)]

\* Mutant: the previous weeks end a week earlier.
AdminSpanLate(t, now) ==
    CASE t = "day" -> [start |-> Back(now, 29), end |-> now, prevEnd |-> Back(now, 30),
                            prevStart |-> Back(now, 59)]
      [] OTHER -> [start |-> Back(now, 77), end |-> now, prevEnd |-> Back(now, 70),
                   prevStart |-> Back(now, 84)]
\* buildRange of the dashboard: the last 30 days, 12 weeks, 12 months or 5 years, before
\* which it puts 30 days, one week, the month before or the year before.
AdminSpan(t, now) ==
    LET start == CASE t = "day" -> Back(now, 29) [] t = "week" -> Back(now, 77)
                   [] t = "year" -> FirstOfYear(MonthsBack(now, 48))
                   [] OTHER -> FirstOfMonth(MonthsBack(now, 11))
    IN [start |-> start, end |-> now,
        prevEnd |-> IF t = "day" THEN Back(now, 30) ELSE start,
        prevStart |-> CASE t = "day" -> Back(now, 59) [] t = "week" -> Back(now, 84)
                        [] t = "year" -> MonthsBack(now, 60)
                        [] OTHER -> MonthsBack(now, 12)]

\* getDashboard of a seller: this month and the one before; its day is today.
SellerSpan(now) ==
    [start |-> FirstDay(MonthOf(now)) * DayLength - Offset, end |-> now,
     prevEnd |-> FirstDay(MonthOf(now)) * DayLength - Offset - 1,
     prevStart |-> FirstDay(MonthOf(now) - 1) * DayLength - Offset]

SpanOf(p, t, now) ==
    CASE p = "admin" -> AdminSpan(t, now) [] p = "business" -> SellerSpan(now)
      [] OTHER -> Span(t, now)

-----------------------------------------------------------------------------
(* Orders. *)

VARIABLES
    reportManner, \* chosen at the start
    report,       \* the report asked for
    period,
    asOf,         \* new Date() of the report
    range,        \* its periods
    placed,       \* the orders
    figures,      \* what the report has read: a figure is a set of orders
    changed       \* history: an order was placed or moved on since the report began

reportVars == <<reportManner, report, period, asOf, range, placed, figures, changed>>

OrderIds == 1 .. LateOrders + 1
NoOrderYet == [at |-> 0, status |-> "none", scheduled |-> FALSE, of |-> {}, via |-> {}]
Unread == {0}

\* An order has products of some stores, and may have come through the page of one.
OneStore == CHOOSE s \in Stores : TRUE
Belongings == {<<{OneStore}, {}>>, <<{}, {OneStore}>>, <<{OneStore}, {OneStore}>>,
               <<Stores, {}>>, <<Stores \ {OneStore}, {OneStore}>>, <<{}, {}>>}

ByStore(s) == {o \in OrderIds : s \in placed[o].of \/ s \in placed[o].via}  \* orderScopeForStore
InStatus(set) == {o \in OrderIds : placed[o].status \in set}
Uncancelled == InStatus({"NEW", "DELIVERED"})
Within(from, to) == {o \in OrderIds : placed[o].at \in from .. to}

-----------------------------------------------------------------------------
(* The figures. *)

FiguresOf(p) ==
    CASE p = "overview" -> {"orders", "previous", "scheduled", "instant", "series", "staff"}
      [] p = "store" -> {"orders", "previous", "delivered", "revenue", "series"}
      [] p = "platform" -> Stores
      [] p = "admin" -> {"orders", "previous", "statuses", "series", "top", "topBefore",
                         "todayOrders", "todayRevenue"}
      [] p = "business" -> {"orders", "previous", "today", "revenue", "series"}

\* No store is called like a figure.
ASSUME StoreAssumption == \A p \in Pages \ {"platform"} : Stores \cap FiguresOf(p) = {}

\* buildFunnelSeries: 24 hours, 7 or 30 days that end before the end.
FunnelSpan == DayLength * (CASE period = "day" -> 1 [] period = "week" -> 7 [] OTHER -> 30)
Funnel(r) == Uncancelled \cap Within(r.end - FunnelSpan, r.end - 1)

\* buildOrderDailySeries: a bucket per day, named by its date in UTC.
DailyKeys(first, last) == {UtcDay(Back(last, i)) : i \in 0 .. CalendarDay(last) - CalendarDay(first)}
\* Mutant: the first day has no bucket.
DailyShort(r) ==
    {o \in Uncancelled \cap Within(r.start, r.end) :
        UtcDay(placed[o].at) \in DailyKeys(Midnight(r.start) + DayLength, Midnight(r.end))}
Daily(r) ==
    {o \in Uncancelled \cap Within(r.start, r.end) :
        UtcDay(placed[o].at) \in DailyKeys(Midnight(r.start), Midnight(r.end))}

\* buildDailySeries of a seller: seven days, the last of them today.
SellerDaily(now) ==
    {o \in Uncancelled \cap Within(Back(Midnight(now), 6), Midnight(now) + DayLength) :
        UtcDay(placed[o].at) \in DailyKeys(Back(Midnight(now), 6), Midnight(now))}

OverviewFigure(f, r) ==
    LET orders == Uncancelled \cap Within(r.start, r.end)
    IN CASE f = "orders" -> orders
         [] f = "previous" -> Uncancelled \cap Within(r.prevStart, r.prevEnd)
         [] f = "scheduled" -> {o \in orders : placed[o].scheduled}
         [] f = "instant" -> {o \in orders : ~placed[o].scheduled}
         [] f = "staff" -> InStatus({"DELIVERED"}) \cap Within(r.start, r.end)
         [] f = "series" -> Funnel(r)

\* Mutant: deliveries are counted to the moment they are read.
StoreFigureOpen(f, r, s) ==
    ByStore(s) \cap
    CASE f = "orders" -> Uncancelled \cap Within(r.start, r.end)
      [] f = "previous" -> Uncancelled \cap Within(r.prevStart, r.prevEnd)
      [] f = "series" -> Daily(r)
      [] OTHER -> InStatus({"DELIVERED"}) \cap Within(r.start, Ever)

\* Of one store, or of each of them.
StoreFigure(f, r, s) ==
    ByStore(s) \cap
    CASE f = "orders" -> Uncancelled \cap Within(r.start, r.end)
      [] f = "previous" -> Uncancelled \cap Within(r.prevStart, r.prevEnd)
      [] f = "series" -> Daily(r)
      [] OTHER -> InStatus({"DELIVERED"}) \cap Within(r.start, r.end)

AdminFigure(f, r) ==
    CASE f = "orders" -> Uncancelled \cap Within(r.start, r.end)
      [] f = "previous" -> Uncancelled \cap Within(r.prevStart, r.prevEnd)
      [] f = "series" -> Uncancelled \cap Within(r.start, r.end)
      [] f = "topBefore" -> InStatus({"DELIVERED"}) \cap Within(r.prevStart, r.prevEnd - 1)
      [] f \in {"statuses", "top"} -> InStatus({"DELIVERED"}) \cap Within(r.start, r.end)
      [] f = "todayOrders" -> Uncancelled \cap Within(Midnight(r.end), r.end)
      [] f = "todayRevenue" -> Uncancelled \cap Within(Midnight(r.end), Ever)

\* Of a seller, who is the first store: nothing that is counted has an upper bound.
SellerFigure(f, r) ==
    {o \in OrderIds : OneStore \in placed[o].of} \cap
    CASE f = "orders" -> Uncancelled \cap Within(r.start, Ever)
      [] f = "previous" -> Uncancelled \cap Within(r.prevStart, r.prevEnd)
      [] f = "today" -> Uncancelled \cap Within(Midnight(r.end), Ever)
      [] f = "revenue" -> InStatus({"DELIVERED"}) \cap Within(Midnight(r.end), Ever)
      [] f = "series" -> SellerDaily(r.end)

Figure(f) ==
    LET r == range
    IN CASE report = "overview" -> OverviewFigure(f, r)
         [] report = "store" -> StoreFigure(f, r, OneStore)
         [] report = "platform" -> StoreFigure("orders", r, f)
         [] report = "admin" -> AdminFigure(f, r)
         [] report = "business" -> SellerFigure(f, r)

-----------------------------------------------------------------------------
(* Steps. *)

\* Instants at which a comparison may go wrong.
Edges(r) ==
    {r.end - 1, r.end} \cup
    UNION {{t - 1, t, t + 1} : t \in {r.start, r.prevStart, r.prevEnd, Midnight(r.start),
                                      Midnight(r.end), Back(r.end, 1)}}

OrderTypes == {"NEW", "DELIVERED", "CANCELLED"}

ReportInit ==
    /\ reportManner \in ReportManners /\ report \in Pages /\ period \in PeriodsOf(report)
    /\ asOf \in Moments /\ range = SpanOf(report, period, asOf)
    /\ LET r == range IN
       \E t \in IF reportManner = "calm" THEN Edges(r) ELSE {r.end - 1, r.start},
          s \in IF reportManner = "calm" THEN OrderTypes ELSE {"NEW"},
          b \in Belongings, z \in BOOLEAN :
           /\ t >= 0 /\ t <= asOf
           /\ report \notin {"store", "platform", "business"} => b = <<{}, {}>>
           /\ report # "overview" \/ reportManner = "busy" => ~z
           /\ reportManner = "busy" =>
                 Cardinality(b[1]) < 2 /\ period = "day" /\ asOf = CHOOSE m \in Moments : TRUE
           /\ placed = [o \in OrderIds |-> IF o > 1 THEN NoOrderYet
                ELSE [at |-> t, status |-> s, scheduled |-> z, of |-> b[1], via |-> b[2]]]
    /\ figures = [f \in FiguresOf(report) |-> Unread]
    /\ changed = FALSE

Reading == reportManner = "busy" /\ \E f \in DOMAIN figures : figures[f] = Unread

\* One statement of the Promise.all; in "calm" their order does not matter.
Read(f) ==
    /\ Reading /\ figures[f] = Unread
    /\ figures' = [figures EXCEPT ![f] = Figure(f)]
    /\ UNCHANGED <<reportManner, report, period, asOf, range, placed, changed>>

ReadAll ==
    /\ reportManner = "calm" /\ \E f \in DOMAIN figures : figures[f] = Unread
    /\ figures' = [f \in FiguresOf(report) |-> Figure(f)]
    /\ UNCHANGED <<reportManner, report, period, asOf, range, placed, changed>>

\* The lifecycle goes on: an order is placed, later than the report began, or moves on.
PlaceLate(o) ==
    /\ Reading /\ placed[o].status = "none"
    /\ placed' = [placed EXCEPT ![o] =
                    [placed[1] EXCEPT !.at = asOf + 1, !.status = "NEW"]]
    /\ changed' = TRUE
    /\ UNCHANGED <<reportManner, report, period, asOf, range, figures>>

MoveOn(o, s) ==
    /\ Reading /\ placed[o].status = "NEW"
    /\ placed' = [placed EXCEPT ![o].status = s]
    /\ changed' = TRUE
    /\ UNCHANGED <<reportManner, report, period, asOf, range, figures>>

ReportNext ==
    \/ \E f \in DOMAIN figures : Read(f)
    \/ ReadAll
    \/ \E o \in OrderIds : PlaceLate(o) \/ \E s \in {"DELIVERED", "CANCELLED"} : MoveOn(o, s)

ReportSpec == ReportInit /\ [][ReportNext]_reportVars

-----------------------------------------------------------------------------
(* Properties. *)

ReportTypeOK ==
    /\ reportManner \in ReportManners /\ report \in Pages /\ period \in PeriodsOf(report)
    /\ \A o \in OrderIds : placed[o].status \in OrderTypes \cup {"none"}
    /\ DOMAIN figures = FiguresOf(report)
    /\ \A f \in DOMAIN figures : figures[f] \subseteq OrderIds \/ figures[f] = Unread

Has(fs) == fs \subseteq DOMAIN figures /\ \A f \in fs : figures[f] # Unread

\* No order is in a period and in the one it is compared with, and none between the two
\* is in neither, also across the ends of months. The dashboard of the administration
\* keeps them apart for its best sellers only, and leaves a day out in its days.
PeriodsApart ==
    /\ Has({"orders", "previous"}) /\ report # "admin" =>
           figures["orders"] \cap figures["previous"] = {}
    /\ Has({"top", "topBefore"}) => figures["top"] \cap figures["topBefore"] = {}
    /\ Has({"orders", "previous"}) /\ ~changed /\ (report = "admin" => period # "day") =>
           \A o \in Uncancelled \cap Within(range.prevStart, range.end) :
                 (report \in {"store", "business"} => OneStore \in placed[o].of)
                     => o \in figures["orders"] \cup figures["previous"]

\* While the orders rest, what a report draws adds up to what it says: the bars of the
\* series, up to an order of the last instant, and the parts of a sum.
AddsUp ==
    LET last == {o \in OrderIds : placed[o].at = asOf}
    IN ~changed =>
        /\ Has({"orders", "series"}) /\ report # "business"
              /\ ~(report = "overview" /\ period = "month") =>
               figures["series"] \ last = figures["orders"] \ last
        /\ Has({"today", "series"}) =>
               figures["today"] = figures["series"] \cap Within(Midnight(asOf), Ever)
        /\ Has({"todayOrders", "todayRevenue"}) =>
               figures["todayOrders"] = figures["todayRevenue"]
        /\ Has({"orders", "scheduled", "instant"}) =>
               /\ figures["orders"] = figures["scheduled"] \cup figures["instant"]
               /\ figures["scheduled"] \cap figures["instant"] = {}

\* Whatever is placed, delivered or cancelled between two of its statements, a report
\* never shows more deliveries than orders: it counts up to its beginning, and an order
\* that was delivered is not cancelled any more. The seller's report has no such bound.
DeliveredAreOrdered ==
    report # "business" /\ Has({"orders"}) =>
        \A f \in {"staff", "delivered", "revenue", "statuses", "top"} :
            Has({f}) => figures[f] \subseteq figures["orders"]

\* The stores' orders add up to the orders unless one belongs to several: it is counted
\* for each of them.
CountedPerStore ==
    report = "platform" /\ Has(Stores) /\ ~changed =>
        \A o \in Uncancelled \cap Within(range.start, asOf) :
            Cardinality({s \in Stores : o \in figures[s]}) =
                Cardinality(placed[o].of \cup placed[o].via)

\* The figures of one report agree with each other.
ReportsSound ==
    ReportTypeOK /\ PeriodsApart /\ AddsUp /\ DeliveredAreOrdered /\ CountedPerStore
=============================================================================
