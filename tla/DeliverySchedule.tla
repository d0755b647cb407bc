--------------------------- MODULE DeliverySchedule ---------------------------
(***************************************************************************)
(* Scheduled delivery: the rules an admin sets, the times the checkout     *)
(* page offers, the times and slots the server accepts, the list of slots  *)
(* it caches and the orders that take places in them. Times are minutes    *)
(* since the first midnight in Tashkent.                                   *)
(* Source: common/delivery/scheduled-delivery.util.ts, settings.service.ts,*)
(* frontend lib/scheduled-delivery.ts, delivery-time-selector.tsx          *)
(***************************************************************************)
EXTENDS Naturals, FiniteSets

CONSTANTS Pickers,        \* customers who choose a time on the checkout page
          Callers,        \* customers who name a slot; each places at most one order
          RuleSets,       \* settings an admin may save
          Openings,       \* times at which a behaviour may begin
          Tick, MaxTicks, \* bound: the clock moves MaxTicks times by Tick minutes
          MaxRuleChanges, \* bound: saves of the settings
          SlotManners     \* "serial": no two calls about slots overlap; "any"

Day == 1440
WheelStep == 30       \* WHEEL_STEP_MIN
MaxDaysAhead == 30    \* MAX_SCHEDULE_DAYS_AHEAD

\* A row as updateSchedulingSettings saves and mapSchedulingSettings reads it: the day may
\* begin at 0, and ends between 1 and 23 (24 is saved, and read as 23).
ASSUME ScheduleAssumption ==
    /\ IsFiniteSet(Pickers) /\ IsFiniteSet(Callers) /\ SlotManners \subseteq {"serial", "any"}
    /\ RuleSets \subseteq [enabled : BOOLEAN, slotMinutes : {30, 60}, workStart : 0 .. 23,
                           workEnd : 1 .. 23, minDelay : 15 .. 1440, maxOrders : 1 .. 500]
    /\ Openings \subseteq 0 .. Day - 1
    /\ Tick \in Nat \ {0} /\ MaxTicks \in Nat /\ MaxRuleChanges \in Nat

Bookers == Pickers \cup Callers

VARIABLES
    slotManner,  \* chosen at the start
    clock,       \* now
    ticks,       \* how often the clock moved
    rules,       \* the settings row
    ruleChanges, \* how often it was saved
    page,        \* the time picker of each customer
    place,       \* the scheduled order of each customer
    slotList,    \* the cached list of today's slots
    listing      \* the call that is filling that cache

scheduleVars == <<slotManner, clock, ticks, rules, ruleChanges, page, place, slotList, listing>>

-----------------------------------------------------------------------------
\* What the server accepts.

DayOf(t) == t \div Day
At(date, minute) == date * Day + minute

\* validateScheduledDateTime.
ExactAccepted(r, date, minute, now) ==
    /\ r.enabled
    /\ date >= DayOf(now) /\ date <= DayOf(now) + MaxDaysAhead
    /\ At(date, minute) >= now + r.minDelay
    /\ minute >= r.workStart * 60 /\ minute < r.workEnd * 60

\* generateSlotsForDate: the starts of a day's slots.
SlotStarts(r) ==
    {m \in r.workStart * 60 .. r.workEnd * 60 :
        /\ (m - r.workStart * 60) % r.slotMinutes = 0
        /\ m + r.slotMinutes <= r.workEnd * 60}

\* Mutant: the last place is given twice.
AvailableAtLimit(r, date, start, booked, now) ==
    /\ At(date, start) >= now + r.minDelay
    /\ booked <= r.maxOrders

\* Whether a slot is available while "booked" orders are in it.
Available(r, date, start, booked, now) ==
    /\ At(date, start) >= now + r.minDelay
    /\ booked < r.maxOrders

\* countBookedSlotsForDate: orders that name this slot and are not cancelled. An order
\* for an exact time names the time, not a slot.
Booked(date, start) ==
    Cardinality({c \in Bookers : /\ place[c].step \in {"created", "placed"}
                                 /\ place[c].kind = "slot"
                                 /\ place[c].date = date /\ place[c].start = start})

-----------------------------------------------------------------------------
\* What the page offers.

\* getTimeBoundsForDate: the delay is added to the time of day, whatever day that is.
EarliestOf(r, today, date, now) ==
    LET later == (now + r.minDelay) % Day
    IN IF date = today /\ later > r.workStart * 60 THEN later ELSE r.workStart * 60
LatestOf(r) == IF r.workEnd = 0 THEN 0 ELSE r.workEnd * 60 - 1

\* The half hours of a day.
HalfHours == {WheelStep * n : n \in 0 .. (Day \div WheelStep) - 1}

\* Mutant: the wheel starts at the half hour before the earliest time.
WheelTimesEarly(r, today, date, now) ==
    {m \in HalfHours : m > EarliestOf(r, today, date, now) - WheelStep /\ m <= LatestOf(r)}

\* buildWheelTimeOptions: half hours of a day ...
WheelTimes(r, today, date, now) ==
    {m \in HalfHours : m >= EarliestOf(r, today, date, now) /\ m <= LatestOf(r)}

\* ... of today or, when there are none, of tomorrow.
NoPlan == [date |-> 0, times |-> {}]
WheelPlan(r, today, now) ==
    LET on(date) == WheelTimes(r, today, date, now)
    IN IF ~r.enabled THEN NoPlan
       ELSE IF on(today) # {} THEN [date |-> today, times |-> on(today)]
       ELSE IF on(today + 1) # {} THEN [date |-> today + 1, times |-> on(today + 1)]
       ELSE NoPlan

\* validateScheduleSelection, with the rules and the date of when they were fetched.
ClientAccepts(r, today, date, minute, now) ==
    /\ r.enabled
    /\ date >= today /\ date <= today + MaxDaysAhead
    /\ At(date, minute) >= now + r.minDelay
    /\ minute >= r.workStart * 60 /\ minute < r.workEnd * 60
    /\ minute >= EarliestOf(r, today, date, now) /\ minute <= LatestOf(r)

-----------------------------------------------------------------------------
ClosedPage == [open |-> FALSE, rules |-> rules, today |-> 0, plan |-> NoPlan]
NoTime == [date |-> 0, start |-> 0]
NoPlace == [step |-> "none", kind |-> "none", date |-> 0, start |-> 0]
Placing(step, kind, date, start) ==
    [step |-> step, kind |-> kind, date |-> date, start |-> start]
NoList == [held |-> FALSE]
NoListing == [step |-> "idle"]

ScheduleTypeOK ==
    /\ slotManner \in SlotManners
    /\ rules \in RuleSets /\ ticks \in 0 .. MaxTicks /\ ruleChanges \in 0 .. MaxRuleChanges
    /\ \A c \in Pickers : page[c].rules \in RuleSets
    /\ \A c \in Bookers :
          /\ place[c].step \in {"none", "chosen", "resolved", "created", "placed", "cancelled"}
          /\ place[c].start \in 0 .. Day - 1
    /\ slotList.held => slotList.rules \in RuleSets

ScheduleInit ==
    /\ slotManner \in SlotManners
    /\ clock \in Openings /\ ticks = 0
    /\ rules \in RuleSets /\ ruleChanges = 0
    /\ page = [c \in Pickers |-> ClosedPage]
    /\ place = [c \in Bookers |-> NoPlace]
    /\ slotList = NoList /\ listing = NoListing

\* No call about slots is in progress.
SlotsQuiet ==
    /\ listing = NoListing
    /\ \A c \in Bookers : place[c].step \notin {"resolved", "created"}
MayCall == slotManner = "serial" => SlotsQuiet

\* fetchSchedulingRules, and the wheel that is built from it once.
OpenPicker(c) ==
    /\ ~page[c].open /\ place[c] = NoPlace
    /\ page' = [page EXCEPT ![c] =
                    [open |-> TRUE, rules |-> rules, today |-> DayOf(clock),
                     plan |-> WheelPlan(rules, DayOf(clock), clock)]]
    /\ UNCHANGED <<slotManner, clock, ticks, rules, ruleChanges, place, slotList, listing>>

\* handleConfirmTime: the time is checked now, and never again by the page.
ConfirmTime(c, minute) ==
    LET p == page[c]
    IN /\ p.open /\ place[c].step \in {"none", "chosen"} /\ minute \in p.plan.times
       /\ place' = [place EXCEPT ![c] =
            IF ClientAccepts(p.rules, p.today, p.plan.date, minute, clock)
            THEN Placing("chosen", "exact", p.plan.date, minute) ELSE NoPlace]
       /\ UNCHANGED <<slotManner, clock, ticks, rules, ruleChanges, page, slotList, listing>>

\* Mutant: the time is kept as minutes since the first midnight.
PlaceExactAbsolute(c) ==
    /\ place[c].step = "chosen"
    /\ LET at == At(place[c].date, place[c].start)
           ok == ExactAccepted(rules, place[c].date, place[c].start, clock)
       IN place' = [place EXCEPT ![c] =
             IF ok THEN Placing("placed", "exact", place[c].date, at) ELSE NoPlace]
    /\ UNCHANGED <<slotManner, clock, ticks, rules, ruleChanges, page, slotList, listing>>

\* createFromCart with scheduledAt: refused, or placed whatever else is placed then.
\* The cached list of that date is dropped.
PlaceExact(c) ==
    /\ place[c].step = "chosen"
    /\ LET ok == ExactAccepted(rules, place[c].date, place[c].start, clock)
       IN /\ place' = [place EXCEPT ![c] =
                IF ok THEN Placing("placed", "exact", place[c].date, place[c].start)
                ELSE NoPlace]
          /\ slotList' = IF ok /\ place[c].date = DayOf(clock) THEN NoList ELSE slotList
    /\ UNCHANGED <<slotManner, clock, ticks, rules, ruleChanges, page, listing>>

\* createFromCart with deliverySlot counts the orders of the slot; ...
ResolveSlot(c, start) ==
    /\ place[c] = NoPlace /\ MayCall /\ rules.enabled /\ start \in SlotStarts(rules)
    /\ Available(rules, DayOf(clock), start, Booked(DayOf(clock), start), clock)
    /\ place' = [place EXCEPT ![c] = Placing("resolved", "slot", DayOf(clock), start)]
    /\ UNCHANGED <<slotManner, clock, ticks, rules, ruleChanges, page, slotList, listing>>

\* ... the order is committed later, without counting again, ...
CreateInSlot(c) ==
    /\ place[c].step = "resolved"
    /\ place' = [place EXCEPT ![c] = Placing("created", "slot", @.date, @.start)]
    /\ UNCHANGED <<slotManner, clock, ticks, rules, ruleChanges, page, slotList, listing>>

\* ... and the cached list is dropped after the commit.
\* Mutant: the list is kept.
KeepSlotList(c) ==
    /\ place[c].step = "created"
    /\ place' = [place EXCEPT ![c] = Placing("placed", "slot", @.date, @.start)]
    /\ UNCHANGED <<slotManner, clock, ticks, rules, ruleChanges, page, slotList, listing>>

DropSlotList(c) ==
    /\ place[c].step = "created"
    /\ place' = [place EXCEPT ![c] = Placing("placed", "slot", @.date, @.start)]
    /\ slotList' = IF place[c].date = DayOf(clock) THEN NoList ELSE slotList
    /\ UNCHANGED <<slotManner, clock, ticks, rules, ruleChanges, page, listing>>

\* A cancelled order leaves its slot; the cached list is not told.
CancelPlaced(c) ==
    /\ place[c].step = "placed"
    /\ place' = [place EXCEPT ![c].step = "cancelled"]
    /\ UNCHANGED <<slotManner, clock, ticks, rules, ruleChanges, page, slotList, listing>>

\* getAvailableDeliverySlots for today: on a miss the orders are counted ...
CountSlots ==
    /\ listing = NoListing /\ MayCall /\ rules.enabled /\ ~slotList.held
    /\ LET free == {s \in SlotStarts(rules) :
                       Available(rules, DayOf(clock), s, Booked(DayOf(clock), s), clock)}
       IN listing' = [step |-> "counted", rules |-> rules, day |-> DayOf(clock), free |-> free]
    /\ UNCHANGED <<slotManner, clock, ticks, rules, ruleChanges, page, place, slotList>>

\* ... and the list is stored for a minute, under its date.
StoreSlots ==
    /\ listing.step = "counted"
    /\ listing' = NoListing
    /\ slotList' = IF listing.day = DayOf(clock)
                   THEN [held |-> TRUE, rules |-> listing.rules, day |-> listing.day,
                         free |-> listing.free]
                   ELSE slotList
    /\ UNCHANGED <<slotManner, clock, ticks, rules, ruleChanges, page, place>>

\* updateSchedulingSettings; the list of slots is not told.
SaveRules(r) ==
    /\ ruleChanges < MaxRuleChanges /\ r \in RuleSets \ {rules} /\ MayCall
    /\ rules' = r /\ ruleChanges' = ruleChanges + 1
    /\ UNCHANGED <<slotManner, clock, ticks, page, place, slotList, listing>>

\* Time passes; a cached list lives for less than that.
TimePasses ==
    /\ ticks < MaxTicks
    /\ ticks' = ticks + 1 /\ clock' = clock + Tick
    /\ slotList' = NoList
    /\ UNCHANGED <<slotManner, rules, ruleChanges, page, place, listing>>

ScheduleNext ==
    \/ \E c \in Pickers :
          \/ OpenPicker(c) \/ PlaceExact(c)
          \/ \E minute \in page[c].plan.times : ConfirmTime(c, minute)
    \/ \E c \in Callers :
          \/ \E start \in SlotStarts(rules) : ResolveSlot(c, start)
          \/ CreateInSlot(c) \/ DropSlotList(c)
    \/ \E c \in Bookers : CancelPlaced(c)
    \/ CountSlots \/ StoreSlots
    \/ \E r \in RuleSets : SaveRules(r)
    \/ TimePasses

ScheduleSpec == ScheduleInit /\ [][ScheduleNext]_scheduleVars

-----------------------------------------------------------------------------
(* Properties. *)

\* The delay reaches into the next day: getTimeBoundsForDate takes the hour of the day of
\* the end of the delay, so that the wheel of today begins early in the morning, and offers
\* times that the server refuses.
Wraps == DayOf(clock + rules.minDelay) > DayOf(clock)

\* The page and the server are two programs that compute the times of a day from the
\* same rules. While pickers are open and the delay ends on the same day, every time that a
\* wheel offers which is opened now is accepted by both, and the wheel turns to tomorrow
\* only when no half hour of today is.
PageAndServerAgree ==
    LET today == DayOf(clock)
        plan == WheelPlan(rules, today, clock)
    IN (\E c \in Pickers : page[c].open) /\ ~Wraps =>
        /\ \A m \in plan.times :
              /\ ExactAccepted(rules, plan.date, m, clock)
              /\ ClientAccepts(rules, today, plan.date, m, clock)
        /\ plan.date # today \/ plan = NoPlan =>
              \A m \in HalfHours : ~ExactAccepted(rules, today, m, clock)

\* While calls do not overlap, nobody is put into a slot that is full under the rules of
\* that moment, though the orders are counted before and not again.
SlotRoomKept ==
    [][slotManner = "serial" =>
        \A c \in Bookers : place[c].step = "resolved" /\ place'[c].step = "created" =>
            Booked(place[c].date, place[c].start) < rules.maxOrders]_scheduleVars

\* While calls do not overlap, a slot the cached list shows as free has room, unless the
\* rules were saved after the list was made.
ShownHasRoom ==
    slotManner = "serial" /\ slotList.held /\ slotList.rules = rules /\ SlotsQuiet =>
        \A s \in slotList.free : Booked(slotList.day, s) < rules.maxOrders

\* What the page offers the server takes, and the places of a slot are given once each.
TimesSound == [](ScheduleTypeOK /\ PageAndServerAgree /\ ShownHasRoom) /\ SlotRoomKept
=============================================================================
