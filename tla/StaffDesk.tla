------------------------------ MODULE StaffDesk ------------------------------
(***************************************************************************)
(* The phone of one picker or one courier: the list of orders it shows,    *)
(* the queue of taps it keeps in localStorage while the network is away,   *)
(* the loops that replay this queue when the list is loaded again, and the *)
(* part of the order service these calls reach, with the cooldown between  *)
(* two rejections of a courier.                                            *)
(* Source: use-picker-orders.ts, use-courier-orders.ts, picker-offline.ts, *)
(* courier-offline.ts, api.ts, orders.service.ts, courier-orders.service.ts*)
(***************************************************************************)
EXTENDS Naturals, Sequences, FiniteSets, SequencesExt

CONSTANTS Orders,     \* the orders both lists are about
          Loops,      \* replay loops that may run at the same time, numbered
          Hand,       \* the caller of a tap that is sent at once
          NoOrder,
          Manners,    \* the manners of visit that are looked at
          Opening,    \* bound, by manner: the orders that are open at first
          MaxTaps,    \* bound, by manner: taps of the person
          MaxDrops,   \* bound, by manner and role: times the network goes away
          MaxUpsets   \* bound: lost answers and GETs, reloads, expiries, others'
                      \* moves, and half hours that go by

Roles == {"picker", "courier"}

ASSUME DeskAssumption ==
    /\ IsFiniteSet(Orders) /\ NoOrder \notin Orders
    /\ Loops \subseteq Nat /\ IsFiniteSet(Loops) /\ Hand \notin Loops
    /\ Manners \subseteq {"steady", "apart", "any"}
    /\ Opening \in [Manners -> SUBSET Orders]
    /\ MaxTaps \in [Manners -> Nat] /\ MaxDrops \in [Manners -> [Roles -> Nat]]
    /\ MaxUpsets \in Nat

VARIABLES
    role,      \* "picker" or "courier": which of the two pages is open
    manner,    \* "steady": the visit loses no answer, is not left, overlaps no
               \* calls; "apart": only, no tap is queued while a loop replays the
               \* queue; "any": nothing is assumed
    status,    \* Order.status
    holder,    \* the staff member the order is assigned to: "me", "other", "none"
    hidden,    \* orders with a CourierOrderReject row of mine in the last 30 min
    cool,      \* the youngest of these rows is under REJECT_COOLDOWN_MS old
    online,    \* navigator.onLine
    signedIn,  \* the page holds a session
    queue,     \* localStorage: pending actions
    shown,     \* the status each order is listed with, "NONE" when it is not
    cached,    \* localStorage: the list of the last load
    loop,      \* the replay loops: what is left to send and what has failed
    call,      \* the PATCH each caller is waiting for
    taps,      \* taps so far; the number of a tap is its identity
    drops, upsets,
    promised,  \* history: taps that were told "will be sent when online"
    answered,  \* history: taps whose call was answered with success
    effects    \* history of a steady visit: how often the server carried
               \* out each tap

serverVars == <<status, holder, hidden, cool>>
pageVars == <<queue, shown, cached, loop>>
history == <<promised, answered, effects>>
bounds == <<taps, drops, upsets>>
modes == <<role, manner>>
vars == <<modes, serverVars, online, signedIn, pageVars, call, bounds, history>>

Callers == Loops \cup {Hand}
Ids == 1 .. MaxTaps[manner]
steady == manner = "steady"

PickerTypes == {"start", "ready"}
CourierTypes == {"accept", "complete", "reject"}
OrderStatus == {"NEW", "PICKING", "READY", "DELIVERING", "DELIVERED", "CANCELLED"}

Action == [id : Ids, type : PickerTypes \cup CourierTypes, order : Orders]
NoAction == [id |-> 0, type |-> "none", order |-> NoOrder]
Call == [phase : {"idle", "sent", "checked", "ok", "refused"},
         item : Action \cup {NoAction}, seen : OrderStatus \cup {"NONE"}, tries : 0 .. 2]
NoCall == [phase |-> "idle", item |-> NoAction, seen |-> "NONE", tries |-> 0]
NewCall(item) == [phase |-> "sent", item |-> item, seen |-> "NONE", tries |-> 0]
Loop == [on : BOOLEAN, todo : Seq(Action), rest : Seq(Action)]
NoLoop == [on |-> FALSE, todo |-> <<>>, rest |-> <<>>]

TypeOK ==
    /\ role \in Roles /\ manner \in Manners
    /\ status \in [Orders -> OrderStatus]
    /\ holder \in [Orders -> {"me", "other", "none"}]
    /\ hidden \subseteq Orders
    /\ cool \in BOOLEAN /\ online \in BOOLEAN /\ signedIn \in BOOLEAN
    /\ queue \in Seq(Action)
    /\ shown \in [Orders -> OrderStatus \cup {"NONE"}]
    /\ cached \in [Orders -> OrderStatus \cup {"NONE"}]
    /\ loop \in [Loops -> Loop]
    /\ call \in [Callers -> Call]
    /\ taps \in 0 .. MaxTaps[manner] /\ drops \in 0 .. MaxDrops[manner][role]
    /\ upsets \in 0 .. MaxUpsets
    /\ promised \subseteq Ids /\ answered \subseteq Ids
    /\ effects \in [Ids -> {"none", "once", "again"}]

-----------------------------------------------------------------------------
(* What the server makes of each kind of call. *)

From(type) == CASE type = "start" -> "NEW"
                [] type = "ready" -> "PICKING"
                [] type = "accept" -> "READY"
                [] type = "complete" -> "DELIVERING"

To(type) == CASE type = "start" -> "PICKING"
              [] type = "ready" -> "READY"
              [] type = "accept" -> "DELIVERING"
              [] type = "complete" -> "DELIVERED"

\* The checks of applyStatus for a picker or a courier.
MayApply(type, o) ==
    /\ status[o] = From(type)
    /\ type \in {"ready", "complete"} => holder[o] = "me"

\* Mutant: the cooldown is not looked at.
MayRejectAtOnce(o) ==
    \/ status[o] = "READY"
    \/ (status[o] = "DELIVERING" /\ holder[o] = "me")

\* The checks of rejectByCourier.
MayReject(o) ==
    /\ ~cool
    /\ \/ status[o] = "READY"
       \/ (status[o] = "DELIVERING" /\ holder[o] = "me")

Admits(item) ==
    IF item.type = "reject" THEN MayReject(item.order)
                            ELSE MayApply(item.type, item.order)

\* getPickerDashboard and listCourierQueue: the status an order is listed with.
Listed(o) ==
    LET mine == holder[o] = "me"
        forPicker == status[o] = "NEW" \/ (status[o] = "PICKING" /\ mine)
        forCourier == /\ status[o] = "READY" \/ (status[o] = "DELIVERING" /\ mine)
                      /\ o \notin hidden
    IN  IF (role = "picker" /\ forPicker) \/ (role = "courier" /\ forCourier)
        THEN status[o] ELSE "NONE"

-----------------------------------------------------------------------------
Busy(c) == call[c].phase # "idle"
Running == {f \in Loops : loop[f].on}
Quiet == Running = {} /\ ~Busy(Hand)
QueueIds == {queue[i].id : i \in DOMAIN queue}

Init ==
    /\ role \in Roles /\ manner \in Manners
    /\ status = [o \in Orders |-> IF o \notin Opening[manner] THEN "CANCELLED"
                                  ELSE IF role = "picker" THEN "NEW" ELSE "READY"]
    /\ holder = [o \in Orders |-> "none"]
    /\ hidden = {} /\ cool = FALSE /\ online = TRUE /\ signedIn = TRUE
    /\ queue = <<>>
    /\ shown = [o \in Orders |-> Listed(o)] /\ cached = shown
    /\ loop = [f \in Loops |-> NoLoop]
    /\ call = [c \in Callers |-> NoCall]
    /\ taps = 0 /\ drops = 0 /\ upsets = 0
    /\ promised = {} /\ answered = {} /\ effects = [i \in Ids |-> "none"]

\* The buttons a listed order offers.
Offered(type, o) ==
    /\ type \in (IF role = "picker" THEN PickerTypes ELSE CourierTypes)
    /\ shown[o] = IF type = "reject" THEN "READY" ELSE From(type)

NextAction(type, o) == [id |-> taps + 1, type |-> type, order |-> o]

\* startPicking shows the order as PICKING; every other tap takes it off.
Optimistic(type, o) == [shown EXCEPT ![o] = IF type = "start" THEN "PICKING" ELSE "NONE"]

\* A tap while the network is away goes to the end of the queue, and the person
\* is told that it will be sent. A picker's page then shows the cached list again.
TapOffline(type, o) ==
    /\ signedIn /\ ~online /\ taps < MaxTaps[manner]
    /\ manner = "apart" => Running = {}
    /\ steady => Quiet
    /\ Offered(type, o)
    /\ taps' = taps + 1
    /\ queue' = Append(queue, NextAction(type, o))
    /\ promised' = promised \cup {taps + 1}
    /\ shown' = IF role = "picker" THEN cached ELSE Optimistic(type, o)
    /\ UNCHANGED <<modes, serverVars, online, signedIn, cached, loop, call, drops,
                   upsets, answered, effects>>

\* A tap while there is a network is sent at once.
TapOnline(type, o) ==
    /\ signedIn /\ online /\ taps < MaxTaps[manner] /\ ~Busy(Hand)
    /\ steady => Quiet
    /\ Offered(type, o)
    /\ taps' = taps + 1
    /\ shown' = Optimistic(type, o)
    /\ call' = [call EXCEPT ![Hand] = NewCall(NextAction(type, o))]
    /\ UNCHANGED <<modes, serverVars, online, signedIn, queue, cached, loop, drops,
                   upsets, history>>

-----------------------------------------------------------------------------
(* Loading the list and replaying the queue. *)

Started(f, items) == [loop EXCEPT ![f] = [on |-> TRUE, todo |-> items, rest |-> <<>>]]

\* A load with a network: the list is replaced and cached, and then the queue that
\* localStorage holds is replayed by a loop of its own, when it is not empty.
Load(f) ==
    /\ signedIn /\ online /\ ~loop[f].on
    /\ \A g \in Loops : g < f => loop[g].on
    /\ steady => Quiet
    /\ shown' = [o \in Orders |-> Listed(o)]
    /\ cached' = shown'
    /\ loop' = IF queue = <<>> THEN loop ELSE Started(f, queue)
    /\ UNCHANGED <<modes, serverVars, online, signedIn, queue, call, bounds, history>>

\* A load without a network, or whose GET fails, shows the cached list.
LoadCached ==
    /\ signedIn
    /\ \/ ~online /\ UNCHANGED upsets
       \/ ~steady /\ upsets < MaxUpsets /\ upsets' = upsets + 1
    /\ shown' = cached
    /\ UNCHANGED <<modes, serverVars, online, signedIn, queue, cached, loop, call,
                   taps, drops, history>>

SendNext(f) ==
    /\ loop[f].on /\ loop[f].todo # <<>> /\ ~Busy(f)
    /\ call' = [call EXCEPT ![f] = NewCall(Head(loop[f].todo))]
    /\ UNCHANGED <<modes, serverVars, online, signedIn, pageVars, bounds, history>>

\* Mutant: an action whose call failed is dropped.
KeepNone(rest, item) == rest

\* catch { remaining.push(item); }
KeepFailed(rest, item) == Append(rest, item)

\* The loop hears the answer of its call and goes on with the next action; the
\* action it could not send is kept, and the ones behind it are sent before it.
Heard(f, succeeded) ==
    LET l == loop[f] IN
    /\ loop' = [loop EXCEPT ![f] =
            [on |-> TRUE, todo |-> Tail(l.todo),
             rest |-> IF succeeded THEN l.rest ELSE KeepFailed(l.rest, Head(l.todo))]]
    /\ call' = [call EXCEPT ![f] = NoCall]

\* Mutant: the queue is not written back when the loop ends.
LoopEndsUnwritten(f) ==
    /\ loop[f].on /\ loop[f].todo = <<>>
    /\ loop' = [loop EXCEPT ![f] = NoLoop]
    /\ UNCHANGED <<modes, serverVars, online, signedIn, queue, shown, cached, call,
                   bounds, history>>

\* writePendingActions(remaining): what the loop kept replaces the whole queue.
LoopEnds(f) ==
    /\ loop[f].on /\ loop[f].todo = <<>>
    /\ queue' = loop[f].rest
    /\ loop' = [loop EXCEPT ![f] = NoLoop]
    /\ UNCHANGED <<modes, serverVars, online, signedIn, shown, cached, call,
                   bounds, history>>

-----------------------------------------------------------------------------
(* The calls. *)

\* The service reads the order (and, for a rejection, the youngest reject row).
ServerReads(c) ==
    /\ call[c].phase = "sent"
    /\ call' = [call EXCEPT ![c] =
            [phase |-> IF Admits(call[c].item) THEN "checked" ELSE "refused",
             item |-> call[c].item, tries |-> call[c].tries,
             seen |-> IF call[c].item.type = "reject"
                      THEN status[call[c].item.order] ELSE "NONE"]]
    /\ UNCHANGED <<modes, serverVars, online, signedIn, pageVars, bounds, history>>

Answer(c) ==
    /\ call' = [call EXCEPT ![c] = [phase |-> "ok", item |-> call[c].item,
                                    seen |-> call[c].seen, tries |-> call[c].tries]]
    /\ effects' = IF ~steady THEN effects
                  ELSE [effects EXCEPT ![call[c].item.id] =
                            IF @ = "none" THEN "once" ELSE "again"]
    /\ UNCHANGED <<modes, online, signedIn, pageVars, bounds, promised, answered>>

\* The status and the assignment applyStatus writes by the order's id.
ServerWrites(c) ==
    LET item == call[c].item IN
    /\ call[c].phase = "checked" /\ item.type # "reject"
    /\ status' = [status EXCEPT ![item.order] = To(item.type)]
    /\ holder' = [holder EXCEPT ![item.order] =
                    IF item.type \in {"start", "accept"} THEN "me" ELSE @]
    /\ UNCHANGED <<hidden, cool>>
    /\ Answer(c)

\* The reject row hides the order from the courier; an order on its way goes back
\* to READY, by the status that was read.
ServerRejects(c) ==
    LET o == call[c].item.order IN
    /\ call[c].phase = "checked" /\ call[c].item.type = "reject"
    /\ hidden' = hidden \cup {o}
    /\ cool' = TRUE
    /\ IF call[c].seen = "DELIVERING"
       THEN /\ status' = [status EXCEPT ![o] = "READY"]
            /\ holder' = [holder EXCEPT ![o] = "none"]
       ELSE UNCHANGED <<status, holder>>
    /\ Answer(c)

\* The caller gets a successful answer.
Succeeds(c) ==
    /\ call[c].phase = "ok"
    /\ answered' = answered \cup {call[c].item.id}
    /\ IF c = Hand THEN call' = [call EXCEPT ![Hand] = NoCall] /\ UNCHANGED loop
                   ELSE Heard(c, TRUE)
    /\ UNCHANGED <<modes, serverVars, online, signedIn, queue, shown, cached, bounds,
                   promised, effects>>

\* The tap that was sent at once is sent again.
Again == [phase |-> "sent", item |-> call[Hand].item, seen |-> "NONE",
          tries |-> call[Hand].tries + 1]

\* Mutant: one attempt more than MAX_RETRIES allows.
GivesUpLate(c) ==
    IF c # Hand THEN Heard(c, FALSE)
    ELSE /\ call' = [call EXCEPT ![Hand] = IF call[Hand].tries <= 2 THEN Again ELSE NoCall]
         /\ UNCHANGED loop

\* A tap sent at once is tried three times in all; a loop's call is not repeated.
GivesUp(c) ==
    IF c # Hand THEN Heard(c, FALSE)
    ELSE /\ call' = [call EXCEPT ![Hand] = IF call[Hand].tries < 2 THEN Again ELSE NoCall]
         /\ UNCHANGED loop

\* The caller gets an error from the service.
Refused(c) ==
    /\ call[c].phase = "refused"
    /\ GivesUp(c)
    /\ UNCHANGED <<modes, serverVars, online, signedIn, queue, shown, cached, bounds,
                   history>>

\* The network is away when the call is made, and it never reaches the service.
Unsent(c) ==
    /\ call[c].phase = "sent" /\ ~online
    /\ GivesUp(c)
    /\ UNCHANGED <<modes, serverVars, online, signedIn, queue, shown, cached, bounds,
                   history>>

\* The service has answered, and the answer is lost on the way.
LoseAnswer(c) ==
    /\ call[c].phase = "ok" /\ ~steady /\ upsets < MaxUpsets
    /\ upsets' = upsets + 1
    /\ GivesUp(c)
    /\ UNCHANGED <<modes, serverVars, online, signedIn, queue, shown, cached, taps,
                   drops, history>>

-----------------------------------------------------------------------------
(* The phone and the others. *)

GoOffline ==
    /\ online /\ drops < MaxDrops[manner][role]
    /\ online' = FALSE
    /\ drops' = drops + 1
    /\ UNCHANGED <<modes, serverVars, signedIn, pageVars, call, taps, upsets, history>>

GoOnline ==
    /\ ~online
    /\ online' = TRUE
    /\ UNCHANGED <<modes, serverVars, signedIn, pageVars, call, bounds, history>>

\* The page is left: its loops and calls end where they are (a call the service has
\* already checked is carried out before that, as ServerWrites and ServerRejects).
Leave ==
    /\ ~steady /\ upsets < MaxUpsets
    /\ \A c \in Callers : call[c].phase # "checked"
    /\ upsets' = upsets + 1
    /\ loop' = [f \in Loops |-> NoLoop]
    /\ call' = [c \in Callers |-> NoCall]

\* A reload: the list is empty until the first load, which caches it again.
Reload ==
    /\ signedIn
    /\ Leave
    /\ shown' = [o \in Orders |-> "NONE"]
    /\ UNCHANGED <<modes, serverVars, online, signedIn, queue, cached, taps, drops,
                   history>>

\* A call is answered 401 and the refresh fails: the tokens are removed and the page
\* is replaced by the profile page. The queue and the cached list stay.
SessionExpires ==
    /\ signedIn
    /\ \E c \in Callers : call[c].phase = "sent"
    /\ Leave
    /\ signedIn' = FALSE
    /\ shown' = [o \in Orders |-> "NONE"]
    /\ UNCHANGED <<modes, serverVars, online, queue, cached, taps, drops, history>>

SignIn ==
    /\ ~signedIn
    /\ signedIn' = TRUE
    /\ UNCHANGED <<modes, serverVars, online, pageVars, call, bounds, history>>

CooldownEnds ==
    /\ cool
    /\ cool' = FALSE
    /\ UNCHANGED <<modes, status, holder, hidden, online, signedIn, pageVars, call,
                   bounds, history>>

\* 30 minutes after the last reject row the order is listed again.
HideEnds(o) ==
    /\ o \in hidden /\ ~cool
    /\ upsets < MaxUpsets
    /\ upsets' = upsets + 1
    /\ hidden' = hidden \ {o}
    /\ UNCHANGED <<modes, status, holder, cool, online, signedIn, pageVars, call,
                   taps, drops, history>>

\* Another member of staff takes the order, or an administrator cancels it.
OthersMove(o) ==
    /\ upsets < MaxUpsets
    /\ upsets' = upsets + 1
    /\ \/ /\ status[o] = "NEW"
          /\ status' = [status EXCEPT ![o] = "PICKING"]
          /\ holder' = [holder EXCEPT ![o] = "other"]
       \/ /\ status[o] = "READY" /\ role = "courier"
          /\ status' = [status EXCEPT ![o] = "DELIVERING"]
          /\ holder' = [holder EXCEPT ![o] = "other"]
       \/ /\ status[o] \notin {"DELIVERED", "CANCELLED"}
          /\ status' = [status EXCEPT ![o] = "CANCELLED"]
          /\ UNCHANGED holder
    /\ UNCHANGED <<modes, hidden, cool, online, signedIn, pageVars, call, taps, drops,
                   history>>

-----------------------------------------------------------------------------
LoopStep(f) == SendNext(f) \/ LoopEnds(f)

CallStep(c) ==
    \/ ServerReads(c) \/ ServerWrites(c) \/ ServerRejects(c)
    \/ Succeeds(c) \/ Refused(c) \/ Unsent(c)

Tap == \E type \in PickerTypes \cup CourierTypes, o \in Orders :
            TapOffline(type, o) \/ TapOnline(type, o)

Next ==
    \/ Tap
    \/ \E f \in Loops : Load(f) \/ LoopStep(f)
    \/ LoadCached
    \/ \E c \in Callers : CallStep(c) \/ LoseAnswer(c)
    \/ GoOffline \/ GoOnline \/ Reload \/ SessionExpires \/ SignIn
    \/ CooldownEnds
    \/ \E o \in Orders : HideEnds(o) \/ OthersMove(o)

Spec == Init /\ [][Next]_vars

\* A picker's page loads the list every 12 seconds (every 30 when it is hidden); a
\* courier's page has no such timer for the load that replays the queue. The loops
\* and the calls go on by themselves, and the network comes back.
Poll(f) == role = "picker" /\ Load(f)

FairSpec ==
    /\ Spec
    /\ WF_vars(GoOnline)
    /\ \A f \in Loops : WF_vars(Poll(f)) /\ WF_vars(LoopStep(f))
    /\ \A c \in Callers : WF_vars(CallStep(c))

-----------------------------------------------------------------------------
(* Properties. *)

\* "Onlayn bo'lganda yuboriladi": a tap made without a network is in the queue
\* until its call has been answered with success.
PromiseKept == promised \ answered \subseteq QueueIds

\* As long as nothing is queued while a loop replays the queue, the promise holds
\* through failed sends, overlapping loops, lost answers, reloads and expiries.
PromiseKeptApart == manner # "any" => PromiseKept

\* In a steady visit the service carries a tap out at most once, however often the
\* queue is replayed and whatever the others do to the order meanwhile.
CarriedOutOnce == steady => \A i \in Ids : effects[i] # "again"

\* In a steady visit a tap whose call succeeded was carried out, and one that was
\* carried out and is still queued is on its way out of the queue.
QueueHoldsOpenTaps ==
    steady /\ Quiet => \A i \in Ids : effects[i] # "none" => i \notin QueueIds

\* No rejection of a courier is recorded within the cooldown of the one before,
\* in a visit whose calls do not overlap.
CooldownKept ==
    [][\A c \in Callers :
          steady /\ call[c].item.type = "reject" /\ call[c].phase = "checked"
              /\ call'[c].phase = "ok" => ~cool]_vars

\* In a steady visit every queued tap is carried out once and leaves the queue, and the
\* cooldown holds although the queue replays rejections.
TapsSound == [](TypeOK /\ CarriedOutOnce /\ QueueHoldsOpenTaps) /\ CooldownKept

\* In a steady picker's visit, a queued "start" of an order that is still NEW is
\* followed by the order leaving NEW.
QueuedStartHappens ==
    \A o \in Orders :
        (steady /\ role = "picker" /\ status[o] = "NEW"
            /\ \E i \in DOMAIN queue : queue[i].type = "start" /\ queue[i].order = o)
        ~> status[o] # "NEW"
=============================================================================
