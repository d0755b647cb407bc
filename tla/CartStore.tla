----------------------------- MODULE CartStore -----------------------------
(***************************************************************************)
(* The optimistic cart of the storefront (cart-store.ts) and the cart on   *)
(* the server (cart.controller.ts, cart.service.ts), as one visit uses     *)
(* them.  A tap changes only `pending'; a timer posts the pending delta of *)
(* one variant, which is `inFlight' until its answer arrives; every answer *)
(* carries all rows of the cart and replaces what the page knew of them.   *)
(* A call is three steps on the server (read the row, write it, read the   *)
(* cart), and its request or its answer may be lost.                       *)
(***************************************************************************)
EXTENDS OrderPricing, FiniteSets

CONSTANTS
    Variants, Stores, NoStore,
    StoreOf,      \* the store a variant's card names
    ModeOf,       \* the selling mode of a variant
    Bare,         \* variants that are also added without a store (product page, reorder)
    Opening,      \* the rows of the cart when the visit begins
    MaxCalls, MaxGets,              \* bounds on the calls under way
    MaxTaps, MaxUpsets,  \* bounds of a visit, calm or not: taps; lost calls, reloads, orders
    NoCall

ASSUME CartAssumption ==
    /\ Variants # {} /\ Bare \subseteq Variants
    /\ NoStore \notin Stores
    /\ StoreOf \in [Variants -> Stores]
    /\ ModeOf \in [Variants -> Mode]
    /\ Opening \in [Variants -> Nat]
    /\ {MaxCalls, MaxGets} \subseteq Nat
    /\ {MaxTaps, MaxUpsets} \subseteq [BOOLEAN -> Nat]

VARIABLES
    server,       \* serverByVariant: the rows of the last answer
    pending,      \* pendingByVariant
    inFlight,     \* inFlightByVariant
    timer,        \* flushTimers: is a flush of the variant scheduled?
    activeStore,  \* the store this session buys from
    stored,       \* the rows in the session storage
    loaded,       \* hydrated: not yet, from the storage, or by an answer
    row,          \* CartItem: quantities on the server, 0 for no row
    calls,        \* the requests under way
    calm,         \* this visit: no call overlaps another, and no answer is lost
    taps, upsets

page == <<server, pending, inFlight, timer, activeStore, stored, loaded>>
budget == <<taps, upsets>>
vars == <<page, row, calls, calm, budget>>

Rows == [Variants -> Nat]
Slots == 1..MaxCalls
Call == [kind : {"post", "delete", "get"}, variant : Variants, delta : Int,
         at : {"sent", "read", "written", "answered", "failed"},
         seen : Nat, answer : Rows, live : BOOLEAN]

ASSUME NoCallAssumption == NoCall \notin Call

Empty == [v \in Variants |-> 0]
Known(v) == server[v] + inFlight[v] + pending[v]
Quantity(v) == Positive(Known(v))                  \* getVariantQuantity
Busy == {s \in Slots : calls[s] # NoCall}
Carries(s, kind) == s \in Busy /\ calls[s].kind = kind /\ calls[s].live

Init ==
    /\ server = Empty /\ pending = Empty /\ inFlight = Empty
    /\ timer = [v \in Variants |-> FALSE]
    /\ activeStore = NoStore
    /\ stored = Empty /\ loaded = "no"
    /\ row = Opening
    /\ calls = [s \in Slots |-> NoCall]
    /\ calm \in BOOLEAN
    /\ taps = 0 /\ upsets = 0

-----------------------------------------------------------------------------
(* The customer *)

Deltas(v) == {Step(ModeOf[v]), DecreaseDelta(Quantity(v), ModeOf[v])}

SafeDelta(v, d) == IF Known(v) + d < 0 THEN -Known(v) ELSE d

\* assertCanAddFromStore
CanAddFromStore(v) == activeStore \in {NoStore, StoreOf[v]}

IncrementCart(v, delta, named) ==
    /\ delta # 0 /\ SafeDelta(v, delta) # 0
    /\ delta > 0 /\ named => CanAddFromStore(v)
    /\ pending' = [pending EXCEPT ![v] = @ + SafeDelta(v, delta)]
    /\ timer' = [timer EXCEPT ![v] = TRUE]
    /\ activeStore' = IF delta > 0 /\ named THEN StoreOf[v] ELSE activeStore
    /\ UNCHANGED <<server, inFlight, stored, loaded>>

BeingDeleted(v) == \E s \in Busy : calls[s].kind = "delete" /\ calls[s].variant = v

AdjustCart(v) ==
    /\ taps < MaxTaps[calm]
    /\ calm => ~BeingDeleted(v)
    /\ \E d \in Deltas(v), named \in BOOLEAN :
          /\ named \/ v \in Bare
          /\ IncrementCart(v, d, named)
    /\ taps' = taps + 1
    /\ UNCHANGED <<row, calls, calm, upsets>>

\* The lowest free slot carries the next call.
Send(call) ==
    \E s \in Slots \ Busy :
        /\ \A r \in Slots \ Busy : s <= r
        /\ calls' = [calls EXCEPT ![s] = call]

NewCall(kind, v, delta) ==
    [kind |-> kind, variant |-> v, delta |-> delta, at |-> "sent", seen |-> 0,
     answer |-> Empty, live |-> TRUE]

\* A line can be deleted while it is on the page; nothing of it is pending in a calm visit.
DeleteCartLine(v) ==
    /\ taps < MaxTaps[calm]
    /\ server[v] > 0
    /\ calm => Busy = {} /\ pending[v] = 0
    /\ Send(NewCall("delete", v, 0))
    /\ taps' = taps + 1
    /\ UNCHANGED <<page, row, calm, upsets>>

\* bootstrapCart on every page with a cart badge, and fetchAndApply when the session changes.
FetchCart ==
    /\ Cardinality({s \in Busy : calls[s].kind = "get"}) < MaxGets
    /\ calm => Busy = {}
    /\ \E v \in Variants : Send(NewCall("get", v, 0))
    /\ UNCHANGED <<page, row, calm, budget>>

\* The page is loaded again: only what the session storage holds is left, and calls that
\* are under way are nobody's.
ReloadPage ==
    /\ upsets < MaxUpsets[calm]
    /\ ~calm
    /\ server' = stored
    /\ loaded' = IF stored = Empty THEN "no" ELSE "stored"
    /\ pending' = Empty /\ inFlight' = Empty
    /\ timer' = [v \in Variants |-> FALSE]
    /\ calls' = [s \in Slots |->
                   IF s \in Busy THEN [calls[s] EXCEPT !.live = FALSE] ELSE NoCall]
    /\ upsets' = upsets + 1
    /\ UNCHANGED <<activeStore, stored, row, calm, taps>>

\* Checkout empties the cart on the server and forgets the store; the page fetches later.
PlaceOrder ==
    /\ ~calm /\ row # Empty /\ upsets < MaxUpsets[calm]
    /\ row' = Empty
    /\ activeStore' = NoStore
    /\ upsets' = upsets + 1
    /\ UNCHANGED <<server, pending, inFlight, timer, stored, loaded>>
    /\ UNCHANGED <<calls, calm, taps>>

-----------------------------------------------------------------------------
(* The page's timers *)

\* Mutant: a delta is posted although another of the variant is under way.
FlushAnyway(v) ==
    /\ timer[v]
    /\ IF pending[v] = 0
       THEN /\ timer' = [timer EXCEPT ![v] = FALSE]
            /\ UNCHANGED <<pending, inFlight, calls>>
       ELSE /\ calm => Busy = {}
            /\ timer' = [timer EXCEPT ![v] = FALSE]
            /\ pending' = [pending EXCEPT ![v] = 0]
            /\ inFlight' = [inFlight EXCEPT ![v] = pending[v]]
            /\ Send(NewCall("post", v, pending[v]))
    /\ UNCHANGED <<server, activeStore, stored, loaded, row, calm, budget>>

FlushVariant(v) ==
    /\ timer[v]
    /\ \/ /\ inFlight[v] # 0                       \* scheduled again
          /\ UNCHANGED <<timer, pending, inFlight, calls>>
       \/ /\ inFlight[v] = 0 /\ pending[v] = 0
          /\ timer' = [timer EXCEPT ![v] = FALSE]
          /\ UNCHANGED <<pending, inFlight, calls>>
       \/ /\ inFlight[v] = 0 /\ pending[v] # 0
          /\ calm => Busy = {}
          /\ timer' = [timer EXCEPT ![v] = FALSE]
          /\ pending' = [pending EXCEPT ![v] = 0]
          /\ inFlight' = [inFlight EXCEPT ![v] = pending[v]]
          /\ Send(NewCall("post", v, pending[v]))
    /\ UNCHANGED <<server, activeStore, stored, loaded, row, calm, budget>>

\* schedulePersist; only a page that is loaded again reads what is stored.
Persist ==
    /\ stored # server /\ upsets < MaxUpsets[calm]
    /\ stored' = server
    /\ UNCHANGED <<server, pending, inFlight, timer, activeStore, loaded>>
    /\ UNCHANGED <<row, calls, calm, budget>>

-----------------------------------------------------------------------------
(* The server *)

Proceed(s, at) == calls' = [calls EXCEPT ![s].at = at]

\* addItem and removeItem look for the row; neither a decrease nor a removal creates one.
ReadLine(s) ==
    /\ s \in Busy /\ calls[s].kind # "get" /\ calls[s].at = "sent"
    /\ LET c == calls[s]
           q == row[c.variant]
       IN  calls' = [calls EXCEPT
                       ![s].at = IF q = 0 /\ ~(c.kind = "post" /\ c.delta > 0)
                                 THEN "failed" ELSE "read",
                       ![s].seen = q]
    /\ UNCHANGED <<page, row, calm, budget>>

\* Mutant: the delta is taken off the row, whatever is left of it.
TargetReversed(c) == IF c.kind = "delete" THEN 0 ELSE c.seen - c.delta

Target(c) == IF c.kind = "delete" THEN 0 ELSE Positive(c.seen + c.delta)

\* A row that was read must still be there to be updated or deleted (P2025), and one that was
\* not there must not have been created since (P2002).
WriteLine(s) ==
    /\ s \in Busy /\ calls[s].at = "read"
    /\ LET c == calls[s] IN
         IF (c.seen = 0) = (row[c.variant] = 0)
         THEN row' = [row EXCEPT ![c.variant] = Target(c)] /\ Proceed(s, "written")
         ELSE Proceed(s, "failed") /\ UNCHANGED row
    /\ UNCHANGED <<page, calm, budget>>

\* findCartWithItems
ReadCart(s) ==
    /\ s \in Busy
    /\ calls[s].at = (IF calls[s].kind = "get" THEN "sent" ELSE "written")
    /\ calls' = [calls EXCEPT ![s].at = "answered", ![s].answer = row]
    /\ UNCHANGED <<page, row, calm, budget>>

-----------------------------------------------------------------------------
(* Answers *)

Done(s) == calls' = [calls EXCEPT ![s] = NoCall]

\* Mutant: an answer without rows is taken for a missing one.
ApplyRowsOnly(rows) ==
    /\ server' = IF rows = Empty THEN server ELSE rows
    /\ loaded' = "fetched"
    /\ activeStore' = IF rows = Empty THEN NoStore ELSE activeStore

\* applyCartItemsSnapshot
ApplySnapshot(rows) ==
    /\ server' = rows
    /\ loaded' = "fetched"
    /\ activeStore' = IF rows = Empty THEN NoStore ELSE activeStore

PostSucceeds(s) ==
    /\ Carries(s, "post") /\ calls[s].at = "answered"
    /\ LET v == calls[s].variant IN
         /\ inFlight' = [inFlight EXCEPT ![v] = 0]
         /\ timer' = [timer EXCEPT ![v] = @ \/ pending[v] # 0]
    /\ ApplySnapshot(calls[s].answer)
    /\ Done(s)
    /\ UNCHANGED <<pending, stored, row, calm, budget>>

\* Mutant: a delta that was refused is dropped.
RestoreNothing(v, delta, retry) ==
    /\ inFlight' = [inFlight EXCEPT ![v] = 0]
    /\ timer' = [timer EXCEPT ![v] = @ \/ pending[v] # 0 \/ retry]
    /\ UNCHANGED pending

\* Mutant: a delta that was refused waits for the next tap.
RestoreUnscheduled(v, delta, retry) ==
    /\ inFlight' = [inFlight EXCEPT ![v] = 0]
    /\ pending' = [pending EXCEPT ![v] = @ + delta]
    /\ UNCHANGED timer

\* The delta is pending again: after 429 with a retry timer, otherwise rolled back.
Restore(v, delta, retry) ==
    /\ inFlight' = [inFlight EXCEPT ![v] = 0]
    /\ pending' = [pending EXCEPT ![v] = @ + delta]
    /\ timer' = [timer EXCEPT ![v] = @ \/ pending'[v] # 0 \/ retry]

PostFails(s) ==
    /\ Carries(s, "post") /\ calls[s].at = "failed"
    /\ Restore(calls[s].variant, calls[s].delta, FALSE)
    /\ Done(s)
    /\ UNCHANGED <<server, activeStore, stored, loaded, row, calm, budget>>

\* A post, or its answer, does not get through; a rate limit refuses it before it is read.
LosePost(s) ==
    /\ upsets < MaxUpsets[calm]
    /\ Carries(s, "post")
    /\ calls[s].at = "sent" \/ (~calm /\ calls[s].at = "answered")
    /\ \E limited \in {FALSE, calls[s].at = "sent"} :
          Restore(calls[s].variant, calls[s].delta, limited)
    /\ Done(s)
    /\ upsets' = upsets + 1
    /\ UNCHANGED <<server, activeStore, stored, loaded, row, calm, taps>>

\* deleteCartLine: an error leaves the page as it is.
DeleteArrives(s) ==
    /\ Carries(s, "delete")
    /\ \/ calls[s].at = "answered" /\ ApplySnapshot(calls[s].answer) /\ UNCHANGED upsets
       \/ calls[s].at = "failed" /\ UNCHANGED <<server, activeStore, loaded, upsets>>
       \/ /\ upsets < MaxUpsets[calm] /\ upsets' = upsets + 1
          /\ calls[s].at = "sent" \/ (~calm /\ calls[s].at = "answered")
          /\ UNCHANGED <<server, activeStore, loaded>>
    /\ Done(s)
    /\ UNCHANGED <<pending, inFlight, timer, stored, row, calm, taps>>

\* fetchAndApply: an error shows an empty cart.
GetArrives(s) ==
    /\ Carries(s, "get")
    /\ \/ calls[s].at = "answered" /\ ApplySnapshot(calls[s].answer) /\ UNCHANGED upsets
       \/ ~calm /\ upsets < MaxUpsets[calm] /\ upsets' = upsets + 1 /\ ApplySnapshot(Empty)
    /\ Done(s)
    /\ UNCHANGED <<pending, inFlight, timer, stored, row, calm, taps>>

\* Nobody waits for the answer of a call made before the page was loaded again.
DropOrphan(s) ==
    /\ s \in Busy /\ ~calls[s].live
    /\ calls[s].at \in {"answered", "failed"}
    /\ Done(s)
    /\ UNCHANGED <<page, row, calm, budget>>

-----------------------------------------------------------------------------
Customer == \/ \E v \in Variants : AdjustCart(v) \/ DeleteCartLine(v)
            \/ FetchCart \/ ReloadPage \/ PlaceOrder
ServerStep(s) == ReadLine(s) \/ WriteLine(s) \/ ReadCart(s)
AnswerStep(s) == \/ PostSucceeds(s) \/ PostFails(s) \/ LosePost(s)
                 \/ DeleteArrives(s) \/ GetArrives(s) \/ DropOrphan(s)

Next == \/ Customer
        \/ Persist
        \/ \E v \in Variants : FlushVariant(v)
        \/ \E s \in Slots : ServerStep(s) \/ AnswerStep(s)

Spec == Init /\ [][Next]_vars

\* The browser runs its timers and the server its handlers; nobody has to tap.
Fairness ==
    /\ \A v \in Variants : SF_vars(FlushVariant(v))
    /\ \A s \in Slots : WF_vars(ServerStep(s)) /\ WF_vars(AnswerStep(s))

FairSpec == Spec /\ Fairness

-----------------------------------------------------------------------------
(* Properties *)

TypeOK ==
    /\ server \in Rows /\ stored \in Rows /\ row \in Rows
    /\ pending \in [Variants -> Int] /\ inFlight \in [Variants -> Int]
    /\ timer \in [Variants -> BOOLEAN]
    /\ activeStore \in Stores \cup {NoStore}
    /\ loaded \in {"no", "stored", "fetched"}
    /\ calls \in [Slots -> Call \cup {NoCall}]
    /\ calm \in BOOLEAN
    /\ taps \in Nat /\ upsets \in Nat

\* No tap is forgotten: whatever is pending has a timer, or a post under way whose answer
\* will schedule it, however answers, failures, retries and taps interleave.
PendingIsScheduled ==
    \A v \in Variants : pending[v] # 0 => timer[v] \/ inFlight[v] # 0

\* A delta is in flight exactly as long as one post of this page carries it: never two posts
\* of a variant at a time, and no delta that waits for an answer that cannot come.
InFlightIsCarried ==
    /\ \A v \in Variants :
          inFlight[v] # 0 => \E s \in Slots : Carries(s, "post") /\ calls[s].variant = v
    /\ \A s \in Slots : Carries(s, "post") =>
          /\ calls[s].delta = inFlight[calls[s].variant] /\ calls[s].delta # 0
          /\ \A r \in Slots : Carries(r, "post") /\ calls[r].variant = calls[s].variant => r = s

\* Every wish that the server does not know of is either scheduled or carried by one call.
WishesCarried == TypeOK /\ PendingIsScheduled /\ InFlightIsCarried

Unapplied(v) ==
    IF \E s \in Busy : calls[s].kind = "post" /\ calls[s].variant = v
                        /\ calls[s].at \in {"sent", "read"}
    THEN inFlight[v] ELSE 0

\* What the customer asked for: the row, and the deltas that have yet to reach it.
Wanted(v) == row[v] + Unapplied(v) + pending[v]

\* In a calm visit the cart on the server and the deltas on their way add up to the taps:
\* no flush, retry, lost request or answer changes what was asked for.
WantedKept ==
    [][calm => \A v \in Variants :
         \/ Wanted(v)' = Wanted(v)
         \/ taps' # taps
         \/ \E s \in Busy : /\ calls[s].kind = "delete" /\ calls[s].variant = v
                             /\ calls'[s] # NoCall /\ calls'[s].at = "written"]_vars

\* In a calm visit the page shows what was asked for, at every step between tap and answer.
ShownIsWanted ==
    calm /\ loaded = "fetched" /\ (\A s \in Busy : calls[s].kind # "delete")
        => \A v \in Variants : Quantity(v) = Wanted(v)

\* What a customer asked for in a calm visit is what the page shows and the calls deliver.
WishesKept == []ShownIsWanted /\ WantedKept

\* In a calm visit the page comes to rest with every delta applied.
Drains == <>[](calm => \A v \in Variants : pending[v] = 0 /\ inFlight[v] = 0)
=============================================================================
