---------------------------- MODULE GuestTracking ----------------------------
(***************************************************************************)
(* Following an order without an account: the list of active orders and    *)
(* the history the browser keeps in localStorage, shared by its tabs; the  *)
(* page of each tab, which polls the selected order; and the server, which *)
(* answers from a cache of 15 seconds that a change of status does not     *)
(* clear. Orders are numbered as they are placed; of a status only counts  *)
(* whether the order is active or has ended; the banner is left out.       *)
(* Source: guest-order-tracking-storage.ts, use-guest-order-tracking.ts,   *)
(* orders.service.ts (getTrackByToken)                                     *)
(***************************************************************************)
EXTENDS Naturals, FiniteSets, SequencesExt, Sublists

CONSTANTS Tabs,         \* tabs of one browser
          Polls,        \* bound: numbers of the requests in flight at the same time
          MaxOrders,    \* bound: orders placed
          HistoryMax,   \* HISTORY_MAX
          MaxLost,      \* bound: requests that fail
          TrackManners  \* "solo": one tab; "tabs"; "legacy": one tab, and the store of
                        \* an older version of the page was taken over

ASSUME TrackAssumption ==
    /\ IsFiniteSet(Tabs) /\ Tabs # {} /\ IsFiniteSet(Polls) /\ Polls \subseteq Nat
    /\ MaxOrders \in Nat \ {0} /\ HistoryMax \in Nat \ {0} /\ MaxLost \in Nat
    /\ TrackManners \subseteq {"solo", "tabs", "legacy"}

Orders == 1 .. MaxOrders
NotTracked == 0

VARIABLES
    trackManner, \* chosen at the start
    order,       \* the orders in the database
    cachedTrack, \* what the server's cache says of an order
    followed,    \* the active orders in localStorage, in the order of their insertion
    selected,    \* selectedToken
    history,     \* the ended orders, the last one first
    view,        \* the order each tab shows
    polled,      \* the order each tab polls
    mounted,     \* the tabs whose page is open
    asked,       \* the requests in flight
    lost,        \* requests that failed
    crossed      \* history: orders of which two requests were in flight at once

store == <<followed, selected, history>>
trackVars == <<trackManner, order, cachedTrack, store, view, polled, mounted, asked,
               lost, crossed>>

NoPoll == [step |-> "idle", tab |-> "none", of |-> NotTracked, answer |-> "none"]

TrackTypeOK ==
    /\ trackManner \in TrackManners
    /\ order \in [Orders -> {"none", "active", "ended"}]
    /\ cachedTrack \in [Orders -> {"none", "active", "ended"}]
    /\ followed \in Seq(Orders) /\ IsInjective(followed)
    /\ history \in Seq(Orders) /\ IsInjective(history) /\ Len(history) <= HistoryMax
    /\ selected \in Orders \cup {NotTracked}
    /\ \A t \in Tabs : /\ view[t] \in Orders \cup {NotTracked}
                       /\ polled[t] \in Orders \cup {NotTracked}
    /\ mounted \subseteq Tabs /\ lost \in 0 .. MaxLost /\ crossed \subseteq Orders
    /\ \A s \in Polls : asked[s] # NoPoll =>
          asked[s].tab \in Tabs /\ order[asked[s].of] # "none"

\* migrateLegacyStores keeps the active orders, and may keep no selection.
TrackInit ==
    /\ trackManner \in TrackManners
    /\ order = [o \in Orders |->
                  IF trackManner = "legacy" /\ o = 1 THEN "active" ELSE "none"]
    /\ cachedTrack = [o \in Orders |-> "none"]
    /\ followed = IF trackManner = "legacy" THEN <<1>> ELSE <<>>
    /\ selected = NotTracked /\ history = <<>>
    /\ view = [t \in Tabs |-> NotTracked] /\ polled = view
    /\ mounted = {} /\ asked = [s \in Polls |-> NoPoll] /\ lost = 0 /\ crossed = {}

-----------------------------------------------------------------------------
(* The store. *)

FirstOf(list) == IF list = <<>> THEN NotTracked ELSE Head(list)
Newest(list) ==
    IF list = <<>> THEN NotTracked
    ELSE CHOOSE o \in ToSet(list) : \A p \in ToSet(list) : p <= o

\* upsertActiveGuestOrderFromApi, of an active order.
Followed(o) == IF o \in ToSet(followed) THEN followed ELSE Append(followed, o)
SelectedOr(o) == IF selected = NotTracked THEN o ELSE selected

\* removeActiveGuestOrder
Unfollowed(o) == Sifted(followed, Orders \ {o})
\* Mutant: the order that has left stays selected.
SelectedStill(o) == selected
\* Mutant: nothing is selected in its place.
SelectedNone(o) == IF selected = o THEN NotTracked ELSE selected
SelectedWithout(o) == IF selected = o THEN FirstOf(Unfollowed(o)) ELSE selected

\* appendOrderHistory
\* Mutant: an order that is there already is put in a second time.
HistoryTwice(o) == SubSeq(<<o>> \o history, 1,
                          IF Len(history) < HistoryMax THEN Len(history) + 1 ELSE HistoryMax)
HistoryWith(o) ==
    LET all == <<o>> \o Sifted(history, Orders \ {o})
    IN SubSeq(all, 1, IF Len(all) < HistoryMax THEN Len(all) ELSE HistoryMax)

\* reloadLocal in tab t, once the store is what it is: the page shows the selected order
\* or the newest, and polls anew what is selected when the order it shows has changed.
Reloaded(t) ==
    LET shows == IF selected' = NotTracked THEN Newest(followed') ELSE selected'
    IN /\ view' = [view EXCEPT ![t] = IF t \in mounted' THEN shows ELSE NotTracked]
       /\ polled' = [polled EXCEPT ![t] = IF t \notin mounted' THEN NotTracked
                                          ELSE IF shows # view[t] THEN selected' ELSE @]

-----------------------------------------------------------------------------
(* The page. *)

\* refreshFromApi sends its request, which takes the lowest free number.
Sends(s, t, o) ==
    /\ asked[s] = NoPoll /\ \A r \in Polls : r < s => asked[r] # NoPoll
    /\ asked' = [asked EXCEPT ![s] = [step |-> "sent", tab |-> t, of |-> o,
                                      answer |-> "none"]]
    /\ crossed' = IF \E r \in Polls : asked[r].of = o THEN crossed \cup {o} ELSE crossed

\* Outside of "tabs" there is one tab; its pages open and close.
OnlyTab == CHOOSE t \in Tabs : TRUE

\* The page opens: it shows what the store has, asks for it, and polls what is selected.
Mount(t) ==
    /\ t \notin mounted /\ (trackManner # "tabs" => t = OnlyTab)
    /\ mounted' = mounted \cup {t}
    /\ UNCHANGED <<trackManner, order, cachedTrack, store, lost>>
    /\ Reloaded(t)
    /\ IF followed = <<>> THEN UNCHANGED <<asked, crossed>>
       ELSE \E s \in Polls : Sends(s, t, view'[t])

\* The visitor goes to another page; requests in flight go on. Of several tabs one at
\* least stays.
Unmount(t) ==
    /\ t \in mounted /\ (trackManner = "tabs" => mounted # {t})
    /\ mounted' = mounted \ {t}
    /\ view' = [view EXCEPT ![t] = NotTracked] /\ polled' = [polled EXCEPT ![t] = NotTracked]
    /\ UNCHANGED <<trackManner, order, cachedTrack, store, asked, lost, crossed>>

\* The interval polls the order it was set up with, and the button asks for the one shown.
Poll(s, t, o) ==
    /\ t \in mounted /\ o # NotTracked /\ o \in {polled[t], view[t]}
    /\ Sends(s, t, o)
    /\ UNCHANGED <<trackManner, order, cachedTrack, store, view, polled, mounted, lost>>

\* pickOrder. Another tab may have taken the order from the store since it was listed.
Pick(s, t, o) ==
    /\ t \in mounted /\ order[o] # "none"
    /\ trackManner # "tabs" => o \in ToSet(followed)
    /\ selected' = IF o \in ToSet(followed) THEN o ELSE selected
    /\ Sends(s, t, o)
    /\ UNCHANGED <<trackManner, order, cachedTrack, followed, history, mounted, lost>>
    /\ Reloaded(t)

\* placeOrder has its answer: registerNewOrder.
Register(t) ==
    /\ t \in mounted
    /\ \E o \in Orders :
          /\ order[o] = "none" /\ \A p \in 1 .. o - 1 : order[p] # "none"
          /\ order' = [order EXCEPT ![o] = "active"]
          /\ followed' = Followed(o) /\ selected' = o
    /\ UNCHANGED <<trackManner, cachedTrack, history, mounted, asked, lost, crossed>>
    /\ Reloaded(t)

-----------------------------------------------------------------------------
(* The server and the network. *)

Ends(o) ==
    /\ order[o] = "active"
    /\ order' = [order EXCEPT ![o] = "ended"]
    /\ UNCHANGED <<trackManner, cachedTrack, store, view, polled, mounted, asked,
                   lost, crossed>>

\* getTrackByToken answers what it has, or what the database has.
Answers(s) ==
    /\ asked[s].step = "sent"
    /\ LET o == asked[s].of
           says == IF cachedTrack[o] = "none" THEN order[o] ELSE cachedTrack[o]
       IN /\ cachedTrack' = [cachedTrack EXCEPT ![o] = says]
          /\ asked' = [asked EXCEPT ![s].step = "answered", ![s].answer = says]
    /\ UNCHANGED <<trackManner, order, store, view, polled, mounted, lost, crossed>>

TrackExpires(o) ==
    /\ cachedTrack[o] # "none"
    /\ cachedTrack' = [cachedTrack EXCEPT ![o] = "none"]
    /\ UNCHANGED <<trackManner, order, store, view, polled, mounted, asked, lost,
                   crossed>>

\* An answer that says the order is active: it is put into the store, wherever it was.
\* The page polls anew when the status it shows has changed.
HearsActive(s) ==
    LET o == asked[s].of  t == asked[s].tab IN
    /\ asked[s].answer = "active"
    /\ followed' = Followed(o) /\ selected' = SelectedOr(o)
    /\ asked' = [asked EXCEPT ![s] = NoPoll]
    /\ UNCHANGED <<trackManner, order, cachedTrack, history, mounted, lost, crossed>>
    /\ \/ Reloaded(t)
       \/ /\ t \in mounted
          /\ view' = [view EXCEPT ![t] = selected']
          /\ polled' = [polled EXCEPT ![t] = selected']

\* Mutant: the order is put into the history and left among the active ones.
HearsEndedHalf(s) ==
    LET o == asked[s].of  t == asked[s].tab IN
    /\ asked[s].answer = "ended"
    /\ history' = HistoryWith(o)
    /\ asked' = [asked EXCEPT ![s] = NoPoll]
    /\ UNCHANGED <<trackManner, order, cachedTrack, followed, selected, mounted, lost, crossed>>
    /\ Reloaded(t)

\* finalizeGuestOrderCompletion
HearsEnded(s) ==
    LET o == asked[s].of  t == asked[s].tab IN
    /\ asked[s].answer = "ended"
    /\ followed' = Unfollowed(o) /\ selected' = SelectedWithout(o)
    /\ history' = HistoryWith(o)
    /\ asked' = [asked EXCEPT ![s] = NoPoll]
    /\ UNCHANGED <<trackManner, order, cachedTrack, mounted, lost, crossed>>
    /\ Reloaded(t)

\* The request fails, or its page is reloaded meanwhile.
PollFails(s) ==
    /\ asked[s] # NoPoll /\ lost < MaxLost
    /\ lost' = lost + 1
    /\ asked' = [asked EXCEPT ![s] = NoPoll]
    /\ UNCHANGED <<trackManner, order, cachedTrack, store, view, polled, mounted,
                   crossed>>

TrackNext ==
    \/ \E t \in Tabs : Mount(t) \/ Unmount(t) \/ Register(t)
    \/ \E s \in Polls : Answers(s) \/ HearsActive(s) \/ HearsEnded(s) \/ PollFails(s)
    \/ \E s \in Polls, t \in Tabs, o \in Orders : Poll(s, t, o) \/ Pick(s, t, o)
    \/ \E o \in Orders : Ends(o) \/ TrackExpires(o)

TrackSpec == TrackInit /\ [][TrackNext]_trackVars

\* The interval, the server and the network go on, and a cached answer runs out. Nobody
\* has to open a page, or to click.
PollsOn(t) == \E s \in Polls : Poll(s, t, polled[t])
Heard(s) == Answers(s) \/ HearsActive(s) \/ HearsEnded(s)
TrackFairness ==
    /\ \A t \in Tabs : WF_trackVars(PollsOn(t))
    /\ \A s \in Polls : WF_trackVars(Heard(s))
    /\ \A o \in Orders : WF_trackVars(TrackExpires(o))

-----------------------------------------------------------------------------
(* Properties. *)

\* What is selected is followed, and something is selected while anything is followed:
\* the page polls only the selected order. A store taken over from the older page may
\* begin without a selection.
SelectionStands ==
    /\ selected # NotTracked => selected \in ToSet(followed)
    /\ trackManner # "legacy" /\ followed # <<>> => selected # NotTracked

\* No tab, late answer or repeated completion makes the browser forget an order: it is
\* followed, or in the history, unless more have ended than that has room for.
NoneForgotten ==
    Cardinality({o \in Orders : order[o] = "ended"}) <= HistoryMax =>
        \A o \in Orders :
            order[o] # "none" => o \in ToSet(followed) \cup ToSet(history)

\* An order that the page has said to be over is shown as active again only when two of
\* its requests overlapped; the server's cache alone never brings one back.
ReturnNeedsOverlap == ToSet(followed) \cap ToSet(history) \subseteq crossed

\* The store that all tabs write stays consistent and loses no order.
TrackingSound == TrackTypeOK /\ SelectionStands /\ NoneForgotten /\ ReturnNeedsOverlap

\* With one tab, once every order has ended the open page comes to show none as active,
\* though only the selected one is polled, unless a new order is placed.
NoneActive == \A o \in Orders : order[o] # "active"
EndedLeaves ==
    (trackManner = "solo" /\ NoneActive) ~> (followed = <<>> \/ mounted = {} \/ ~NoneActive)
=============================================================================
