----------------------------- MODULE StaffPush -----------------------------
(***************************************************************************)
(* Push notices to the staff: the subscription of a browser with its push  *)
(* service, the switch of the page and the preference it keeps in          *)
(* localStorage, the rows of the server, and the announcement of an order  *)
(* to every row. A device has one browser profile; its users follow each   *)
(* other. The steps of one call that touch nothing shared (support, key,   *)
(* permission, service worker) are one step.                               *)
(* Source: lib/staff-push.ts, staff-push-prompt.tsx, lib/api.ts (logout),  *)
(* push.service.ts, push.controller.ts                                     *)
(***************************************************************************)
EXTENDS Naturals, FiniteSets

CONSTANTS Devices, Staff,
          Panel,        \* the staff whose role opens the admin panel
          Scoped,       \* the pickers of one store: they hear of its orders only
          PushCalls,    \* bound: numbers of the calls in flight at the same time
          MaxEndpoints, \* bound: subscriptions the browsers create
          MaxDrops,     \* bound: subscriptions the browsers lose, sessions that expire
          MaxNotices,   \* bound: announcements
          PushManners   \* "serial": one call at a time on a device; "any": they overlap

ASSUME PushAssumption ==
    /\ IsFiniteSet(Devices) /\ Panel \subseteq Staff /\ Scoped \subseteq Staff \ Panel
    /\ IsFiniteSet(PushCalls) /\ PushCalls \subseteq Nat
    /\ MaxEndpoints \in Nat \ {0} /\ PushManners \subseteq {"serial", "any"}
    /\ MaxDrops \in [PushManners -> Nat] /\ MaxNotices \in [PushManners -> Nat]

NoEndpoint == 0
Endpoints == 1 .. MaxEndpoints
Nobody == "nobody"
People == Staff \cup {Nobody}

VARIABLES
    pushManner,  \* chosen at the start
    signedIn,    \* authStorage: whose access token each device holds
    browserSub,  \* pushManager.getSubscription() of each device
    created,     \* endpoints given out so far
    allowed,     \* Notification.permission
    pushPref,    \* PUSH_PREF_KEY of each device
    switch,      \* subscribed, in the state of the page
    pushRows,    \* PushSubscription: the user and the number of the row of an endpoint
    pushCall,    \* the calls in flight
    notice,      \* the announcement being sent: its store, and the rows it has yet to do
    notices,     \* announcements so far
    drops,       \* subscriptions lost and sessions expired so far
    strayed      \* history: devices whose unsubscribe() failed, or ran beside another call

pushVars == <<pushManner, signedIn, browserSub, created, allowed, pushPref, switch,
              pushRows, pushCall, notice, notices, drops, strayed>>

NoCall == [kind |-> "none", page |-> FALSE, step |-> "idle"]
NoRow == [user |-> Nobody, number |-> 0]
NoNotice == [own |-> TRUE, left |-> {}]
HasRow(e) == pushRows[e].user # Nobody
Calling(d) == \E c \in PushCalls : pushCall[c] # NoCall /\ pushCall[c].on = d

PushTypeOK ==
    /\ pushManner \in PushManners
    /\ signedIn \in [Devices -> People]
    /\ browserSub \in [Devices -> 0 .. created] /\ created \in 0 .. MaxEndpoints
    /\ allowed \in [Devices -> BOOLEAN]
    /\ pushPref \in [Devices -> BOOLEAN] /\ switch \in [Devices -> BOOLEAN]
    /\ \A e \in Endpoints : pushRows[e].user \in People
    /\ \A d, f \in Devices : browserSub[d] = browserSub[f] /\ d # f =>
          browserSub[d] = NoEndpoint

PushInit ==
    /\ pushManner \in PushManners
    /\ signedIn = [d \in Devices |-> Nobody]
    /\ browserSub = [d \in Devices |-> NoEndpoint] /\ created = 0
    /\ allowed = [d \in Devices |-> FALSE]
    /\ pushPref = [d \in Devices |-> FALSE] /\ switch = pushPref
    /\ pushRows = [e \in Endpoints |-> NoRow]
    /\ pushCall = [c \in PushCalls |-> NoCall]
    /\ notice = NoNotice /\ notices = 0 /\ drops = 0 /\ strayed = {}

-----------------------------------------------------------------------------
(* Sessions. *)

\* The page is left: its calls go on, and what they would show is lost.
PageLeft(d) == [c \in PushCalls |-> IF pushCall[c] # NoCall /\ pushCall[c].on = d
                               THEN [pushCall[c] EXCEPT !.page = FALSE] ELSE pushCall[c]]

\* A new call on d takes the lowest free number; it may run beside another in "any". The
\* switch is disabled while a call of its page runs.
Starts(c, call) ==
    /\ call.page => \A b \in PushCalls : pushCall[b].page => pushCall[b].on # call.on
    /\ pushCall[c] = NoCall /\ \A b \in PushCalls : b < c => pushCall[b] # NoCall
    /\ pushManner = "serial" => ~Calling(call.on)
    /\ pushCall' = IF call.token = Nobody /\ call.kind = "off"
                   THEN [PageLeft(call.on) EXCEPT ![c] = call]
                   ELSE [pushCall EXCEPT ![c] = call]
    /\ strayed' = IF Calling(call.on) THEN strayed \cup {call.on}
               ELSE IF call.page \/ call.kind = "off" THEN strayed \ {call.on} ELSE strayed
CallEnds(c) == pushCall' = [pushCall EXCEPT ![c] = NoCall]

\* setSubscribed, when the call is one of the page that is open.
Shows(c, on) ==
    switch' = [switch EXCEPT ![pushCall[c].on] = IF pushCall[c].page THEN on ELSE @]

\* In "any" one device is used.
FirstDevice == CHOOSE d \in Devices : TRUE

\* The page of the staff opens: refresh() shows what is stored.
SignIn(d, u) ==
    /\ signedIn[d] = Nobody
    /\ IF pushManner = "serial" THEN ~Calling(d) ELSE d = FirstDevice
    /\ signedIn' = [signedIn EXCEPT ![d] = u]
    /\ switch' = [switch EXCEPT ![d] = pushPref[d]]
    /\ UNCHANGED <<pushManner, browserSub, created, allowed, pushPref, pushRows, pushCall,
                   notice, notices, drops, strayed>>

\* unsubscribeStaffPush, from its start to its first await. The token is the one it
\* reads here.
Unsubscribes(c, d, token) ==
    /\ Starts(c, [kind |-> "off", page |-> token # Nobody, on |-> d, step |-> "find",
                  token |-> token, endpoint |-> NoEndpoint])
    /\ pushPref' = [pushPref EXCEPT ![d] = FALSE]

\* authStorage.logout clears the token first and then unsubscribes: there is none to
\* delete the row with.
SignOut(c, d) ==
    /\ signedIn[d] # Nobody
    /\ signedIn' = [signedIn EXCEPT ![d] = Nobody]
    /\ Unsubscribes(c, d, Nobody)
    /\ UNCHANGED <<pushManner, browserSub, created, allowed, switch, pushRows, notice,
                   notices, drops>>

\* restoreSession fails: clearAccessToken, and the subscription stays.
SessionEnds(d) ==
    /\ signedIn[d] # Nobody /\ drops < MaxDrops[pushManner]
    /\ drops' = drops + 1 /\ strayed' = strayed \cup {d}
    /\ signedIn' = [signedIn EXCEPT ![d] = Nobody] /\ pushCall' = PageLeft(d)
    /\ UNCHANGED <<pushManner, browserSub, created, allowed, pushPref, switch, pushRows,
                   notice, notices>>

-----------------------------------------------------------------------------
(* Turning the notices on and off. *)

\* The switch of the page, or ensureStaffPushSubscription when the page of notices opens.
TurnOn(c, d, onPage) ==
    /\ signedIn[d] # Nobody
    /\ IF onPage THEN ~switch[d] ELSE pushPref[d] /\ allowed[d] /\ signedIn[d] \in Panel
    /\ Starts(c, [kind |-> "on", page |-> onPage, on |-> d, step |-> "ask",
                  token |-> Nobody, endpoint |-> NoEndpoint])
    /\ UNCHANGED <<pushManner, signedIn, browserSub, created, allowed, pushPref, switch,
                   pushRows, notice, notices, drops>>

TurnOff(c, d) ==
    /\ signedIn[d] # Nobody /\ switch[d]
    /\ Unsubscribes(c, d, signedIn[d])
    /\ UNCHANGED <<pushManner, signedIn, browserSub, created, allowed, switch, pushRows,
                   notice, notices, drops>>

\* fetchVapidPublicKey, requestNotificationPermission, the service worker.
Asked(c) ==
    /\ pushCall[c].step = "ask"
    /\ allowed' = [allowed EXCEPT ![pushCall[c].on] = TRUE]
    /\ pushCall' = [pushCall EXCEPT ![c].step = "subscribe"]
    /\ UNCHANGED <<pushManner, signedIn, browserSub, created, pushPref, switch, pushRows,
                   notice, notices, drops, strayed>>

\* A step of subscribeStaffPush fails or is refused: refresh() reads the preference.
TurnOnFails(c) ==
    /\ pushCall[c].kind = "on" /\ pushCall[c].step \in {"ask", "subscribe", "post"}
    /\ CallEnds(c) /\ Shows(c, pushPref[pushCall[c].on])
    /\ UNCHANGED <<pushManner, signedIn, browserSub, created, allowed, pushPref, pushRows,
                   notice, notices, drops, strayed>>

\* The subscription there is, or a new one. Only then the token is looked for, and the POST
\* goes out with it.
Subscribed(c) ==
    LET d == pushCall[c].on
        fresh == browserSub[d] = NoEndpoint
        e == IF fresh THEN created + 1 ELSE browserSub[d]
    IN /\ pushCall[c].step = "subscribe"
       /\ e \in Endpoints
       /\ browserSub' = [browserSub EXCEPT ![d] = e]
       /\ created' = IF fresh THEN created + 1 ELSE created
       /\ IF signedIn[d] = Nobody THEN CallEnds(c) /\ Shows(c, pushPref[d])
          ELSE /\ pushCall' = [pushCall EXCEPT ![c].step = "post",
                                  ![c].token = signedIn[d], ![c].endpoint = e]
               /\ UNCHANGED switch
       /\ UNCHANGED <<pushManner, signedIn, allowed, pushPref, pushRows, notice, notices,
                      drops, strayed>>

\* upsertSubscription: one row per endpoint, which changes hands.
RowFor(e, u) ==
    [pushRows EXCEPT ![e] = [user |-> u,
                         number |-> IF HasRow(e) THEN @.number ELSE @.number + 1]]

\* The server has the POST; its answer may be lost (TurnOnFails is its refusal).
Saved(c) ==
    /\ pushCall[c].kind = "on" /\ pushCall[c].step = "post"
    /\ pushRows' = RowFor(pushCall[c].endpoint, pushCall[c].token)
    /\ \/ pushCall' = [pushCall EXCEPT ![c].step = "saved"] /\ UNCHANGED switch
       \/ CallEnds(c) /\ Shows(c, pushPref[pushCall[c].on])
    /\ UNCHANGED <<pushManner, signedIn, browserSub, created, allowed, pushPref, notice,
                   notices, drops, strayed>>

TurnedOn(c) ==
    /\ pushCall[c].step = "saved"
    /\ CallEnds(c)
    /\ pushPref' = [pushPref EXCEPT ![pushCall[c].on] = TRUE]
    /\ Shows(c, TRUE)
    /\ UNCHANGED <<pushManner, signedIn, browserSub, created, allowed, pushRows, notice,
                   notices, drops, strayed>>

\* Mutant: the row is deleted on the server, and the browser keeps its subscription.
FoundRowOnly(c) ==
    LET d == pushCall[c].on IN
    /\ pushCall[c].step = "find"
    /\ pushCall' = IF pushCall[c].token = Nobody THEN [pushCall EXCEPT ![c] = NoCall]
                   ELSE [pushCall EXCEPT ![c].step = "delete",
                                         ![c].endpoint = browserSub[d]]
    /\ UNCHANGED <<pushManner, signedIn, browserSub, created, allowed, pushPref, switch,
                   pushRows, notice, notices, drops, strayed>>

\* getSubscription() and unsubscribe(); with a token the DELETE goes out, of this
\* endpoint, or of every row of the user when the browser has no subscription.
Found(c) ==
    LET d == pushCall[c].on IN
    /\ pushCall[c].step = "find"
    /\ browserSub' = [browserSub EXCEPT ![d] = NoEndpoint]
    /\ pushCall' = IF pushCall[c].token = Nobody THEN [pushCall EXCEPT ![c] = NoCall]
                   ELSE [pushCall EXCEPT ![c].step = "delete",
                                         ![c].endpoint = browserSub[d]]
    /\ UNCHANGED <<pushManner, signedIn, created, allowed, pushPref, switch, pushRows, notice,
                   notices, drops, strayed>>

\* unsubscribe() fails: the error is logged, and nothing else happens.
FindFails(c) ==
    /\ pushCall[c].step = "find"
    /\ drops < MaxDrops[pushManner]
    /\ drops' = drops + 1 /\ strayed' = strayed \cup {pushCall[c].on}
    /\ CallEnds(c) /\ Shows(c, FALSE)
    /\ UNCHANGED <<pushManner, signedIn, browserSub, created, allowed, pushPref, pushRows,
                   notice, notices>>

\* Mutant: an endpoint is taken for all of them.
DeletedAll(u, e) ==
    [f \in Endpoints |-> IF pushRows[f].user = u THEN [pushRows[f] EXCEPT !.user = Nobody]
                         ELSE pushRows[f]]
\* removeSubscription
Deleted(u, e) ==
    [f \in Endpoints |-> IF pushRows[f].user = u /\ (e = NoEndpoint \/ f = e)
                         THEN [pushRows[f] EXCEPT !.user = Nobody] ELSE pushRows[f]]

\* The DELETE arrives, or fails: either way the switch goes off.
TurnedOff(c) ==
    /\ pushCall[c].step = "delete"
    /\ pushRows' \in {pushRows, Deleted(pushCall[c].token, pushCall[c].endpoint)}
    /\ CallEnds(c) /\ Shows(c, FALSE)
    /\ UNCHANGED <<pushManner, signedIn, browserSub, created, allowed, pushPref, notice,
                   notices, drops, strayed>>

\* The browser drops its subscription: site data cleared, or the push service lets go.
BrowserDrops(d) ==
    /\ browserSub[d] # NoEndpoint /\ drops < MaxDrops[pushManner]
    /\ drops' = drops + 1
    /\ browserSub' = [browserSub EXCEPT ![d] = NoEndpoint]
    /\ UNCHANGED <<pushManner, signedIn, created, allowed, pushPref, switch, pushRows,
                   pushCall, notice, notices, strayed>>

-----------------------------------------------------------------------------
(* The announcement of an order. *)

\* sendToStaff reads the rows. "own": the order is of the store of the scoped pickers.
Announce(own) ==
    /\ notice.left = {} /\ notices < MaxNotices[pushManner]
    /\ notices' = notices + 1
    /\ notice' = [own |-> own,
                  left |-> {<<e, pushRows[e].user, pushRows[e].number>> :
                               e \in {f \in Endpoints : HasRow(f)}}]
    /\ UNCHANGED <<pushManner, signedIn, browserSub, created, allowed, pushPref, switch,
                   pushRows, pushCall, drops, strayed>>

\* shouldNotifyUser
Concerns(u) == u \in Panel \/ u \notin Scoped \/ notice.own
Live(e) == \E d \in Devices : browserSub[d] = e

\* Mutant: the row is deleted whatever the answer.
SweptAlways(r) == [pushRows EXCEPT ![r[1]].user = Nobody]
\* What is left of the row r once it was sent to: 404 or 410 deletes it, by its number.
Swept(r) ==
    IF Concerns(r[2]) /\ ~Live(r[1]) /\ pushRows[r[1]].number = r[3]
    THEN [pushRows EXCEPT ![r[1]].user = Nobody] ELSE pushRows

\* One row of the announcement: skipped, shown by its device, deleted or failed.
SendTo(r) ==
    /\ r \in notice.left
    /\ notice' = [notice EXCEPT !.left = @ \ {r}]
    /\ pushRows' = Swept(r)
    /\ UNCHANGED <<pushManner, signedIn, browserSub, created, allowed, pushPref, switch,
                   pushCall, notices, drops, strayed>>

PushNext ==
    \/ \E d \in Devices : \/ \E u \in Staff : SignIn(d, u)
                          \/ SessionEnds(d) \/ BrowserDrops(d)
                          \/ \E c \in PushCalls : \/ SignOut(c, d) \/ TurnOff(c, d)
                                                  \/ \E onPage \in BOOLEAN : TurnOn(c, d, onPage)
    \/ \E c \in PushCalls : \/ Asked(c) \/ TurnOnFails(c) \/ Subscribed(c) \/ Saved(c)
                            \/ TurnedOn(c) \/ Found(c) \/ FindFails(c) \/ TurnedOff(c)
    \/ \E own \in BOOLEAN : Announce(own)
    \/ \E r \in notice.left : SendTo(r)

PushSpec == PushInit /\ [][PushNext]_pushVars

-----------------------------------------------------------------------------
(* Properties. *)

\* A switch that is on keeps its word: while no call runs on the device and no browser
\* lost its subscription, the server has a row for what the browser listens to, and no
\* other device, user or announcement has taken it away.
OnIsReached ==
    \A d \in Devices :
        pushManner = "serial" /\ drops = 0 /\ pushPref[d] /\ ~Calling(d) =>
            browserSub[d] # NoEndpoint /\ HasRow(browserSub[d])

\* Nobody hears of orders on a device that was signed out: its browser listens to
\* nothing, unless its session ended by itself, unsubscribe() failed or another call
\* ran beside it.
SignedOutIsSilent ==
    \A d \in Devices :
        signedIn[d] = Nobody /\ ~Calling(d) /\ d \notin strayed => browserSub[d] = NoEndpoint

\* The open page shows the preference that the next page will read, however its calls
\* ended, unless one of the page of notices ran beside them.
SwitchIsPref ==
    \A d \in Devices :
        signedIn[d] # Nobody /\ ~Calling(d) /\ d \notin strayed => switch[d] = pushPref[d]

\* The notices that staff turned on arrive, and those that were turned off do not.
PushSound == PushTypeOK /\ OnIsReached /\ SignedOutIsSilent /\ SwitchIsPref
=============================================================================
