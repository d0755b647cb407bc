--------------------------- MODULE StaffDeskProofs ---------------------------
(***************************************************************************)
(* What TLAPS proves of the staff phone, for every number of orders, taps, *)
(* replay loops and network drops, and of the images of the products, for  *)
(* every number of admins, products and images.                            *)
(*                                                                         *)
(* PromiseKeptApart is not inductive: a loop that ends replaces the queue  *)
(* by what it kept, so the invariant must also say that every running loop *)
(* still carries all open taps, in what it has to send or in what it has   *)
(* kept (LoopsCarry). A tap queued while a loop runs breaks exactly this.  *)
(*                                                                         *)
(* In a steady visit one loop or one tap is at work at a time (OneAtATime),*)
(* no tap is listed twice (EachListedOnce), and what is listed was not     *)
(* carried out, but for the tap whose answer is out (EachDoneOnce).        *)
(*                                                                         *)
(* ImagesSound needs more of three kinds (ImageInv): an image is presigned,*)
(* waits in its session and becomes an asset, in this order and once       *)
(* (LifeOf); calls in turn are one at a time, and a product has room for   *)
(* what its session or its presign will add (SerialHeld); in careful use   *)
(* an image is held by one product, form or call, and the cleanup knows    *)
(* every image in use (CarefulHeld).                                       *)
(***************************************************************************)
EXTENDS StaffDesk, ImageUpload, FiniteSetTheorems, TLAPS

\* The taps in a sequence of actions.
IdsOf(s) == {s[i].id : i \in DOMAIN s}

Open == promised \ answered

LoopsCarry ==
    manner # "any" =>
        \A f \in Loops : loop[f].on =>
            Open \subseteq IdsOf(loop[f].todo) \cup IdsOf(loop[f].rest)

\* A caller that waits has a tap in hand, and a loop waits for the first of its taps.
CallsMatch ==
    /\ \A c \in Callers : call[c].phase # "idle" => call[c].item \in Action
    /\ \A f \in Loops : call[f].phase # "idle" =>
            /\ loop[f].on /\ loop[f].todo # <<>>
            /\ call[f].item = Head(loop[f].todo)

IInv == TypeOK /\ CallsMatch /\ PromiseKeptApart /\ LoopsCarry

-----------------------------------------------------------------------------
LEMMA AppendIds ==
    ASSUME NEW s \in Seq(Action), NEW x \in Action
    PROVE  /\ IdsOf(Append(s, x)) = IdsOf(s) \cup {x.id}
           /\ Append(s, x) \in Seq(Action)
<1>1. DOMAIN s = 1 .. Len(s) /\ DOMAIN Append(s, x) = 1 .. (Len(s) + 1)
    OBVIOUS
<1>2. \A i \in 1 .. Len(s) : Append(s, x)[i] = s[i]
    OBVIOUS
<1>3. Append(s, x)[Len(s) + 1] = x /\ Len(s) \in Nat
    OBVIOUS
<1>4. IdsOf(Append(s, x)) \subseteq IdsOf(s) \cup {x.id}
    BY <1>1, <1>2, <1>3 DEF IdsOf
<1>5. IdsOf(s) \cup {x.id} \subseteq IdsOf(Append(s, x))
    BY <1>1, <1>2, <1>3 DEF IdsOf
<1> QED BY <1>4, <1>5

LEMMA HeadTailIds ==
    ASSUME NEW s \in Seq(Action), s # <<>>
    PROVE  /\ IdsOf(s) \subseteq IdsOf(Tail(s)) \cup {Head(s).id}
           /\ Tail(s) \in Seq(Action)
           /\ Head(s) \in Action
<1>1. Len(s) \in Nat \ {0} /\ DOMAIN s = 1 .. Len(s)
    OBVIOUS
<1>2. Tail(s) \in Seq(Action) /\ Head(s) = s[1] /\ Head(s) \in Action
    OBVIOUS
<1>3. Len(Tail(s)) = Len(s) - 1 /\ DOMAIN Tail(s) = 1 .. (Len(s) - 1)
    OBVIOUS
<1>4. \A i \in 2 .. Len(s) : Tail(s)[i - 1] = s[i] /\ i - 1 \in 1 .. (Len(s) - 1)
    BY <1>1
<1>5. \A i \in DOMAIN s : i = 1 \/ i \in 2 .. Len(s)
    BY <1>1
<1>6. ASSUME NEW i \in DOMAIN s PROVE s[i].id \in IdsOf(Tail(s)) \cup {Head(s).id}
    <2>1. CASE i = 1
        BY <1>2, <2>1
    <2>2. CASE i \in 2 .. Len(s)
        <3>1. i - 1 \in DOMAIN Tail(s) /\ Tail(s)[i - 1].id = s[i].id
            BY <1>3, <1>4, <2>2
        <3> QED BY <3>1 DEF IdsOf
    <2> QED BY <1>5, <2>1, <2>2
<1> QED BY <1>2, <1>6 DEF IdsOf

LEMMA EmptyIds == IdsOf(<<>>) = {}
    BY DEF IdsOf

-----------------------------------------------------------------------------
(* The shapes of the records. *)

LEMMA Shapes ==
    ASSUME DeskAssumption, manner \in Manners
    PROVE  /\ NoCall \in Call /\ NoLoop \in Loop
           /\ NoAction \notin Action
           /\ steady => manner # "any"
    BY DEF NoCall, Call, NoLoop, Loop, NoAction, Action, Ids, DeskAssumption, steady

\* Failing or succeeding, a loop that hears an answer keeps the open taps.
LEMMA HeardKeeps ==
    ASSUME DeskAssumption, IInv, NEW f \in Loops, call[f].phase # "idle",
           NEW succeeded \in BOOLEAN, Heard(f, succeeded)
    PROVE  /\ loop' \in [Loops -> Loop] /\ call' \in [Callers -> Call]
           /\ loop'[f].on
           /\ IdsOf(loop[f].todo) \cup IdsOf(loop[f].rest) \subseteq
                 IdsOf(loop'[f].todo) \cup IdsOf(loop'[f].rest)
                   \cup (IF succeeded THEN {call[f].item.id} ELSE {})
           /\ \A g \in Loops \ {f} : loop'[g] = loop[g] /\ call'[g] = call[g]
           /\ call'[f].phase = "idle" /\ call'[Hand] = call[Hand]
<1> DEFINE l == loop[f]
           kept == KeepFailed(l.rest, Head(l.todo))
<1>1. l \in Loop /\ l.on /\ l.todo # <<>> /\ call[f].item = Head(l.todo)
    BY DEF IInv, TypeOK, CallsMatch
<1>2. l.todo \in Seq(Action) /\ l.rest \in Seq(Action)
    BY <1>1 DEF Loop
<1>3. /\ IdsOf(l.todo) \subseteq IdsOf(Tail(l.todo)) \cup {Head(l.todo).id}
      /\ Tail(l.todo) \in Seq(Action) /\ Head(l.todo) \in Action
    BY <1>1, <1>2, HeadTailIds
<1>4. kept \in Seq(Action) /\ IdsOf(kept) = IdsOf(l.rest) \cup {Head(l.todo).id}
    BY <1>2, <1>3, AppendIds DEF KeepFailed
<1>5. loop' = [loop EXCEPT ![f] = [on |-> TRUE, todo |-> Tail(l.todo),
                                   rest |-> IF succeeded THEN l.rest ELSE kept]]
    BY DEF Heard
<1>6. loop \in [Loops -> Loop] /\ call \in [Callers -> Call] /\ NoCall \in Call
      /\ f \in Callers /\ Hand \in Callers /\ f # Hand
    BY Shapes DEF IInv, TypeOK, Callers, DeskAssumption
<1>7. call' = [call EXCEPT ![f] = NoCall]
    BY DEF Heard
<1>8. [on |-> TRUE, todo |-> Tail(l.todo), rest |-> IF succeeded THEN l.rest ELSE kept]
        \in Loop
    BY <1>2, <1>3, <1>4 DEF Loop
<1>9. /\ loop'[f].todo = Tail(l.todo)
      /\ loop'[f].rest = IF succeeded THEN l.rest ELSE kept
      /\ loop'[f].on
    BY <1>5, <1>6
<1> HIDE DEF l, kept
<1>10. IdsOf(l.todo) \cup IdsOf(l.rest) \subseteq
                 IdsOf(loop'[f].todo) \cup IdsOf(loop'[f].rest)
                   \cup (IF succeeded THEN {call[f].item.id} ELSE {})
    BY <1>1, <1>3, <1>4, <1>9
<1> QED BY <1>5, <1>6, <1>7, <1>8, <1>9, <1>10 DEF l, NoCall, Callers

-----------------------------------------------------------------------------
\* The four parts of the invariant, kept when the parts of the state they speak of
\* do not change.
LEMMA Kept ==
    ASSUME IInv, UNCHANGED <<manner, loop, call, queue, promised, answered>>
    PROVE  CallsMatch' /\ PromiseKeptApart' /\ LoopsCarry'
<1>1. CallsMatch'
    BY DEF IInv, CallsMatch, Action, Ids
<1>2. PromiseKeptApart'
    BY DEF IInv, PromiseKeptApart, PromiseKept, QueueIds
<1>3. LoopsCarry'
    BY DEF IInv, LoopsCarry, Open
<1> QED BY <1>1, <1>2, <1>3

\* A call takes a step at the server: only its phase, and what was seen, change.
LEMMA KeptCall ==
    ASSUME IInv, UNCHANGED <<manner, loop, queue, promised, answered>>,
           NEW c \in Callers, call[c].phase # "idle",
           \A d \in Callers : call'[d].item = call[d].item,
           \A d \in Callers : call'[d].phase # "idle" => call[d].phase # "idle"
    PROVE  CallsMatch' /\ PromiseKeptApart' /\ LoopsCarry'
<1>1. CallsMatch'
    BY DEF IInv, CallsMatch, Action, Ids, Callers
<1>2. PromiseKeptApart'
    BY DEF IInv, PromiseKeptApart, PromiseKept, QueueIds
<1>3. LoopsCarry'
    BY DEF IInv, LoopsCarry, Open
<1> QED BY <1>1, <1>2, <1>3

\* An answer reaches its caller: the invariant's parts about loops and calls, when
\* nothing is answered but, on success, the tap the caller waited for.
LEMMA KeptHeard ==
    ASSUME DeskAssumption, IInv, UNCHANGED <<manner, queue, promised>>,
           NEW f \in Loops, call[f].phase # "idle",
           NEW succeeded \in BOOLEAN, Heard(f, succeeded),
           answered' = IF succeeded THEN answered \cup {call[f].item.id} ELSE answered
    PROVE  /\ CallsMatch' /\ PromiseKeptApart' /\ LoopsCarry'
           /\ loop' \in [Loops -> Loop] /\ call' \in [Callers -> Call]
<1>1. /\ loop' \in [Loops -> Loop] /\ call' \in [Callers -> Call]
      /\ loop'[f].on
      /\ IdsOf(loop[f].todo) \cup IdsOf(loop[f].rest) \subseteq
            IdsOf(loop'[f].todo) \cup IdsOf(loop'[f].rest)
              \cup (IF succeeded THEN {call[f].item.id} ELSE {})
      /\ \A g \in Loops \ {f} : loop'[g] = loop[g] /\ call'[g] = call[g]
      /\ call'[f].phase = "idle" /\ call'[Hand] = call[Hand]
    BY HeardKeeps
<1>2. CallsMatch'
    <2>1. ASSUME NEW c \in Callers, call'[c].phase # "idle"
          PROVE  call'[c] = call[c] /\ call[c].item \in Action
        <3>1. c # f /\ (c \in Loops \/ c = Hand)
            BY <1>1, <2>1 DEF Callers
        <3>2. call'[c] = call[c]
            BY <1>1, <3>1
        <3> QED BY <2>1, <3>2 DEF IInv, CallsMatch
    <2>2. ASSUME NEW g \in Loops, call'[g].phase # "idle"
          PROVE  call'[g] = call[g] /\ loop'[g] = loop[g]
        BY <1>1, <2>2
    <2>3. Action' = Action
        BY DEF Action, Ids
    <2> QED BY <2>1, <2>2, <2>3 DEF IInv, CallsMatch, Callers
<1>3. Open' \subseteq Open
    BY DEF Open
<1>4. PromiseKeptApart'
    BY <1>3 DEF IInv, PromiseKeptApart, PromiseKept, QueueIds, Open
<1>5. LoopsCarry'
    <2> SUFFICES ASSUME manner # "any", NEW g \in Loops, loop'[g].on
                 PROVE  Open' \subseteq IdsOf(loop'[g].todo) \cup IdsOf(loop'[g].rest)
        BY DEF LoopsCarry
    <2>1. CASE g # f
        <3>1. loop'[g] = loop[g]
            BY <1>1, <2>1
        <3> QED BY <1>3, <3>1 DEF IInv, LoopsCarry
    <2>2. CASE g = f
        <3>1. loop[f].on
            BY DEF IInv, CallsMatch
        <3>2. Open \subseteq IdsOf(loop[f].todo) \cup IdsOf(loop[f].rest)
            BY <3>1 DEF IInv, LoopsCarry
        <3>3. succeeded => call[f].item.id \notin Open'
            BY DEF Open
        <3> QED BY <1>1, <1>3, <2>2, <3>2, <3>3
    <2> QED BY <2>1, <2>2
<1> QED BY <1>1, <1>2, <1>4, <1>5

\* The same for any caller that gives up, the hand of the person included.
LEMMA KeptGivesUp ==
    ASSUME DeskAssumption, IInv, UNCHANGED <<manner, queue, promised, answered>>,
           NEW c \in Callers, call[c].phase # "idle", GivesUp(c)
    PROVE  /\ CallsMatch' /\ PromiseKeptApart' /\ LoopsCarry'
           /\ loop' \in [Loops -> Loop] /\ call' \in [Callers -> Call]
<1>1. CASE c # Hand
    <2>1. c \in Loops /\ Heard(c, FALSE)
        BY <1>1 DEF Callers, GivesUp
    <2> QED BY <2>1, KeptHeard
<1>2. CASE c = Hand
    <2> DEFINE tries == call[Hand].tries
    <2>1. loop' = loop /\ call' = [call EXCEPT ![Hand] = IF tries < 2 THEN Again ELSE NoCall]
        BY <1>2 DEF GivesUp
    <2>2. call \in [Callers -> Call] /\ call[Hand] \in Call /\ Hand \in Callers
          /\ NoCall \in Call /\ loop \in [Loops -> Loop]
        BY Shapes DEF IInv, TypeOK, Callers
    <2>3. tries < 2 => Again \in Call /\ Again.item = call[Hand].item
        BY <2>2 DEF Call, Again
    <2>4. call' \in [Callers -> Call]
        BY <2>1, <2>2, <2>3
    <2>5. \A f \in Loops : call'[f] = call[f] /\ f # Hand
        BY <2>1, <2>2 DEF Callers, DeskAssumption
    <2>6. call'[Hand].phase # "idle" => call'[Hand].item = call[Hand].item
        BY <2>1, <2>2, <2>3 DEF NoCall
    <2>7. CallsMatch'
        BY <1>2, <2>1, <2>5, <2>6 DEF IInv, CallsMatch, Callers, Action, Ids
    <2>8. PromiseKeptApart' /\ LoopsCarry'
        BY <2>1 DEF IInv, PromiseKeptApart, PromiseKept, QueueIds, LoopsCarry, Open
    <2> QED BY <2>1, <2>2, <2>4, <2>7, <2>8
<1> QED BY <1>1, <1>2

-----------------------------------------------------------------------------
(* The initial states and the steps. *)

LEMMA Bounds ==
    ASSUME DeskAssumption, manner \in Manners, role \in Roles
    PROVE  MaxTaps[manner] \in Nat /\ MaxDrops[manner][role] \in Nat /\ MaxUpsets \in Nat
    BY DEF DeskAssumption

LEMMA InitInv ==
    ASSUME DeskAssumption, Init
    PROVE  IInv
<1>1. NoCall \in Call /\ NoLoop \in Loop
    BY Shapes DEF Init
<1>2. \A o \in Orders : Listed(o) \in OrderStatus \cup {"NONE"}
    BY DEF Listed, Init, OrderStatus
<1>3. TypeOK
    <2>1. MaxTaps[manner] \in Nat /\ MaxDrops[manner][role] \in Nat /\ MaxUpsets \in Nat
        BY Bounds DEF Init
    <2>2. /\ status \in [Orders -> OrderStatus] /\ holder \in [Orders -> {"me", "other", "none"}]
          /\ effects \in [Ids -> {"none", "once", "again"}]
        BY DEF Init, OrderStatus
    <2>3. /\ shown \in [Orders -> OrderStatus \cup {"NONE"}]
          /\ cached \in [Orders -> OrderStatus \cup {"NONE"}]
        BY <1>2 DEF Init
    <2>4. loop \in [Loops -> Loop] /\ call \in [Callers -> Call] /\ queue \in Seq(Action)
        BY <1>1 DEF Init
    <2>5. /\ taps \in 0 .. MaxTaps[manner] /\ drops \in 0 .. MaxDrops[manner][role]
          /\ upsets \in 0 .. MaxUpsets
        BY <2>1 DEF Init
    <2>6. /\ role \in Roles /\ manner \in Manners
          /\ cool \in BOOLEAN /\ online \in BOOLEAN /\ signedIn \in BOOLEAN
        BY DEF Init
    <2>7. hidden \subseteq Orders /\ promised \subseteq Ids /\ answered \subseteq Ids
        BY DEF Init
    <2> QED BY <2>2, <2>3, <2>4, <2>5, <2>6, <2>7 DEF TypeOK
<1>4. CallsMatch
    BY DEF Init, CallsMatch, NoCall, Callers
<1>5. PromiseKeptApart
    BY DEF Init, PromiseKeptApart, PromiseKept
<1>6. LoopsCarry
    BY DEF Init, LoopsCarry, NoLoop
<1> QED BY <1>3, <1>4, <1>5, <1>6 DEF IInv

\* The sets of the type invariant depend on the manner only, which never changes.
LEMMA Frame ==
    ASSUME UNCHANGED modes
    PROVE  Ids' = Ids /\ Action' = Action /\ Call' = Call /\ Loop' = Loop
           /\ manner' = manner /\ role' = role
<1>1. manner' = manner /\ role' = role
    BY DEF modes
<1>2. Ids' = Ids
    BY <1>1 DEF Ids
<1>3. Action' = Action
    BY <1>2 DEF Action
<1>4. Call' = Call /\ Loop' = Loop
    BY <1>3 DEF Call, Loop, NoAction
<1> QED BY <1>1, <1>2, <1>3, <1>4

LEMMA TapOfflineInv ==
    ASSUME DeskAssumption, IInv, NEW type \in PickerTypes \cup CourierTypes,
           NEW o \in Orders, TapOffline(type, o)
    PROVE  IInv'
<1> DEFINE tap == NextAction(type, o)
<1>1. Ids' = Ids /\ Action' = Action /\ Call' = Call /\ Loop' = Loop
      /\ manner' = manner /\ role' = role
    BY Frame DEF TapOffline
<1>2. taps + 1 \in Ids /\ taps + 1 \in 0 .. MaxTaps[manner]
    <2>1. MaxTaps[manner] \in Nat
        BY Bounds DEF IInv, TypeOK
    <2>2. taps \in 0 .. MaxTaps[manner] /\ taps < MaxTaps[manner]
        BY DEF IInv, TypeOK, TapOffline
    <2> QED BY <2>1, <2>2 DEF Ids
<1>3. tap \in Action /\ tap.id = taps + 1
    BY <1>2 DEF Action, NextAction
<1>4. queue' \in Seq(Action) /\ IdsOf(queue') = IdsOf(queue) \cup {taps + 1}
    BY <1>3, AppendIds DEF TapOffline, IInv, TypeOK
<1>5. shown' \in [Orders -> OrderStatus \cup {"NONE"}]
    BY DEF TapOffline, IInv, TypeOK, Optimistic, OrderStatus
<1>6. TypeOK'
    BY <1>1, <1>2, <1>4, <1>5 DEF TapOffline, IInv, TypeOK, serverVars
<1>7. CallsMatch'
    BY <1>1 DEF TapOffline, IInv, CallsMatch
<1>8. Open' \subseteq Open \cup {taps + 1}
    BY DEF TapOffline, Open
<1>9. PromiseKeptApart'
    BY <1>1, <1>4, <1>8
       DEF IInv, PromiseKeptApart, PromiseKept, QueueIds, Open, IdsOf
<1>10. LoopsCarry'
    <2>1. CASE manner = "any"
        BY <1>1, <2>1 DEF LoopsCarry
    <2>2. CASE manner = "apart"
        BY <1>1, <2>2 DEF LoopsCarry, TapOffline, Running
    <2>3. CASE manner = "steady"
        BY <1>1, <2>3 DEF LoopsCarry, TapOffline, Running, Quiet, steady
    <2> QED BY <2>1, <2>2, <2>3 DEF IInv, TypeOK, DeskAssumption
<1> QED BY <1>6, <1>7, <1>9, <1>10 DEF IInv

LEMMA TapOnlineInv ==
    ASSUME DeskAssumption, IInv, NEW type \in PickerTypes \cup CourierTypes,
           NEW o \in Orders, TapOnline(type, o)
    PROVE  IInv'
<1> DEFINE tap == NextAction(type, o)
<1>1. Ids' = Ids /\ Action' = Action /\ Call' = Call /\ Loop' = Loop
      /\ manner' = manner /\ role' = role
    BY Frame DEF TapOnline
<1>2. taps + 1 \in Ids /\ taps + 1 \in 0 .. MaxTaps[manner]
    <2>1. MaxTaps[manner] \in Nat
        BY Bounds DEF IInv, TypeOK
    <2>2. taps \in 0 .. MaxTaps[manner] /\ taps < MaxTaps[manner]
        BY DEF IInv, TypeOK, TapOnline
    <2> QED BY <2>1, <2>2 DEF Ids
<1>3. tap \in Action
    BY <1>2 DEF Action, NextAction
<1>4. NewCall(tap) \in Call /\ NewCall(tap).item = tap
    BY <1>3 DEF Call, NewCall
<1>5. Hand \in Callers /\ \A f \in Loops : f # Hand
    BY DEF Callers, DeskAssumption
<1>6. /\ call' = [call EXCEPT ![Hand] = NewCall(tap)]
      /\ call \in [Callers -> Call]
    BY DEF TapOnline, IInv, TypeOK
<1>7. call' \in [Callers -> Call] /\ \A c \in Callers \ {Hand} : call'[c] = call[c]
    BY <1>4, <1>5, <1>6
<1>8. call'[Hand].item \in Action
    BY <1>3, <1>4, <1>5, <1>6
<1>9. shown' \in [Orders -> OrderStatus \cup {"NONE"}]
    BY DEF TapOnline, IInv, TypeOK, Optimistic, OrderStatus
<1>10. TypeOK'
    BY <1>1, <1>2, <1>7, <1>9 DEF TapOnline, IInv, TypeOK, serverVars, history
<1>11. CallsMatch'
    BY <1>1, <1>5, <1>7, <1>8 DEF TapOnline, IInv, CallsMatch, Callers
<1>12. PromiseKeptApart' /\ LoopsCarry'
    BY <1>1 DEF TapOnline, history, IInv, PromiseKeptApart, PromiseKept, QueueIds,
                LoopsCarry, Open
<1> QED BY <1>10, <1>11, <1>12 DEF IInv

\* Steps of the phone and of the others that leave queue, loops and calls alone.
LEMMA LoadCachedInv ==
    ASSUME DeskAssumption, IInv, LoadCached
    PROVE  IInv'
<1>1. /\ UNCHANGED <<manner, loop, call, queue, promised, answered>>
      /\ UNCHANGED modes
    BY DEF LoadCached, modes, history, serverVars
<1>2. CallsMatch' /\ PromiseKeptApart' /\ LoopsCarry'
    BY <1>1, Kept
<1>3. Ids' = Ids /\ Action' = Action /\ Call' = Call /\ Loop' = Loop
      /\ manner' = manner /\ role' = role
    BY <1>1, Frame
<1>4. TypeOK /\ MaxDrops[manner][role] \in Nat /\ MaxUpsets \in Nat
    BY Bounds DEF IInv, TypeOK
<1>5. TypeOK'
    <2>1. shown' = cached /\ upsets' \in 0 .. MaxUpsets
        BY <1>4 DEF TypeOK, LoadCached
    <2> QED BY <1>3, <1>4, <2>1 DEF TypeOK, LoadCached, serverVars, history
<1> QED BY <1>2, <1>5 DEF IInv

LEMMA GoOfflineInv ==
    ASSUME DeskAssumption, IInv, GoOffline
    PROVE  IInv'
<1>1. /\ UNCHANGED <<manner, loop, call, queue, promised, answered>>
      /\ UNCHANGED modes
    BY DEF GoOffline, modes, pageVars, history
<1>2. CallsMatch' /\ PromiseKeptApart' /\ LoopsCarry'
    BY <1>1, Kept
<1>3. Ids' = Ids /\ Action' = Action /\ Call' = Call /\ Loop' = Loop
      /\ manner' = manner /\ role' = role
    BY <1>1, Frame
<1>4. TypeOK /\ MaxDrops[manner][role] \in Nat /\ MaxUpsets \in Nat
    BY Bounds DEF IInv, TypeOK
<1>5. TypeOK'
    <2>1. drops \in 0 .. MaxDrops[manner][role]
        BY <1>4 DEF TypeOK
    <2>2. drops' = drops + 1 /\ drops < MaxDrops[manner][role] /\ online' = FALSE
        BY DEF GoOffline
    <2>3. drops' \in 0 .. MaxDrops[manner][role]
        BY <1>4, <2>1, <2>2
    <2> QED BY <1>3, <1>4, <2>2, <2>3 DEF TypeOK, GoOffline, serverVars, pageVars, history
<1> QED BY <1>2, <1>5 DEF IInv

LEMMA SwitchInv ==
    ASSUME DeskAssumption, IInv, GoOnline \/ SignIn \/ CooldownEnds
    PROVE  IInv'
<1>1. /\ UNCHANGED <<manner, loop, call, queue, promised, answered>>
      /\ UNCHANGED modes
    BY DEF GoOnline, SignIn, CooldownEnds, modes, pageVars, history
<1>2. CallsMatch' /\ PromiseKeptApart' /\ LoopsCarry'
    BY <1>1, Kept
<1>3. Ids' = Ids /\ Action' = Action /\ Call' = Call /\ Loop' = Loop
      /\ manner' = manner /\ role' = role
    BY <1>1, Frame
<1>4. TypeOK /\ MaxDrops[manner][role] \in Nat /\ MaxUpsets \in Nat
    BY Bounds DEF IInv, TypeOK
<1>5. TypeOK'
    <2>1. /\ online' \in BOOLEAN /\ signedIn' \in BOOLEAN /\ cool' \in BOOLEAN
          /\ UNCHANGED <<status, holder, hidden, pageVars, bounds, history>>
        BY <1>4 DEF GoOnline, SignIn, CooldownEnds, TypeOK, serverVars
    <2> QED BY <1>1, <1>3, <1>4, <2>1 DEF TypeOK, pageVars, bounds, history
<1> QED BY <1>2, <1>5 DEF IInv

LEMMA OthersInv ==
    ASSUME DeskAssumption, IInv, NEW o \in Orders, HideEnds(o) \/ OthersMove(o)
    PROVE  IInv'
<1>1. /\ UNCHANGED <<manner, loop, call, queue, promised, answered>>
      /\ UNCHANGED modes
    BY DEF HideEnds, OthersMove, modes, pageVars, history
<1>2. CallsMatch' /\ PromiseKeptApart' /\ LoopsCarry'
    BY <1>1, Kept
<1>3. Ids' = Ids /\ Action' = Action /\ Call' = Call /\ Loop' = Loop
      /\ manner' = manner /\ role' = role
    BY <1>1, Frame
<1>4. TypeOK /\ MaxDrops[manner][role] \in Nat /\ MaxUpsets \in Nat
    BY Bounds DEF IInv, TypeOK
<1>5. TypeOK'
    <2>1. /\ status' \in [Orders -> OrderStatus]
          /\ holder' \in [Orders -> {"me", "other", "none"}]
        <3>1. status \in [Orders -> OrderStatus] /\ holder \in [Orders -> {"me", "other", "none"}]
            BY <1>4 DEF TypeOK
        <3>2. \/ UNCHANGED status
              \/ \E s \in {"PICKING", "DELIVERING", "CANCELLED"} :
                    status' = [status EXCEPT ![o] = s]
            BY DEF HideEnds, OthersMove
        <3>3. UNCHANGED holder \/ holder' = [holder EXCEPT ![o] = "other"]
            BY DEF HideEnds, OthersMove
        <3> QED BY <3>1, <3>2, <3>3 DEF OrderStatus
    <2>2. upsets' \in 0 .. MaxUpsets /\ hidden' \subseteq Orders
        BY <1>4 DEF TypeOK, HideEnds, OthersMove
    <2>3. UNCHANGED <<cool, online, signedIn, pageVars, taps, drops, history>>
        BY DEF HideEnds, OthersMove
    <2> QED BY <1>1, <1>3, <1>4, <2>1, <2>2, <2>3 DEF TypeOK, pageVars, history
<1> QED BY <1>2, <1>5 DEF IInv

\* The page is left: no loop and no call is left to carry anything.
LEMMA LeaveInv ==
    ASSUME DeskAssumption, IInv, Reload \/ SessionExpires
    PROVE  IInv'
<1>1. /\ UNCHANGED <<manner, queue, promised, answered>> /\ UNCHANGED modes
      /\ loop' = [f \in Loops |-> NoLoop] /\ call' = [c \in Callers |-> NoCall]
    BY DEF Reload, SessionExpires, Leave, modes, history
<1>2. Ids' = Ids /\ Action' = Action /\ Call' = Call /\ Loop' = Loop
      /\ manner' = manner /\ role' = role
    BY <1>1, Frame
<1>3. TypeOK /\ NoCall \in Call /\ NoLoop \in Loop
    BY Shapes DEF IInv, TypeOK
<1>4. loop' \in [Loops -> Loop'] /\ call' \in [Callers -> Call']
    BY <1>1, <1>2, <1>3
<1>5. upsets' \in 0 .. MaxUpsets
    BY <1>3, Bounds DEF Reload, SessionExpires, Leave, TypeOK
<1>6. shown' \in [Orders -> OrderStatus \cup {"NONE"}]
    BY DEF Reload, SessionExpires
<1>7. signedIn' \in BOOLEAN /\ UNCHANGED <<serverVars, online, cached, taps, drops, history>>
    BY <1>3 DEF Reload, SessionExpires, TypeOK
<1>8. TypeOK'
    BY <1>1, <1>2, <1>3, <1>4, <1>5, <1>6, <1>7 DEF TypeOK, serverVars, history
<1>9. CallsMatch'
    BY <1>1 DEF CallsMatch, NoCall, Callers
<1>10. PromiseKeptApart'
    BY <1>1 DEF IInv, PromiseKeptApart, PromiseKept, QueueIds
<1>11. LoopsCarry'
    BY <1>1 DEF LoopsCarry, NoLoop
<1> QED BY <1>8, <1>9, <1>10, <1>11 DEF IInv

\* A load starts a loop with the whole queue, which holds every open tap.
LEMMA LoadInv ==
    ASSUME DeskAssumption, IInv, NEW f \in Loops, Load(f)
    PROVE  IInv'
<1>1. /\ UNCHANGED <<manner, queue, promised, answered, call>> /\ UNCHANGED modes
      /\ loop' = IF queue = <<>> THEN loop ELSE Started(f, queue)
      /\ ~loop[f].on
    BY DEF Load, modes, history
<1>2. Ids' = Ids /\ Action' = Action /\ Call' = Call /\ Loop' = Loop
      /\ manner' = manner /\ role' = role
    BY <1>1, Frame
<1>3. TypeOK /\ queue \in Seq(Action) /\ loop \in [Loops -> Loop]
    BY DEF IInv, TypeOK
<1> DEFINE new == [on |-> TRUE, todo |-> queue, rest |-> <<>>]
<1>4. new \in Loop
    BY <1>3 DEF Loop
<1>5. loop' = loop \/ loop' = [loop EXCEPT ![f] = new]
    BY <1>1 DEF Started
<1>6. loop' \in [Loops -> Loop] /\ \A g \in Loops : g # f => loop'[g] = loop[g]
    BY <1>3, <1>4, <1>5
<1>7. \A o \in Orders : Listed(o) \in OrderStatus \cup {"NONE"}
    BY <1>3 DEF Listed, TypeOK
<1>8. shown' \in [Orders -> OrderStatus \cup {"NONE"}] /\ cached' = shown'
    BY <1>7 DEF Load
<1>9. TypeOK'
    BY <1>1, <1>2, <1>3, <1>6, <1>8 DEF Load, TypeOK, serverVars, bounds, history
<1>10. call[f].phase = "idle"
    BY <1>1 DEF IInv, CallsMatch
<1>11. CallsMatch'
    BY <1>1, <1>2, <1>6, <1>10 DEF IInv, CallsMatch
<1>12. PromiseKeptApart'
    BY <1>1 DEF IInv, PromiseKeptApart, PromiseKept, QueueIds
<1>13. LoopsCarry'
    <2> SUFFICES ASSUME manner # "any", NEW g \in Loops, loop'[g].on
                 PROVE  Open' \subseteq IdsOf(loop'[g].todo) \cup IdsOf(loop'[g].rest)
        BY <1>2 DEF LoopsCarry
    <2>1. Open' = Open
        BY <1>1 DEF Open
    <2>2. CASE loop'[g] = loop[g]
        BY <2>1, <2>2 DEF IInv, LoopsCarry
    <2>3. CASE loop'[g] # loop[g]
        <3>1. g = f /\ loop'[f] = new
            BY <1>3, <1>5, <1>6, <2>3
        <3>2. Open \subseteq IdsOf(queue)
            BY DEF IInv, PromiseKeptApart, PromiseKept, QueueIds, IdsOf, Open
        <3> QED BY <2>1, <3>1, <3>2
    <2> QED BY <2>2, <2>3
<1> QED BY <1>9, <1>11, <1>12, <1>13 DEF IInv

\* A loop sends the first of what it has to send.
LEMMA SendNextInv ==
    ASSUME DeskAssumption, IInv, NEW f \in Loops, SendNext(f)
    PROVE  IInv'
<1>1. /\ UNCHANGED <<manner, queue, promised, answered, loop>> /\ UNCHANGED modes
      /\ call' = [call EXCEPT ![f] = NewCall(Head(loop[f].todo))]
      /\ loop[f].on /\ loop[f].todo # <<>>
    BY DEF SendNext, modes, pageVars, history
<1>2. Ids' = Ids /\ Action' = Action /\ Call' = Call /\ Loop' = Loop
      /\ manner' = manner /\ role' = role
    BY <1>1, Frame
<1>3. TypeOK /\ call \in [Callers -> Call] /\ f \in Callers /\ loop[f].todo \in Seq(Action)
    BY DEF IInv, TypeOK, Callers, Loop
<1>4. Head(loop[f].todo) \in Action
    BY <1>1, <1>3, HeadTailIds
<1>5. NewCall(Head(loop[f].todo)) \in Call
      /\ NewCall(Head(loop[f].todo)).item = Head(loop[f].todo)
    BY <1>4 DEF NewCall, Call
<1>6. call' \in [Callers -> Call] /\ call'[f].item = Head(loop[f].todo)
      /\ \A c \in Callers : c # f => call'[c] = call[c]
    BY <1>1, <1>3, <1>5
<1>7. TypeOK'
    BY <1>1, <1>2, <1>3, <1>6 DEF SendNext, TypeOK, serverVars, bounds, history, pageVars
<1>8. CallsMatch'
    BY <1>1, <1>2, <1>4, <1>6 DEF IInv, CallsMatch, Callers
<1>9. PromiseKeptApart' /\ LoopsCarry'
    BY <1>1 DEF IInv, PromiseKeptApart, PromiseKept, QueueIds, LoopsCarry, Open
<1> QED BY <1>7, <1>8, <1>9 DEF IInv

\* A loop that ends has sent everything, so what it kept holds every open tap.
LEMMA LoopEndsInv ==
    ASSUME DeskAssumption, IInv, NEW f \in Loops, LoopEnds(f)
    PROVE  IInv'
<1>1. /\ UNCHANGED <<manner, promised, answered, call>> /\ UNCHANGED modes
      /\ loop' = [loop EXCEPT ![f] = NoLoop]
      /\ queue' = loop[f].rest
      /\ loop[f].on /\ loop[f].todo = <<>>
    BY DEF LoopEnds, modes, history
<1>2. Ids' = Ids /\ Action' = Action /\ Call' = Call /\ Loop' = Loop
      /\ manner' = manner /\ role' = role
    BY <1>1, Frame
<1>3. TypeOK /\ loop \in [Loops -> Loop] /\ loop[f].rest \in Seq(Action) /\ NoLoop \in Loop
    BY Shapes DEF IInv, TypeOK, Loop
<1>4. loop' \in [Loops -> Loop] /\ ~loop'[f].on
      /\ \A g \in Loops : g # f => loop'[g] = loop[g]
    BY <1>1, <1>3 DEF NoLoop
<1>5. TypeOK'
    BY <1>1, <1>2, <1>3, <1>4 DEF LoopEnds, TypeOK, serverVars, bounds, history
<1>6. call[f].phase = "idle"
    BY <1>1 DEF IInv, CallsMatch
<1>7. CallsMatch'
    BY <1>1, <1>2, <1>4, <1>6 DEF IInv, CallsMatch
<1>8. Open' = Open
    BY <1>1 DEF Open
<1>9. PromiseKeptApart'
    <2> SUFFICES ASSUME manner # "any" PROVE Open \subseteq IdsOf(queue')
        BY <1>2, <1>8 DEF PromiseKeptApart, PromiseKept, QueueIds, IdsOf, Open
    <2>1. Open \subseteq IdsOf(<<>>) \cup IdsOf(loop[f].rest)
        BY <1>1 DEF IInv, LoopsCarry
    <2> QED BY <1>1, <2>1, EmptyIds
<1>10. LoopsCarry'
    BY <1>2, <1>4, <1>8 DEF IInv, LoopsCarry
<1> QED BY <1>5, <1>7, <1>9, <1>10 DEF IInv

\* The steps of a call: at the server, and back at its caller.
LEMMA CallStepInv ==
    ASSUME DeskAssumption, IInv, NEW c \in Callers, CallStep(c) \/ LoseAnswer(c)
    PROVE  IInv'
<1>1. TypeOK /\ UNCHANGED modes /\ UNCHANGED <<queue, promised, shown, cached, taps, drops>>
      /\ UNCHANGED <<online, signedIn>>
    BY DEF IInv, CallStep, LoseAnswer, ServerReads, ServerWrites, ServerRejects, Answer,
           Succeeds, Refused, Unsent, pageVars, bounds, history
<1>2. Ids' = Ids /\ Action' = Action /\ Call' = Call /\ Loop' = Loop
      /\ manner' = manner /\ role' = role
    BY <1>1, Frame
<1>3. call \in [Callers -> Call] /\ call[c] \in Call
    BY <1>1 DEF TypeOK
<1>4. ASSUME NEW r \in Call, call' = [call EXCEPT ![c] = r], r.item = call[c].item,
             call[c].phase # "idle", UNCHANGED <<loop, answered>>
      PROVE  /\ CallsMatch' /\ PromiseKeptApart' /\ LoopsCarry'
             /\ call' \in [Callers -> Call]
    <2>1. /\ call' \in [Callers -> Call]
          /\ \A d \in Callers : call'[d].item = call[d].item
          /\ \A d \in Callers : call'[d].phase # "idle" => call[d].phase # "idle"
        BY <1>3, <1>4
    <2> QED BY <1>1, <1>2, <1>4, <2>1, KeptCall
<1>5. CASE ServerReads(c)
    <2> DEFINE r == [phase |-> IF Admits(call[c].item) THEN "checked" ELSE "refused",
                     item |-> call[c].item, tries |-> call[c].tries,
                     seen |-> IF call[c].item.type = "reject"
                              THEN status[call[c].item.order] ELSE "NONE"]
    <2>1. call[c].phase # "idle" /\ call' = [call EXCEPT ![c] = r] /\ r.item = call[c].item
          /\ UNCHANGED <<serverVars, pageVars, bounds, history>>
        BY <1>5 DEF ServerReads
    <2>2. call[c].item \in Action
        BY <2>1 DEF IInv, CallsMatch
    <2>3. r.seen \in OrderStatus \cup {"NONE"}
        BY <1>1, <2>2 DEF TypeOK, Action
    <2>4. r.phase \in {"checked", "refused"}
        OBVIOUS
    <2> HIDE DEF r
    <2>5. r \in Call
        <3>1. r = [phase |-> r.phase, item |-> call[c].item, tries |-> call[c].tries,
                   seen |-> r.seen]
            BY DEF r
        <3> QED BY <1>3, <2>3, <2>4, <3>1 DEF Call
    <2>6. CallsMatch' /\ PromiseKeptApart' /\ LoopsCarry' /\ call' \in [Callers -> Call]
        BY <1>4, <2>1, <2>5 DEF pageVars, history
    <2>7. TypeOK'
        BY <1>1, <1>2, <2>1, <2>6 DEF TypeOK, serverVars, pageVars, bounds, history
    <2> QED BY <2>6, <2>7 DEF IInv
<1>6. CASE ServerWrites(c) \/ ServerRejects(c)
    <2> DEFINE r == [phase |-> "ok", item |-> call[c].item,
                     seen |-> call[c].seen, tries |-> call[c].tries]
    <2>1. call[c].phase # "idle" /\ Answer(c)
        BY <1>6 DEF ServerWrites, ServerRejects
    <2>2. call' = [call EXCEPT ![c] = r] /\ r.item = call[c].item
          /\ UNCHANGED <<loop, answered, upsets>>
        BY <2>1 DEF Answer, pageVars, bounds
    <2>3. r \in Call
        BY <1>3 DEF Call
    <2> HIDE DEF r
    <2>4. CallsMatch' /\ PromiseKeptApart' /\ LoopsCarry' /\ call' \in [Callers -> Call]
        BY <1>4, <2>1, <2>2, <2>3
    <2>5. call[c].item \in Action
        BY <2>1 DEF IInv, CallsMatch
    <2>6. effects' \in [Ids -> {"none", "once", "again"}]
        BY <1>1, <2>1, <2>5 DEF Answer, TypeOK, Action
    <2>7. /\ status' \in [Orders -> OrderStatus]
          /\ holder' \in [Orders -> {"me", "other", "none"}]
        <3>1. CASE ServerWrites(c)
            <4>1. call[c].item.type \in {"start", "ready", "accept", "complete"}
                BY <2>5, <3>1 DEF ServerWrites, Action, PickerTypes, CourierTypes
            <4>2. To(call[c].item.type) \in OrderStatus
                BY <4>1 DEF To, OrderStatus
            <4> QED BY <1>1, <4>2, <3>1 DEF ServerWrites, TypeOK
        <3>2. CASE ServerRejects(c)
            <4>1. \/ status' = status /\ holder' = holder
                  \/ \E o \in Orders : /\ status' = [status EXCEPT ![o] = "READY"]
                                       /\ holder' = [holder EXCEPT ![o] = "none"]
                BY <2>5, <3>2 DEF ServerRejects, Action
            <4>2. /\ status \in [Orders -> OrderStatus]
                  /\ holder \in [Orders -> {"me", "other", "none"}]
                BY <1>1 DEF TypeOK
            <4>3. "READY" \in OrderStatus
                BY DEF OrderStatus
            <4>4. status' \in [Orders -> OrderStatus]
                BY <4>1, <4>2, <4>3
            <4>5. holder' \in [Orders -> {"me", "other", "none"}]
                BY <4>1, <4>2
            <4> QED BY <4>4, <4>5
        <3> QED BY <1>6, <3>1, <3>2
    <2>8. hidden' \subseteq Orders /\ cool' \in BOOLEAN
        BY <1>1, <1>6, <2>5 DEF ServerWrites, ServerRejects, TypeOK, Action
    <2>9. TypeOK'
        BY <1>1, <1>2, <2>2, <2>4, <2>6, <2>7, <2>8 DEF TypeOK
    <2> QED BY <2>4, <2>9 DEF IInv
<1>7. CASE Succeeds(c)
    <2>1. /\ call[c].phase = "ok" /\ call[c].item \in Action
          /\ answered' = answered \cup {call[c].item.id}
          /\ UNCHANGED <<serverVars, upsets, effects>>
        BY <1>7 DEF Succeeds, IInv, CallsMatch, bounds
    <2>2. answered' \subseteq Ids
        BY <1>1, <2>1 DEF TypeOK, Action
    <2>3. CASE c = Hand
        <3>1. call' = [call EXCEPT ![Hand] = NoCall] /\ loop' = loop
              /\ UNCHANGED <<queue, promised>>
            BY <1>7, <2>3 DEF Succeeds
        <3>2. NoCall \in Call /\ Hand \in Callers /\ \A f \in Loops : f # Hand
            BY <1>1, Shapes DEF TypeOK, Callers, DeskAssumption
        <3>3. call' \in [Callers -> Call] /\ call'[Hand].phase = "idle"
              /\ \A d \in Callers : d # Hand => call'[d] = call[d]
            BY <1>3, <3>1, <3>2 DEF NoCall
        <3>4. CallsMatch'
            BY <1>2, <3>1, <3>2, <3>3 DEF IInv, CallsMatch, Callers
        <3>5. Open' \subseteq Open
            BY <2>1, <3>1 DEF Open
        <3>6. PromiseKeptApart' /\ LoopsCarry'
            BY <1>2, <3>1, <3>5
               DEF IInv, PromiseKeptApart, PromiseKept, QueueIds, LoopsCarry, Open
        <3>7. TypeOK'
            BY <1>1, <1>2, <2>1, <2>2, <3>1, <3>3 DEF TypeOK, serverVars
        <3> QED BY <3>4, <3>6, <3>7 DEF IInv
    <2>4. CASE c # Hand
        <3>1. c \in Loops /\ Heard(c, TRUE) /\ UNCHANGED <<manner, queue, promised>>
            BY <1>7, <1>2, <2>4, <1>1 DEF Succeeds, Callers
        <3>2. CallsMatch' /\ PromiseKeptApart' /\ LoopsCarry'
              /\ loop' \in [Loops -> Loop] /\ call' \in [Callers -> Call]
            BY <2>1, <3>1, KeptHeard
        <3>3. TypeOK'
            BY <1>1, <1>2, <2>1, <2>2, <3>2 DEF TypeOK, serverVars
        <3> QED BY <3>2, <3>3 DEF IInv
    <2> QED BY <2>3, <2>4
<1>8. CASE Refused(c) \/ Unsent(c) \/ LoseAnswer(c)
    <2>1. /\ call[c].phase # "idle" /\ GivesUp(c)
          /\ UNCHANGED <<serverVars, manner, queue, promised, answered, effects>>
        BY <1>8, <1>2 DEF Refused, Unsent, LoseAnswer, history
    <2>2. upsets' \in 0 .. MaxUpsets
        BY <1>1, <1>8, Bounds DEF Refused, Unsent, LoseAnswer, TypeOK, bounds
    <2>3. CallsMatch' /\ PromiseKeptApart' /\ LoopsCarry'
          /\ loop' \in [Loops -> Loop] /\ call' \in [Callers -> Call]
        BY <2>1, KeptGivesUp
    <2>4. TypeOK'
        BY <1>1, <1>2, <2>1, <2>2, <2>3 DEF TypeOK, serverVars
    <2> QED BY <2>3, <2>4 DEF IInv
<1> QED BY <1>5, <1>6, <1>7, <1>8 DEF CallStep

LEMMA NextInv ==
    ASSUME DeskAssumption, IInv, [Next]_vars
    PROVE  IInv'
<1>1. CASE Tap
    BY <1>1, TapOfflineInv, TapOnlineInv DEF Tap
<1>2. ASSUME NEW f \in Loops, Load(f) \/ LoopStep(f) PROVE IInv'
    BY <1>2, LoadInv, SendNextInv, LoopEndsInv DEF LoopStep
<1>3. ASSUME NEW c \in Callers, CallStep(c) \/ LoseAnswer(c) PROVE IInv'
    BY <1>3, CallStepInv
<1>4. ASSUME LoadCached \/ GoOffline \/ GoOnline \/ SignIn \/ CooldownEnds PROVE IInv'
    BY <1>4, LoadCachedInv, GoOfflineInv, SwitchInv
<1>5. CASE Reload \/ SessionExpires
    BY <1>5, LeaveInv
<1>7. ASSUME NEW o \in Orders, HideEnds(o) \/ OthersMove(o) PROVE IInv'
    BY <1>7, OthersInv
<1>6. CASE UNCHANGED vars
    <2>1. UNCHANGED <<manner, loop, call, queue, promised, answered>> /\ UNCHANGED modes
        BY <1>6 DEF vars, modes, pageVars, history
    <2>2. CallsMatch' /\ PromiseKeptApart' /\ LoopsCarry'
        BY <2>1, Kept
    <2>3. Ids' = Ids /\ Action' = Action /\ Call' = Call /\ Loop' = Loop
        BY <2>1, Frame
    <2>4. TypeOK'
        BY <1>6, <2>3
           DEF IInv, TypeOK, vars, modes, serverVars, pageVars, bounds, history
    <2> QED BY <2>2, <2>4 DEF IInv
<1> QED BY <1>1, <1>2, <1>3, <1>4, <1>5, <1>6, <1>7 DEF Next

\* The state of the phone and of the orders stays of its type.
THEOREM TypeCorrect == Spec => []TypeOK
<1>1. Init => IInv
    BY InitInv, DeskAssumption
<1>2. IInv /\ [Next]_vars => IInv'
    BY NextInv, DeskAssumption
<1>3. IInv => TypeOK
    BY DEF IInv
<1> QED BY <1>1, <1>2, <1>3, PTL DEF Spec

\* A tap that was told "will be sent when online" stays in the queue until its call
\* succeeded, through failed sends, overlapping loops, lost answers, reloads and
\* expired sessions, as long as nothing is queued while a loop replays the queue.
THEOREM PromiseHolds == Spec => []PromiseKeptApart
<1>1. Init => IInv
    BY InitInv, DeskAssumption
<1>2. IInv /\ [Next]_vars => IInv'
    BY NextInv, DeskAssumption
<1>3. IInv => PromiseKeptApart
    BY DEF IInv
<1> QED BY <1>1, <1>2, <1>3, PTL DEF Spec
-----------------------------------------------------------------------------
(* A steady visit *)

Distinct(s) == \A i, j \in DOMAIN s : s[i].id = s[j].id => i = j
Undone(i) == effects[i] = "none"

\* Either one loop is at work, or a tap that was sent at once, or nobody.
OneAtATime ==
    /\ \A f, g \in Running : f = g
    /\ Busy(Hand) => Running = {}

\* No tap is listed twice, in the queue or in the two lists of the loop.
EachListedOnce ==
    /\ Distinct(queue) /\ IdsOf(queue) \subseteq 1 .. taps
    /\ \A f \in Running :
          /\ Distinct(loop[f].todo) /\ Distinct(loop[f].rest)
          /\ IdsOf(loop[f].todo) \cap IdsOf(loop[f].rest) = {}
          /\ IdsOf(loop[f].todo) \cup IdsOf(loop[f].rest) \subseteq 1 .. taps
    /\ Busy(Hand) => call[Hand].item.id \in (1 .. taps) \ IdsOf(queue)

\* What is still to be sent was not carried out, but for the tap whose answer is out.
EachDoneOnce ==
    /\ \A i \in Ids : effects[i] # "again" /\ (i > taps => Undone(i))
    /\ Running = {} => \A i \in IdsOf(queue) : Undone(i)
    /\ \A f \in Running :
          /\ \A i \in IdsOf(loop[f].rest) : Undone(i)
          /\ \A i \in IdsOf(loop[f].todo) :
                Undone(i) \/ (call[f].phase = "ok" /\ i = call[f].item.id)
    /\ Busy(Hand) /\ call[Hand].phase # "ok" => Undone(call[Hand].item.id)

\* A rejection that passed the checks did so without a cooldown, and none began since.
CoolIfChecked ==
    \A c \in Callers : call[c].phase = "checked" /\ call[c].item.type = "reject" => ~cool

SteadyInv == steady => OneAtATime /\ EachListedOnce /\ EachDoneOnce /\ CoolIfChecked

\* A new tap behind a list without repetitions, and a list without its head.
LEMMA AppendDistinct ==
    ASSUME NEW s \in Seq(Action), NEW x \in Action, Distinct(s), x.id \notin IdsOf(s)
    PROVE  Distinct(Append(s, x))
<1>1. DOMAIN s = 1 .. Len(s) /\ DOMAIN Append(s, x) = 1 .. (Len(s) + 1) /\ Len(s) \in Nat
    OBVIOUS
<1>2. \A i \in 1 .. Len(s) : Append(s, x)[i] = s[i] /\ s[i].id \in IdsOf(s)
    BY <1>1 DEF IdsOf
<1>3. Append(s, x)[Len(s) + 1] = x
    OBVIOUS
<1> SUFFICES ASSUME NEW i \in 1 .. (Len(s) + 1), NEW j \in 1 .. (Len(s) + 1),
                    Append(s, x)[i].id = Append(s, x)[j].id
             PROVE  i = j
    BY <1>1 DEF Distinct
<1>4. CASE i \in 1 .. Len(s) /\ j \in 1 .. Len(s)
    BY <1>1, <1>2, <1>4 DEF Distinct
<1>5. CASE i = Len(s) + 1 /\ j \in 1 .. Len(s)
    BY <1>2, <1>3, <1>5
<1>6. CASE j = Len(s) + 1 /\ i \in 1 .. Len(s)
    BY <1>2, <1>3, <1>6
<1> QED BY <1>1, <1>4, <1>5, <1>6

LEMMA TailDistinct ==
    ASSUME NEW s \in Seq(Action), s # <<>>, Distinct(s)
    PROVE  /\ Distinct(Tail(s)) /\ Tail(s) \in Seq(Action) /\ Head(s) \in Action
           /\ IdsOf(Tail(s)) \subseteq IdsOf(s) /\ Head(s).id \in IdsOf(s)
           /\ Head(s).id \notin IdsOf(Tail(s))
<1>1. Len(s) \in Nat \ {0} /\ DOMAIN s = 1 .. Len(s) /\ Head(s) = s[1]
      /\ Tail(s) \in Seq(Action) /\ Head(s) \in Action
    OBVIOUS
<1>2. DOMAIN Tail(s) = 1 .. (Len(s) - 1)
    OBVIOUS
<1>3. \A i \in DOMAIN Tail(s) : Tail(s)[i] = s[i + 1] /\ i + 1 \in DOMAIN s /\ i + 1 # 1
    BY <1>1, <1>2
<1>4. 1 \in DOMAIN s
    BY <1>1
<1>5. Distinct(Tail(s))
    BY <1>1, <1>2, <1>3 DEF Distinct
<1>6. IdsOf(Tail(s)) \subseteq IdsOf(s) /\ Head(s).id \in IdsOf(s)
    BY <1>1, <1>3, <1>4 DEF IdsOf
<1>7. ASSUME NEW i \in DOMAIN Tail(s), Tail(s)[i].id = Head(s).id PROVE FALSE
    BY <1>1, <1>3, <1>4, <1>7 DEF Distinct
<1> QED BY <1>1, <1>5, <1>6, <1>7 DEF IdsOf

\* The one that is at work, and that nobody else is.
LEMMA Lone ==
    ASSUME DeskAssumption, IInv, OneAtATime, NEW c \in Callers, Busy(c)
    PROVE  /\ \A d \in Callers \ {c} : call[d].phase = "idle"
           /\ call[c].item \in Action
           /\ c = Hand => Running = {}
           /\ c # Hand => /\ c \in Loops /\ Running = {c} /\ loop[c].todo # <<>>
                          /\ call[c].item = Head(loop[c].todo)
                          /\ loop[c].todo \in Seq(Action) /\ loop[c].rest \in Seq(Action)
<1>1. \A f \in Loops : Busy(f) => f \in Running
    BY DEF IInv, CallsMatch, Busy, Running
<1>2. call[c].item \in Action
    BY DEF IInv, CallsMatch, Busy
<1>3. CASE c = Hand
    BY <1>1, <1>2, <1>3 DEF OneAtATime, Callers, Busy
<1>4. CASE c # Hand
    <2>1. c \in Loops /\ c \in Running
        BY <1>1, <1>4 DEF Callers
    <2>2. Running = {c}
        BY <2>1 DEF OneAtATime
    <2>3. ~Busy(Hand)
        BY <2>1 DEF OneAtATime
    <2>4. \A d \in Callers \ {c} : ~Busy(d)
        BY <1>1, <2>2, <2>3 DEF Callers
    <2>5. loop[c] \in Loop
        BY <2>1 DEF IInv, TypeOK
    <2> QED BY <1>2, <1>4, <2>1, <2>2, <2>4, <2>5 DEF IInv, CallsMatch, Busy, Loop
<1> QED BY <1>3, <1>4

LEMMA SteadyInit == ASSUME DeskAssumption, Init PROVE SteadyInv
<1>1. Running = {} /\ IdsOf(queue) = {} /\ ~Busy(Hand)
    BY EmptyIds DEF Init, NoLoop, NoCall, Running, Busy, Callers
<1>2. \A c \in Callers : call[c].phase = "idle"
    BY DEF Init, NoCall
<1>3. OneAtATime /\ EachListedOnce
    BY <1>1 DEF OneAtATime, EachListedOnce, Init, Distinct
<1>4. EachDoneOnce
    BY <1>1 DEF EachDoneOnce, Init, Undone
<1>5. CoolIfChecked
    BY <1>2 DEF CoolIfChecked
<1> QED BY <1>3, <1>4, <1>5 DEF SteadyInv

\* A step that touches neither taps nor calls.
LEMMA SteadyKept ==
    ASSUME SteadyInv, UNCHANGED <<modes, queue, loop, call, taps, effects>>, cool' => cool
    PROVE  SteadyInv'
<1>1. Running' = Running /\ \A c : Busy(c)' = Busy(c)
    BY DEF Running, Busy
<1>2. steady' = steady /\ Ids' = Ids
    BY DEF steady, modes, Ids
<1> SUFFICES ASSUME steady PROVE SteadyInv'
    BY <1>2 DEF SteadyInv
<1>3. OneAtATime'
    BY <1>1 DEF OneAtATime, SteadyInv, Busy
<1>4. EachListedOnce'
    BY <1>1 DEF EachListedOnce, SteadyInv, Busy
<1>5. EachDoneOnce'
    BY <1>1, <1>2 DEF EachDoneOnce, SteadyInv, Busy, Undone
<1>6. CoolIfChecked'
    BY DEF CoolIfChecked, SteadyInv
<1> QED BY <1>3, <1>4, <1>5, <1>6 DEF SteadyInv

LEMMA SteadyTapOffline ==
    ASSUME DeskAssumption, IInv, SteadyInv, NEW type \in PickerTypes \cup CourierTypes,
           NEW o \in Orders, TapOffline(type, o)
    PROVE  SteadyInv'
<1> DEFINE tap == NextAction(type, o)
<1>1. steady' = steady /\ Ids' = Ids
    BY DEF TapOffline, steady, modes, Ids
<1> SUFFICES ASSUME steady PROVE SteadyInv'
    BY <1>1 DEF SteadyInv
<1>2. Running = {} /\ ~Busy(Hand) /\ taps < MaxTaps[manner]
      /\ UNCHANGED <<loop, call, cool, effects>> /\ taps' = taps + 1
      /\ queue' = Append(queue, tap)
    BY DEF TapOffline, Quiet, serverVars
<1>3. taps \in Nat /\ taps + 1 \in Ids /\ queue \in Seq(Action)
    <2>1. MaxTaps[manner] \in Nat
        BY Bounds DEF IInv, TypeOK
    <2> QED BY <1>2, <2>1 DEF IInv, TypeOK, Ids
<1>4. tap \in Action /\ tap.id = taps + 1
    BY <1>3 DEF Action, NextAction
<1>5. IdsOf(queue) \subseteq 1 .. taps /\ Distinct(queue)
    BY DEF SteadyInv, EachListedOnce
<1>6. taps + 1 \notin IdsOf(queue)
    BY <1>3, <1>5
<1>7. IdsOf(queue') = IdsOf(queue) \cup {taps + 1} /\ Distinct(queue')
    BY <1>2, <1>3, <1>4, <1>5, <1>6, AppendIds, AppendDistinct
<1>8. Running' = {} /\ ~Busy(Hand)'
    BY <1>2 DEF Running, Busy
<1>9. OneAtATime'
    BY <1>8 DEF OneAtATime
<1>10. EachListedOnce'
    BY <1>2, <1>3, <1>5, <1>7, <1>8 DEF EachListedOnce
<1>11. EachDoneOnce'
    <2>1. \A i \in Ids : effects[i] # "again" /\ (i > taps => effects[i] = "none")
        BY DEF SteadyInv, EachDoneOnce, Undone
    <2>2. \A i \in Ids : effects[i] # "again" /\ (i > taps + 1 => effects[i] = "none")
        <3> SUFFICES ASSUME NEW i \in Ids, i > taps + 1 PROVE effects[i] = "none"
            BY <2>1
        <3>1. i \in Nat
            BY DEF Ids
        <3> QED BY <1>3, <2>1, <3>1
    <2>3. \A i \in IdsOf(queue) : effects[i] = "none"
        BY <1>2 DEF SteadyInv, EachDoneOnce, Undone
    <2>4. effects[taps + 1] = "none"
        BY <1>3, <2>1
    <2> QED BY <1>1, <1>2, <1>7, <1>8, <2>2, <2>3, <2>4 DEF EachDoneOnce, Undone
<1>12. CoolIfChecked'
    BY <1>2 DEF CoolIfChecked, SteadyInv
<1> QED BY <1>9, <1>10, <1>11, <1>12 DEF SteadyInv

LEMMA SteadyTapOnline ==
    ASSUME DeskAssumption, IInv, SteadyInv, NEW type \in PickerTypes \cup CourierTypes,
           NEW o \in Orders, TapOnline(type, o)
    PROVE  SteadyInv'
<1> DEFINE tap == NextAction(type, o)
<1>1. steady' = steady /\ Ids' = Ids
    BY DEF TapOnline, steady, modes, Ids
<1> SUFFICES ASSUME steady PROVE SteadyInv'
    BY <1>1 DEF SteadyInv
<1>2. Running = {} /\ ~Busy(Hand) /\ taps < MaxTaps[manner]
      /\ UNCHANGED <<loop, queue, cool, effects>> /\ taps' = taps + 1
      /\ call' = [call EXCEPT ![Hand] = NewCall(tap)]
    BY DEF TapOnline, Quiet, serverVars, history
<1>3. taps \in Nat /\ taps + 1 \in Ids
    <2>1. MaxTaps[manner] \in Nat
        BY Bounds DEF IInv, TypeOK
    <2> QED BY <1>2, <2>1 DEF IInv, TypeOK, Ids
<1>4. call'[Hand].phase = "sent" /\ call'[Hand].item.id = taps + 1
      /\ \A c \in Callers : c # Hand => call'[c] = call[c]
    BY <1>2 DEF NextAction, NewCall, IInv, TypeOK, Callers
<1>5. IdsOf(queue) \subseteq 1 .. taps /\ Distinct(queue)
    BY DEF SteadyInv, EachListedOnce
<1>6. taps + 1 \notin IdsOf(queue)
    BY <1>3, <1>5
<1>8. Running' = {}
    BY <1>2 DEF Running
<1>9. OneAtATime'
    BY <1>8 DEF OneAtATime
<1>10. EachListedOnce'
    BY <1>2, <1>3, <1>4, <1>5, <1>6, <1>8 DEF EachListedOnce
<1>11. EachDoneOnce'
    <2>1. \A i \in Ids : effects[i] # "again" /\ (i > taps => effects[i] = "none")
        BY DEF SteadyInv, EachDoneOnce, Undone
    <2>2. \A i \in Ids : effects[i] # "again" /\ (i > taps + 1 => effects[i] = "none")
        <3> SUFFICES ASSUME NEW i \in Ids, i > taps + 1 PROVE effects[i] = "none"
            BY <2>1
        <3>1. i \in Nat
            BY DEF Ids
        <3> QED BY <1>3, <2>1, <3>1
    <2>3. \A i \in IdsOf(queue) : effects[i] = "none"
        BY <1>2 DEF SteadyInv, EachDoneOnce, Undone
    <2>4. effects[taps + 1] = "none"
        BY <1>3, <2>1
    <2> QED BY <1>1, <1>2, <1>4, <1>8, <2>2, <2>3, <2>4 DEF EachDoneOnce, Undone
<1>12. CoolIfChecked'
    BY <1>2, <1>4 DEF CoolIfChecked, SteadyInv, Callers
<1> QED BY <1>9, <1>10, <1>11, <1>12 DEF SteadyInv

LEMMA SteadyLoad ==
    ASSUME DeskAssumption, IInv, SteadyInv, NEW f \in Loops, Load(f)
    PROVE  SteadyInv'
<1>1. steady' = steady /\ Ids' = Ids
    BY DEF Load, steady, modes, Ids
<1> SUFFICES ASSUME steady PROVE SteadyInv'
    BY <1>1 DEF SteadyInv
<1>2. Running = {} /\ ~Busy(Hand) /\ UNCHANGED <<call, queue, cool, effects, taps>>
      /\ loop' = IF queue = <<>> THEN loop ELSE Started(f, queue)
    BY DEF Load, Quiet, serverVars, history, bounds
<1>3. CASE queue = <<>>
    <2>1. UNCHANGED loop
        BY <1>2, <1>3
    <2> QED BY <1>2, <2>1, SteadyKept DEF Load
<1>4. CASE queue # <<>>
    <2>1. /\ loop'[f].on /\ loop'[f].todo = queue /\ loop'[f].rest = <<>>
          /\ \A g \in Loops : g # f => loop'[g] = loop[g]
        BY <1>2, <1>4 DEF Started, IInv, TypeOK
    <2>2. Running' = {f} /\ ~Busy(Hand)'
        BY <1>2, <2>1 DEF Running, Busy
    <2>3. OneAtATime'
        BY <2>2 DEF OneAtATime
    <2>4. EachListedOnce'
        BY <1>2, <2>1, <2>2, EmptyIds DEF EachListedOnce, SteadyInv, Distinct
    <2>5. \A i \in IdsOf(queue) : effects[i] = "none"
        BY <1>2 DEF SteadyInv, EachDoneOnce, Undone
    <2>6. EachDoneOnce'
        BY <1>1, <1>2, <2>1, <2>2, <2>5, EmptyIds DEF EachDoneOnce, SteadyInv, Undone
    <2>7. CoolIfChecked'
        BY <1>2 DEF CoolIfChecked, SteadyInv
    <2> QED BY <2>3, <2>4, <2>6, <2>7 DEF SteadyInv
<1> QED BY <1>3, <1>4

LEMMA SteadySendNext ==
    ASSUME DeskAssumption, IInv, SteadyInv, NEW f \in Loops, SendNext(f)
    PROVE  SteadyInv'
<1>1. steady' = steady /\ Ids' = Ids
    BY DEF SendNext, steady, modes, Ids
<1> SUFFICES ASSUME steady PROVE SteadyInv'
    BY <1>1 DEF SteadyInv
<1>2. /\ loop[f].on /\ loop[f].todo # <<>> /\ ~Busy(f)
      /\ call' = [call EXCEPT ![f] = NewCall(Head(loop[f].todo))]
      /\ UNCHANGED <<loop, queue, cool, effects, taps>>
    BY DEF SendNext, serverVars, pageVars, bounds, history
<1>3. /\ call'[f].phase = "sent" /\ \A c \in Callers : c # f => call'[c] = call[c]
      /\ f \in Callers /\ f # Hand /\ Hand \in Callers
    BY <1>2 DEF NewCall, IInv, TypeOK, Callers, DeskAssumption
<1>4. Running = {f} /\ Running' = Running
    BY <1>2 DEF SteadyInv, OneAtATime, Running
<1>5. ~Busy(Hand) /\ ~Busy(Hand)'
    BY <1>3, <1>4 DEF SteadyInv, OneAtATime, Busy
<1>6. OneAtATime'
    BY <1>4, <1>5 DEF OneAtATime
<1>7. EachListedOnce'
    BY <1>2, <1>4, <1>5 DEF EachListedOnce, SteadyInv
<1>8. EachDoneOnce'
    <2>1. call[f].phase # "ok"
        BY <1>2 DEF Busy
    <2> QED BY <1>1, <1>2, <1>4, <1>5, <2>1 DEF EachDoneOnce, SteadyInv, Undone
<1>9. CoolIfChecked'
    BY <1>2, <1>3 DEF CoolIfChecked, SteadyInv
<1> QED BY <1>6, <1>7, <1>8, <1>9 DEF SteadyInv

LEMMA SteadyLoopEnds ==
    ASSUME DeskAssumption, IInv, SteadyInv, NEW f \in Loops, LoopEnds(f)
    PROVE  SteadyInv'
<1>1. steady' = steady /\ Ids' = Ids
    BY DEF LoopEnds, steady, modes, Ids
<1> SUFFICES ASSUME steady PROVE SteadyInv'
    BY <1>1 DEF SteadyInv
<1>2. /\ loop[f].on /\ queue' = loop[f].rest /\ loop' = [loop EXCEPT ![f] = NoLoop]
      /\ UNCHANGED <<call, cool, effects, taps>>
    BY DEF LoopEnds, serverVars, bounds, history
<1>3. Running = {f} /\ ~Busy(Hand)
    BY <1>2 DEF SteadyInv, OneAtATime, Running
<1>4. Running' = {} /\ ~Busy(Hand)'
    BY <1>2, <1>3 DEF Running, NoLoop, IInv, TypeOK, Busy
<1>5. OneAtATime'
    BY <1>4 DEF OneAtATime
<1>6. EachListedOnce'
    BY <1>2, <1>3, <1>4 DEF EachListedOnce, SteadyInv
<1>7. EachDoneOnce'
    BY <1>1, <1>2, <1>3, <1>4 DEF EachDoneOnce, SteadyInv, Undone
<1>8. CoolIfChecked'
    BY <1>2 DEF CoolIfChecked, SteadyInv
<1> QED BY <1>5, <1>6, <1>7, <1>8 DEF SteadyInv

\* A call takes a step at the server: the tap is carried out when it is answered.
LEMMA SteadyAtServer ==
    ASSUME DeskAssumption, IInv, SteadyInv, steady, steady', Ids' = Ids,
           NEW c \in Callers, Busy(c), call[c].phase # "ok",
           NEW x, call' = [call EXCEPT ![c] = x], x.item = call[c].item, x.phase # "idle",
           x.phase # "ok" => UNCHANGED effects,
           x.phase = "ok" => effects' = [effects EXCEPT ![call[c].item.id] =
                                            IF @ = "none" THEN "once" ELSE "again"],
           UNCHANGED <<loop, queue, taps>>,
           x.phase = "checked" /\ x.item.type = "reject" => ~cool'
    PROVE  SteadyInv'
<1> DEFINE id == call[c].item.id
<1>1. /\ call'[c] = x /\ \A d \in Callers : d # c => call'[d] = call[d]
      /\ Hand \in Callers
    BY DEF IInv, TypeOK, Callers
<1>2. /\ \A d \in Callers \ {c} : call[d].phase = "idle"
      /\ call[c].item \in Action
      /\ c = Hand => Running = {}
      /\ c # Hand => /\ c \in Loops /\ Running = {c} /\ loop[c].todo # <<>>
                     /\ call[c].item = Head(loop[c].todo)
                     /\ loop[c].todo \in Seq(Action) /\ loop[c].rest \in Seq(Action)
    BY Lone DEF SteadyInv
<1>3. Running' = Running /\ (Busy(Hand)' <=> Busy(Hand)) /\ call'[c].item = call[c].item
    BY <1>1 DEF Running, Busy
<1>4. OneAtATime'
    BY <1>3 DEF OneAtATime, SteadyInv
<1>5. call'[Hand].item = call[Hand].item
    BY <1>1, <1>3
<1>6. EachListedOnce'
    BY <1>3, <1>5 DEF EachListedOnce, SteadyInv
<1>7. id \in Ids
    BY <1>2 DEF Action
<1>8. effects[id] = "none" /\ id <= taps
    <2>1. CASE c = Hand
        <3>1. Undone(id) /\ id \in 1 .. taps
            BY <2>1 DEF SteadyInv, EachDoneOnce, EachListedOnce
        <3>2. taps \in Nat
            BY Bounds DEF IInv, TypeOK
        <3> QED BY <3>1, <3>2 DEF Undone
    <2>2. CASE c # Hand
        <3>1. c \in Running /\ Head(loop[c].todo).id \in IdsOf(loop[c].todo)
            BY <1>2, <2>2, TailDistinct DEF SteadyInv, EachListedOnce
        <3>2. Undone(id) /\ id \in 1 .. taps
            BY <1>2, <2>2, <3>1 DEF SteadyInv, EachDoneOnce, EachListedOnce
        <3>3. taps \in Nat
            BY Bounds DEF IInv, TypeOK
        <3> QED BY <3>2, <3>3 DEF Undone
    <2> QED BY <2>1, <2>2
<1>9. CoolIfChecked'
    BY <1>1, <1>2 DEF CoolIfChecked
<1>10. CASE x.phase # "ok"
    <2>1. EachDoneOnce'
        <3>1. UNCHANGED <<effects, loop, queue, taps>>
            BY <1>10
        <3>2. \A f \in Loops : call'[f].phase = "ok" <=> call[f].phase = "ok"
            BY <1>1, <1>10 DEF Callers
        <3>3. \A f \in Loops : call'[f].item = call[f].item
            BY <1>1, <1>3 DEF Callers
        <3>4. call'[Hand].phase = "ok" <=> call[Hand].phase = "ok"
            BY <1>1, <1>10
        <3> QED BY <1>3, <1>5, <3>1, <3>2, <3>3, <3>4
            DEF EachDoneOnce, SteadyInv, Undone, Running
    <2> QED BY <1>4, <1>6, <1>9, <2>1 DEF SteadyInv
<1>11. CASE x.phase = "ok"
    <2>1. \A i \in Ids : effects'[i] = IF i = id THEN "once" ELSE effects[i]
        BY <1>7, <1>8, <1>11 DEF IInv, TypeOK
    <2>2. \A i : i # id /\ i \in Ids /\ Undone(i) => effects'[i] = "none"
        BY <2>1 DEF Undone
    <2>3. taps \in Nat /\ 1 .. taps \subseteq Ids
        <3>1. MaxTaps[manner] \in Nat /\ taps \in 0 .. MaxTaps[manner]
            BY Bounds DEF IInv, TypeOK
        <3> QED BY <3>1 DEF Ids
    <2>4. \A i \in Ids : effects'[i] # "again" /\ (i > taps => effects'[i] = "none")
        <3>1. \A i \in Ids : effects[i] # "again" /\ (i > taps => effects[i] = "none")
            BY DEF SteadyInv, EachDoneOnce, Undone
        <3>2. ~(id > taps)
            BY <1>7, <1>8, <2>3 DEF Ids
        <3> QED BY <2>1, <3>1, <3>2
    <2>5. Running = {} => \A i \in IdsOf(queue) : effects'[i] = "none"
        <3> SUFFICES ASSUME Running = {}, NEW i \in IdsOf(queue) PROVE effects'[i] = "none"
            OBVIOUS
        <3>1. c = Hand
            BY <1>2
        <3>2. i # id /\ i \in Ids
            BY <2>3, <3>1 DEF SteadyInv, EachListedOnce
        <3>3. Undone(i)
            BY DEF SteadyInv, EachDoneOnce
        <3> QED BY <2>2, <3>2, <3>3
    <2>6. ASSUME NEW f \in Running
          PROVE  /\ \A i \in IdsOf(loop[f].rest) : effects'[i] = "none"
                 /\ \A i \in IdsOf(loop[f].todo) :
                       effects'[i] = "none" \/ (call'[f].phase = "ok" /\ i = call'[f].item.id)
        <3>1. c # Hand /\ f = c
            BY <1>2, <2>6
        <3>2. /\ IdsOf(loop[f].todo) \cup IdsOf(loop[f].rest) \subseteq Ids
              /\ IdsOf(loop[f].todo) \cap IdsOf(loop[f].rest) = {}
              /\ Distinct(loop[f].todo)
            BY <2>3, <2>6 DEF SteadyInv, EachListedOnce
        <3>3. id \in IdsOf(loop[f].todo)
            BY <1>2, <3>1, <3>2, TailDistinct
        <3>4. ASSUME NEW i \in IdsOf(loop[f].rest) PROVE effects'[i] = "none"
            <4>1. Undone(i) /\ i # id /\ i \in Ids
                BY <2>6, <3>2, <3>3 DEF SteadyInv, EachDoneOnce
            <4> QED BY <2>2, <4>1
        <3>5. ASSUME NEW i \in IdsOf(loop[f].todo), i # id PROVE effects'[i] = "none"
            <4>1. Undone(i)
                BY <2>6, <3>1 DEF SteadyInv, EachDoneOnce
            <4> QED BY <2>2, <3>2, <3>5, <4>1
        <3>6. call'[f].phase = "ok" /\ call'[f].item.id = id
            BY <1>1, <1>11, <3>1
        <3> QED BY <3>4, <3>5, <3>6
    <2>7. Busy(Hand)' /\ call'[Hand].phase # "ok" => effects'[call'[Hand].item.id] = "none"
        BY <1>1, <1>2, <1>3, <1>11 DEF Busy
    <2>8. EachDoneOnce'
        BY <1>3, <2>4, <2>5, <2>6, <2>7 DEF EachDoneOnce, Undone
    <2> QED BY <1>4, <1>6, <1>9, <2>8 DEF SteadyInv
<1> QED BY <1>10, <1>11

\* A loop hears the answer of its call.
LEMMA SteadyHeard ==
    ASSUME DeskAssumption, IInv, SteadyInv, steady, steady', Ids' = Ids,
           NEW f \in Loops, Busy(f), NEW succeeded \in BOOLEAN, Heard(f, succeeded),
           succeeded \/ call[f].phase # "ok",
           UNCHANGED <<queue, taps, effects, cool>>
    PROVE  SteadyInv'
<1> DEFINE l == loop[f]
           kept == KeepFailed(l.rest, Head(l.todo))
           rest == IF succeeded THEN l.rest ELSE kept
<1>1. f \in Callers /\ f # Hand /\ Hand \in Callers
    BY DEF Callers, DeskAssumption
<1>2. /\ \A d \in Callers \ {f} : call[d].phase = "idle"
      /\ Running = {f} /\ l.todo # <<>> /\ call[f].item = Head(l.todo)
      /\ l.todo \in Seq(Action) /\ l.rest \in Seq(Action)
    BY <1>1, Lone DEF SteadyInv
<1>3. /\ loop' = [loop EXCEPT ![f] = [on |-> TRUE, todo |-> Tail(l.todo), rest |-> rest]]
      /\ call' = [call EXCEPT ![f] = NoCall]
    BY DEF Heard
<1>4. /\ loop'[f].on /\ loop'[f].todo = Tail(l.todo) /\ loop'[f].rest = rest
      /\ \A g \in Loops : g # f => loop'[g] = loop[g]
      /\ \A d \in Callers : call'[d].phase = "idle"
    BY <1>1, <1>2, <1>3 DEF IInv, TypeOK, NoCall
<1>5. Running' = {f} /\ ~Busy(Hand)'
    BY <1>1, <1>2, <1>4 DEF Running, Busy
<1>6. OneAtATime'
    BY <1>5 DEF OneAtATime
<1>7. /\ Distinct(l.todo) /\ Distinct(l.rest)
      /\ IdsOf(l.todo) \cap IdsOf(l.rest) = {}
      /\ IdsOf(l.todo) \cup IdsOf(l.rest) \subseteq 1 .. taps
      /\ Distinct(queue) /\ IdsOf(queue) \subseteq 1 .. taps
    BY <1>2 DEF SteadyInv, EachListedOnce
<1> DEFINE id == Head(l.todo).id
<1>8. /\ Distinct(Tail(l.todo)) /\ Tail(l.todo) \in Seq(Action) /\ Head(l.todo) \in Action
      /\ IdsOf(Tail(l.todo)) \subseteq IdsOf(l.todo) /\ id \in IdsOf(l.todo)
      /\ id \notin IdsOf(Tail(l.todo))
    BY <1>2, <1>7, TailDistinct
<1>9. id \notin IdsOf(l.rest)
    BY <1>7, <1>8
<1>10. IdsOf(kept) = IdsOf(l.rest) \cup {id} /\ Distinct(kept)
    BY <1>2, <1>7, <1>8, <1>9, AppendIds, AppendDistinct DEF KeepFailed
<1>11. /\ \A i \in IdsOf(l.rest) : effects[i] = "none"
       /\ \A i \in IdsOf(l.todo) :
             effects[i] = "none" \/ (call[f].phase = "ok" /\ i = id)
    BY <1>2 DEF SteadyInv, EachDoneOnce, Undone
<1>12. \A i \in Ids : effects[i] # "again" /\ (i > taps => effects[i] = "none")
    BY DEF SteadyInv, EachDoneOnce, Undone
<1> HIDE DEF l, kept, id
<1>13. /\ Distinct(rest) /\ IdsOf(rest) \cap IdsOf(Tail(l.todo)) = {}
       /\ IdsOf(rest) \subseteq IdsOf(l.rest) \cup IdsOf(l.todo)
       /\ \A i \in IdsOf(rest) : effects[i] = "none"
    <2>1. CASE succeeded
        BY <1>7, <1>8, <1>11, <2>1
    <2>2. CASE ~succeeded
        BY <1>7, <1>8, <1>10, <1>11, <2>2
    <2> QED BY <2>1, <2>2
<1> HIDE DEF rest
<1>14. EachListedOnce'
    BY <1>4, <1>5, <1>7, <1>8, <1>13 DEF EachListedOnce
<1>15. EachDoneOnce'
    <2>1. \A i \in IdsOf(Tail(l.todo)) : effects[i] = "none"
        BY <1>8, <1>11
    <2> QED BY <1>4, <1>5, <1>12, <1>13, <2>1 DEF EachDoneOnce, Undone
<1>16. CoolIfChecked'
    BY <1>4 DEF CoolIfChecked
<1> QED BY <1>6, <1>14, <1>15, <1>16 DEF SteadyInv

\* The person's own call comes back, and is sent again or given up.
LEMMA SteadyHand ==
    ASSUME DeskAssumption, IInv, SteadyInv, steady, steady', Ids' = Ids, Busy(Hand),
           NEW x, call' = [call EXCEPT ![Hand] = x],
           x.phase = "idle" \/ (x.phase = "sent" /\ x.item = call[Hand].item
                                    /\ call[Hand].phase # "ok"),
           UNCHANGED <<loop, queue, taps, effects, cool>>
    PROVE  SteadyInv'
<1>1. Hand \in Callers
    BY DEF Callers
<1>2. Running = {} /\ \A d \in Callers \ {Hand} : call[d].phase = "idle"
    BY <1>1, Lone DEF SteadyInv
<1>3. call'[Hand] = x /\ \A d \in Callers : d # Hand => call'[d] = call[d]
    BY <1>1 DEF IInv, TypeOK
<1>4. Running' = {}
    BY <1>2 DEF Running
<1>5. OneAtATime'
    BY <1>4 DEF OneAtATime
<1>6. EachListedOnce'
    BY <1>3, <1>4 DEF EachListedOnce, SteadyInv, Busy
<1>7. EachDoneOnce'
    BY <1>2, <1>3, <1>4 DEF EachDoneOnce, SteadyInv, Busy, Undone
<1>8. CoolIfChecked'
    BY <1>3 DEF CoolIfChecked, SteadyInv
<1> QED BY <1>5, <1>6, <1>7, <1>8 DEF SteadyInv

LEMMA SteadyGivesUp ==
    ASSUME DeskAssumption, IInv, SteadyInv, steady, steady', Ids' = Ids,
           NEW c \in Callers, Busy(c), call[c].phase # "ok", GivesUp(c),
           UNCHANGED <<queue, taps, effects, cool>>
    PROVE  SteadyInv'
<1>1. CASE c # Hand
    <2>1. c \in Loops /\ Heard(c, FALSE)
        BY <1>1 DEF Callers, GivesUp
    <2> QED BY <2>1, SteadyHeard
<1>2. CASE c = Hand
    <2> DEFINE x == IF call[Hand].tries < 2 THEN Again ELSE NoCall
    <2>1. call' = [call EXCEPT ![Hand] = x] /\ UNCHANGED loop
        BY <1>2 DEF GivesUp
    <2>2. x.phase = "idle" \/ (x.phase = "sent" /\ x.item = call[Hand].item)
        BY DEF Again, NoCall
    <2> HIDE DEF x
    <2> QED BY <1>2, <2>1, <2>2, SteadyHand
<1> QED BY <1>1, <1>2

LEMMA SteadyCallStep ==
    ASSUME DeskAssumption, IInv, SteadyInv, NEW c \in Callers,
           CallStep(c) \/ LoseAnswer(c)
    PROVE  SteadyInv'
<1>1. steady' = steady /\ Ids' = Ids
    BY DEF CallStep, LoseAnswer, ServerReads, ServerWrites, ServerRejects, Answer, Succeeds,
        Refused, Unsent, steady, modes, Ids
<1> SUFFICES ASSUME steady PROVE SteadyInv'
    BY <1>1 DEF SteadyInv
<1>2. call[c] \in Call
    BY DEF IInv, TypeOK
<1>3. CASE ServerReads(c)
    <2> DEFINE x == [phase |-> IF Admits(call[c].item) THEN "checked" ELSE "refused",
                     item |-> call[c].item, tries |-> call[c].tries,
                     seen |-> IF call[c].item.type = "reject"
                              THEN status[call[c].item.order] ELSE "NONE"]
    <2>1. call[c].phase = "sent" /\ call' = [call EXCEPT ![c] = x]
          /\ UNCHANGED <<loop, queue, taps, effects, cool>>
        BY <1>3 DEF ServerReads, serverVars, pageVars, bounds, history
    <2>2. /\ x.item = call[c].item /\ x.phase \in {"checked", "refused"}
          /\ (x.phase = "checked" /\ x.item.type = "reject" => ~cool)
        BY DEF Admits, MayReject
    <2> HIDE DEF x
    <2>3. Busy(c) /\ call[c].phase # "ok"
        BY <2>1 DEF Busy
    <2> QED BY <1>1, <2>1, <2>2, <2>3, SteadyAtServer
<1>4. CASE ServerWrites(c) \/ ServerRejects(c)
    <2> DEFINE x == [phase |-> "ok", item |-> call[c].item,
                     seen |-> call[c].seen, tries |-> call[c].tries]
    <2>1. call[c].phase = "checked" /\ call' = [call EXCEPT ![c] = x]
          /\ effects' = [effects EXCEPT ![call[c].item.id] =
                            IF @ = "none" THEN "once" ELSE "again"]
          /\ UNCHANGED <<loop, queue, taps>>
        BY <1>4 DEF ServerWrites, ServerRejects, Answer, pageVars, bounds
    <2>2. x.item = call[c].item /\ x.phase = "ok"
        OBVIOUS
    <2> HIDE DEF x
    <2>3. Busy(c) /\ call[c].phase # "ok"
        BY <2>1 DEF Busy
    <2> QED BY <1>1, <2>1, <2>2, <2>3, SteadyAtServer
<1>5. CASE Succeeds(c)
    <2>1. Busy(c) /\ UNCHANGED <<queue, taps, effects, cool>>
        BY <1>5 DEF Succeeds, Busy, serverVars, bounds
    <2>2. CASE c = Hand
        BY <1>1, <1>5, <2>1, <2>2, SteadyHand DEF Succeeds, NoCall
    <2>3. CASE c # Hand
        <3>1. c \in Loops /\ Heard(c, TRUE)
            BY <1>5, <2>3 DEF Callers, Succeeds
        <3> QED BY <1>1, <2>1, <3>1, SteadyHeard
    <2> QED BY <2>2, <2>3
<1>6. CASE Refused(c) \/ Unsent(c)
    <2>1. Busy(c) /\ call[c].phase # "ok" /\ GivesUp(c)
          /\ UNCHANGED <<queue, taps, effects, cool>>
        BY <1>6 DEF Refused, Unsent, Busy, serverVars, bounds, history
    <2> QED BY <1>1, <2>1, SteadyGivesUp
<1>7. CASE LoseAnswer(c)
    BY <1>7 DEF LoseAnswer
<1> QED BY <1>3, <1>4, <1>5, <1>6, <1>7 DEF CallStep

LEMMA SteadyNext ==
    ASSUME DeskAssumption, IInv, SteadyInv, [Next]_vars
    PROVE  SteadyInv'
<1>1. CASE Tap
    BY <1>1, SteadyTapOffline, SteadyTapOnline DEF Tap
<1>2. ASSUME NEW f \in Loops, Load(f) \/ LoopStep(f) PROVE SteadyInv'
    BY <1>2, SteadyLoad, SteadySendNext, SteadyLoopEnds DEF LoopStep
<1>3. ASSUME NEW c \in Callers, CallStep(c) \/ LoseAnswer(c) PROVE SteadyInv'
    BY <1>3, SteadyCallStep
<1>4. ASSUME LoadCached \/ GoOffline \/ GoOnline \/ SignIn \/ CooldownEnds
             \/ UNCHANGED vars \/ \E o \in Orders : HideEnds(o) \/ OthersMove(o)
      PROVE SteadyInv'
    <2>1. UNCHANGED <<modes, queue, loop, call, taps, effects>> /\ (cool' => cool)
        BY <1>4 DEF LoadCached, GoOffline, GoOnline, SignIn, CooldownEnds, vars, HideEnds,
            OthersMove, serverVars, pageVars, history, bounds, modes
    <2> QED BY <2>1, SteadyKept
<1>5. CASE Reload \/ SessionExpires
    <2>1. ~steady /\ steady' = steady
        BY <1>5 DEF Reload, SessionExpires, Leave, steady, modes
    <2> QED BY <2>1 DEF SteadyInv
<1> QED BY <1>1, <1>2, <1>3, <1>4, <1>5 DEF Next

\* In a steady visit every queued tap is carried out once and leaves the queue, however
\* often the network goes away, the replay is refused and the others move the orders, and
\* no rejection falls into the cooldown of the one before (use-picker-orders.ts,
\* use-courier-orders.ts, rejectByCourier).
THEOREM TapsCarriedOutOnce == Spec => TapsSound
<1>1. Init => IInv /\ SteadyInv
    BY InitInv, SteadyInit, DeskAssumption
<1>2. IInv /\ SteadyInv /\ [Next]_vars => IInv' /\ SteadyInv'
    BY NextInv, SteadyNext, DeskAssumption
<1>3. IInv /\ SteadyInv => TypeOK /\ CarriedOutOnce /\ QueueHoldsOpenTaps
    <2> SUFFICES ASSUME IInv, SteadyInv PROVE TypeOK /\ CarriedOutOnce /\ QueueHoldsOpenTaps
        OBVIOUS
    <2>1. CarriedOutOnce
        BY DEF SteadyInv, EachDoneOnce, CarriedOutOnce
    <2>2. QueueIds = IdsOf(queue)
        BY DEF QueueIds, IdsOf
    <2>3. QueueHoldsOpenTaps
        BY <2>2 DEF SteadyInv, EachDoneOnce, QueueHoldsOpenTaps, Quiet, Undone
    <2> QED BY <2>1, <2>3 DEF IInv
<1>4. IInv /\ SteadyInv /\ [Next]_vars =>
        [\A c \in Callers :
          steady /\ call[c].item.type = "reject" /\ call[c].phase = "checked"
              /\ call'[c].phase = "ok" => ~cool]_vars
    BY DEF SteadyInv, CoolIfChecked
<1> QED BY <1>1, <1>2, <1>3, <1>4, PTL DEF Spec, TapsSound, CooldownKept


(***************************************************************************)
(* The images of the products.                                             *)
(***************************************************************************)

\* The calls, by what they are: what each holds at each of its steps.
CallShaped(c) ==
    \/ c = NoUpload
    \/ /\ c.kind = "presign" /\ c.at \in {"list", "expired", "create"}
       /\ c.product \in Products /\ c.image \in Images
    \/ /\ c.kind = "finalize" /\ c.at \in {"expired", "head", "commit"}
       /\ c.product \in Products /\ c.image \in Images /\ c.of \in {"none", "FINALIZE"}
    \/ /\ c.kind \in {"legacy", "edit"} /\ c.at \in {"erase", "write"}
       /\ c.product \in Products /\ c.of = "none"
       /\ c.image \in Images \/ c.kind = "edit"
       /\ c.at = "erase" => c.old \in Images
    \/ c.kind = "cleanup" /\ c.at \in {"list", "sweep"}
    \/ /\ c.kind = "retry" /\ c.image \in Images /\ c.of \in Operations
       /\ c.at = "mark" \/ (c.at = "erase" /\ c.of # "FINALIZE")

\* A job is tried once more by each admin that has read it before it is marked.
Marking(j) == {a \in Admins : /\ Stands(a, "retry", "mark")
                              /\ <<upload[a].of, upload[a].image>> = j}
TriedBound ==
    \A j \in Operations \X Images :
        job[j].tried + Cardinality(Marking(j)) <= MaxRetries + Cardinality(Admins) - 1

ImageTyped ==
    /\ ImageTypeOK /\ TriedBound
    /\ \A a \in Admins : CallShaped(upload[a])
    /\ \A p \in Products : session[p].image = NoImage => session[p] = NoSession

Presigning(a, i) == upload[a].kind = "presign" /\ upload[a].image = i
Writing(a, i) == upload[a].kind \in {"legacy", "edit"} /\ upload[a].image = i
Finalizing(a, i) ==
    /\ upload[a].image = i
    /\ upload[a].kind = "finalize" \/ (upload[a].kind = "retry" /\ upload[a].of = "FINALIZE")
Finalized(i) == job[<<"FINALIZE", i>>].status # "none" \/ \E a \in Admins : Finalizing(a, i)

\* An image has yet to become an asset: its presign or its session stands.
Waiting(i) == (\E a \in Admins : Presigning(a, i)) \/ SessionOf(i) # {}

\* The life of an image: no key is built twice, an upload is presigned, waits in its session
\* and becomes an asset, in this order and once.
LifeOf(i) ==
    /\ i \notin used => /\ assets[i] = 0 /\ ~Waiting(i) /\ ~Finalized(i)
                        /\ \A p \in Products : imageKey[p] # i
                        /\ \A a \in Admins : ~Writing(a, i)
    /\ Waiting(i) => /\ assets[i] = 0 /\ i \notin form
                     /\ \A p \in Products : imageKey[p] # i
                     /\ \A a \in Admins : ~Writing(a, i)
    /\ \A a \in Admins : Presigning(a, i) =>
          /\ ownerOf[i] = upload[a].product /\ SessionOf(i) = {} /\ ~Finalized(i)
          /\ \A b \in Admins : Presigning(b, i) => a = b
    /\ \A p \in Products : session[p].image = i => ownerOf[i] = p
    /\ \A a \in Admins : upload[a].kind = "finalize" /\ upload[a].image = i =>
          ownerOf[i] = upload[a].product
    /\ assets[i] <= 1
    /\ job[<<"FINALIZE", i>>].status = "RESOLVED" => SessionOf(i) = {}

\* One call at a time, and room for what a session or a presign will add.
SerialHeld ==
    imageManner # "any" =>
        /\ \A a, b \in Admins : ~Free(a) /\ ~Free(b) => a = b
        /\ \A p \in Products : /\ AssetCount(p) <= MaxImages
                               /\ session[p] # NoSession => HasRoom(p)
        /\ \A a \in Admins, p \in Products :
              upload[a].kind = "presign" /\ upload[a].product = p => HasRoom(p)

NamesStored(p) == active[p] /\ imageKey[p] # NoImage => imageKey[p] \in stored

\* In careful use: an image is held by one product, a form or one call at most; the old image
\* goes when the new one is there, and the cleanup knows every image in use.
WriterHeld(a) ==
    LET c == upload[a]  p == c.product IN
    /\ c.image # NoImage => /\ active[p] => c.image \in stored
                            /\ \A q \in Products \ {p} : imageKey[q] # c.image
    /\ c.at = "erase" => c.old = imageKey[p] /\ c.image \notin {c.old, NoImage}

CleanerHeld(a) ==
    /\ form = {}
    /\ \A p \in Products : imageKey[p] # NoImage =>
          IF upload[a].at = "list" THEN imageKey[p] \in upload[a].known
          ELSE imageKey[p] \notin upload[a].known

CarefulHeld ==
    Careful =>
        /\ \A i \in Images, op \in Operations \ {"FINALIZE"} : job[<<op, i>>].status = "none"
        /\ form \subseteq stored /\ \A p \in Products : imageKey[p] \notin form
        /\ \A p, q \in Products : imageKey[p] = imageKey[q] /\ p # q => imageKey[p] = NoImage
        /\ \A p \in Products :
              \/ NamesStored(p)
              \/ \E a \in Admins : /\ upload[a].kind \in {"legacy", "edit"}
                                   /\ upload[a].at = "write"
                                   /\ upload[a].product = p /\ upload[a].image # NoImage
        /\ \A a \in Admins :
              /\ upload[a].kind \in {"legacy", "edit"} => WriterHeld(a)
              /\ upload[a].kind = "cleanup" => CleanerHeld(a)
              /\ Stands(a, "finalize", "commit") => upload[a].image \in stored
              /\ upload[a].kind = "retry" => upload[a].of = "FINALIZE"

ImageInv == ImageTyped /\ (\A i \in Images : LifeOf(i)) /\ SerialHeld /\ CarefulHeld

-----------------------------------------------------------------------------
JobTypes == [status : {"none", "PENDING", "RETRYING", "RESOLVED", "FAILED"},
             tried : 0 .. MaxRetries + Cardinality(Admins) - 1]
Jobs == [Operations \X Images -> JobTypes]

\* What is assumed of the constants of the images.
LEMMA ImageConstants ==
    /\ IsFiniteSet(Images) /\ IsFiniteSet(Admins) /\ NoImage \notin Images
    /\ MaxImages \in Nat /\ MaxRetries \in Nat /\ MaxRetries # 0 /\ MaxFaults \in Nat
    /\ Cardinality(Admins) \in Nat /\ Cardinality(Admins) >= 0
<1>1. /\ IsFiniteSet(Images) /\ IsFiniteSet(Admins) /\ NoImage \notin Images
      /\ MaxImages \in Nat /\ MaxRetries \in Nat \ {0} /\ MaxFaults \in Nat
    BY ImageAssumption, Zenon DEF ImageAssumption
<1>2. Cardinality(Admins) \in Nat BY <1>1, FS_CardinalityType
<1> QED BY <1>1, <1>2

\* The bound of the calls is a number in every manner.
LEMMA CallsBound == ASSUME NEW m \in ImageManners PROVE MaxCalls[m] \in Nat
<1>1. MaxCalls \in [ImageManners -> Nat] BY ImageAssumption, Zenon DEF ImageAssumption
<1> QED BY <1>1, Zenon

\* The fields of a call that begins, and of one that goes on.
LEMMA NewUploadFields ==
    ASSUME NEW kind \in UploadKinds, NEW at \in Steps, NEW p \in Products \cup {NoProduct},
           NEW i \in Images \cup {NoImage}, NEW old \in Images \cup {NoImage}
    PROVE /\ NewUpload(kind, at, p, i, old) \in Upload
          /\ NewUpload(kind, at, p, i, old).kind = kind
          /\ NewUpload(kind, at, p, i, old).at = at
          /\ NewUpload(kind, at, p, i, old).product = p
          /\ NewUpload(kind, at, p, i, old).image = i
          /\ NewUpload(kind, at, p, i, old).old = old
          /\ NewUpload(kind, at, p, i, old).of = "none"
          /\ NewUpload(kind, at, p, i, old).known = {}
<1>1. 0 \in 0 .. MaxRetries BY ImageConstants
<1> QED BY <1>1 DEF NewUpload, Upload

\* A call that moves on keeps what it holds.
LEMMA MovedFields ==
    ASSUME NEW c \in Upload, NEW at \in Steps, NEW known \in SUBSET Images
    PROVE /\ Moved(c, at, known) \in Upload
          /\ Moved(c, at, known).kind = c.kind /\ Moved(c, at, known).at = at
          /\ Moved(c, at, known).product = c.product /\ Moved(c, at, known).image = c.image
          /\ Moved(c, at, known).old = c.old /\ Moved(c, at, known).known = known
          /\ Moved(c, at, known).of = c.of /\ Moved(c, at, known).next = c.next
BY DEF Moved, Upload

\* An admin at rest holds nothing.
LEMMA NoUploadFields ==
    /\ NoUpload.kind = "none" /\ NoUpload.image = NoImage /\ NoUpload.of = "none"
    /\ NoUpload.at = "idle" /\ NoUpload \notin Upload
BY DEF NoUpload, NewUpload, Upload, UploadKinds

\* A new call holds what it was begun with.
LEMMA UploadFields ==
    ASSUME NEW c \in Upload \cup {NoUpload}, c.kind # "none"
    PROVE /\ c \in Upload /\ c.kind \in UploadKinds /\ c.at \in Steps
          /\ c.product \in Products \cup {NoProduct} /\ c.image \in Images \cup {NoImage}
          /\ c.old \in Images \cup {NoImage} /\ c.known \in SUBSET Images
          /\ c.of \in Operations \cup {"none"} /\ c.next \in 0 .. MaxRetries
BY NoUploadFields DEF Upload

\* A failure is tracked by one open job; the others stand.
LEMMA TrackFacts ==
    ASSUME NEW jobs \in Jobs, NEW op \in Operations, NEW i \in Images
    PROVE /\ Track(jobs, op, i) \in Jobs
          /\ \A j \in Operations \X Images : Track(jobs, op, i)[j].tried <= jobs[j].tried
          /\ \A j \in Operations \X Images : j # <<op, i>> => Track(jobs, op, i)[j] = jobs[j]
          /\ Track(jobs, op, i)[<<op, i>>].status \in {"PENDING", "RETRYING"}
<1>1. <<op, i>> \in Operations \X Images OBVIOUS
<1>2. [status |-> "PENDING", tried |-> 0] \in JobTypes BY ImageConstants DEF JobTypes
<1>3. \A j \in Operations \X Images : jobs[j].tried \in Nat BY DEF Jobs, JobTypes
<1>4. CASE jobs[<<op, i>>].status \in {"PENDING", "RETRYING"} BY <1>3, <1>4 DEF Track
<1>5. CASE jobs[<<op, i>>].status \notin {"PENDING", "RETRYING"}
    <2>1. Track(jobs, op, i) = [jobs EXCEPT ![<<op, i>>] = [status |-> "PENDING", tried |-> 0]]
        BY <1>5 DEF Track
    <2> QED BY <1>1, <1>2, <1>3, <2>1 DEF Jobs
<1> QED BY <1>4, <1>5

\* A retry that ends settles its own job.
JobOf(c) == <<c.of, c.image>>

\* What the end of an attempt leaves of its job, and that no other job is touched.
LEMMA SettledFacts ==
    ASSUME NEW jobs \in Jobs, NEW c, NEW ok \in BOOLEAN,
           c.of = "none" \/ (c.of \in Operations /\ c.image \in Images)
    PROVE /\ Settled(jobs, c, ok) \in Jobs
          /\ \A j \in Operations \X Images : Settled(jobs, c, ok)[j].tried <= jobs[j].tried
          /\ \A j \in Operations \X Images :
                c.of = "none" \/ j # JobOf(c) => Settled(jobs, c, ok)[j] = jobs[j]
          /\ c.of # "none" /\ ok => Settled(jobs, c, ok)[JobOf(c)].status = "RESOLVED"
          /\ c.of # "none" /\ ~ok => Settled(jobs, c, ok)[JobOf(c)].status \in {"FAILED", "PENDING"}
<1>1. \A j \in Operations \X Images : jobs[j].tried \in Nat BY DEF Jobs, JobTypes
<1>2. CASE c.of = "none" BY <1>1, <1>2 DEF Settled
<1>3. CASE c.of # "none"
    <2>1. JobOf(c) \in Operations \X Images BY <1>3 DEF JobOf
    <2>2. PICK s \in {"RESOLVED", "FAILED", "PENDING"} :
             /\ s = IF ok THEN "RESOLVED" ELSE IF c.next >= MaxRetries THEN "FAILED" ELSE "PENDING"
        OBVIOUS
    <2>3. Settled(jobs, c, ok) = [jobs EXCEPT ![JobOf(c)].status = s]
        BY <1>3, <2>2 DEF Settled, JobOf
    <2>4. jobs[JobOf(c)] \in JobTypes BY <2>1 DEF Jobs
    <2>5. [jobs[JobOf(c)] EXCEPT !.status = s] \in JobTypes
          /\ [jobs[JobOf(c)] EXCEPT !.status = s].tried = jobs[JobOf(c)].tried
          /\ [jobs[JobOf(c)] EXCEPT !.status = s].status = s
        BY <2>4 DEF JobTypes
    <2>6. Settled(jobs, c, ok)[JobOf(c)] = [jobs[JobOf(c)] EXCEPT !.status = s]
        BY <2>1, <2>3 DEF Jobs
    <2>7. \A j \in Operations \X Images : j # JobOf(c) => Settled(jobs, c, ok)[j] = jobs[j]
        BY <2>3 DEF Jobs
    <2>8. Settled(jobs, c, ok) \in Jobs BY <2>1, <2>3, <2>5 DEF Jobs
    <2>9. Settled(jobs, c, ok)[JobOf(c)].tried = jobs[JobOf(c)].tried BY <2>5, <2>6
    <2>10. \A j \in Operations \X Images : Settled(jobs, c, ok)[j].tried <= jobs[j].tried
        <3> TAKE j \in Operations \X Images
        <3>1. jobs[j].tried \in Nat BY <1>1
        <3>2. CASE j = JobOf(c) BY <2>9, <3>1, <3>2
        <3>3. CASE j # JobOf(c) BY <2>7, <3>1, <3>3
        <3> QED BY <3>2, <3>3
    <2>11. Settled(jobs, c, ok)[JobOf(c)].status = s BY <2>5, <2>6
    <2>12. ok => s = "RESOLVED" BY <2>2
    <2>13. ~ok => s \in {"FAILED", "PENDING"} BY <2>2
    <2> QED BY <1>3, <2>7, <2>8, <2>10, <2>11, <2>12, <2>13
<1> QED BY <1>2, <1>3

\* A retry that ends well.
LEMMA SettledWell ==
    ASSUME NEW jobs \in Jobs, NEW c, c.of = "none" \/ (c.of \in Operations /\ c.image \in Images)
    PROVE /\ Settled(jobs, c, TRUE) \in Jobs
          /\ \A j \in Operations \X Images : Settled(jobs, c, TRUE)[j].tried <= jobs[j].tried
          /\ \A j \in Operations \X Images :
                c.of = "none" \/ j # JobOf(c) => Settled(jobs, c, TRUE)[j] = jobs[j]
          /\ c.of # "none" => Settled(jobs, c, TRUE)[JobOf(c)].status = "RESOLVED"
<1>1. ASSUME NEW j \in Operations \X Images, c.of = "none" \/ j # JobOf(c)
      PROVE Settled(jobs, c, TRUE)[j] = jobs[j]
    <2>1. PICK ok \in BOOLEAN : ok = TRUE OBVIOUS
    <2>2. Settled(jobs, c, ok)[j] = jobs[j] BY <1>1, SettledFacts
    <2> QED BY <2>1, <2>2
<1>2. /\ Settled(jobs, c, TRUE) \in Jobs
      /\ \A j \in Operations \X Images : Settled(jobs, c, TRUE)[j].tried <= jobs[j].tried
      /\ c.of # "none" => Settled(jobs, c, TRUE)[JobOf(c)].status = "RESOLVED"
    BY SettledFacts
<1> QED BY <1>1, <1>2

\* One call goes on, ends or begins: the calls are as they should be.
LEMMA CallsTyped ==
    ASSUME ImageTyped, NEW a \in Admins, NEW k \in Upload \cup {NoUpload}, CallShaped(k),
           BeginUpload(a, k), job' \in Jobs,
           k.kind = "retry" /\ k.at = "mark" => k = upload[a],
           \A j \in Operations \X Images : job'[j].tried <= job[j].tried
    PROVE /\ upload' \in [Admins -> Upload \cup {NoUpload}]
          /\ \A b \in Admins : CallShaped(upload'[b])
          /\ upload'[a] = k /\ \A b \in Admins \ {a} : upload'[b] = upload[b]
          /\ TriedBound'
<1>1. upload \in [Admins -> Upload \cup {NoUpload}] /\ job \in Jobs
    BY DEF ImageTyped, ImageTypeOK, Jobs, JobTypes
<1>2. upload'[a] = k /\ \A b \in Admins \ {a} : upload'[b] = upload[b]
    BY <1>1 DEF BeginUpload
<1>3. upload' \in [Admins -> Upload \cup {NoUpload}] BY <1>1 DEF BeginUpload
<1>4. \A b \in Admins : CallShaped(upload'[b])
    <2>1. \A b \in Admins : CallShaped(upload[b]) BY DEF ImageTyped
    <2> QED BY <1>2, <2>1
<1>5. TriedBound'
    <2>1. ASSUME NEW j \in Operations \X Images
          PROVE job'[j].tried + Cardinality(Marking(j)') <= MaxRetries + Cardinality(Admins) - 1
        <3>1. Marking(j)' \subseteq Marking(j) BY <1>2 DEF Marking, Stands
        <3>2. IsFiniteSet(Marking(j)) BY ImageConstants, FS_Subset DEF Marking
        <3>3. Cardinality(Marking(j)') <= Cardinality(Marking(j)) BY <3>1, <3>2, FS_Subset
        <3>4. Cardinality(Marking(j)) \in Nat /\ Cardinality(Marking(j)') \in Nat
            BY <3>1, <3>2, FS_Subset, FS_CardinalityType
        <3>5. job[j].tried \in Nat /\ job'[j].tried \in Nat BY <1>1 DEF Jobs, JobTypes
        <3>6. job[j].tried + Cardinality(Marking(j)) <= MaxRetries + Cardinality(Admins) - 1
            BY DEF ImageTyped, TriedBound
        <3>7. job'[j].tried <= job[j].tried OBVIOUS
        <3> QED BY <3>3, <3>4, <3>5, <3>6, <3>7, ImageConstants
    <2> QED BY <2>1 DEF TriedBound
<1> QED BY <1>2, <1>3, <1>4, <1>5

\* The bounds count what begins and what fails.
LEMMA CountersTyped ==
    ASSUME ImageTypeOK, imageManner' = imageManner,
           Counted \/ calls' = calls, Fault \/ faults' = faults
    PROVE /\ imageManner' \in ImageManners
          /\ faults' \in 0 .. MaxFaults /\ calls' \in 0 .. MaxCalls[imageManner']
<1>1. imageManner \in ImageManners /\ faults \in 0 .. MaxFaults
      /\ calls \in 0 .. MaxCalls[imageManner]
    BY DEF ImageTypeOK
<1>2. MaxCalls[imageManner] \in Nat BY <1>1, CallsBound
<1>3. faults' \in 0 .. MaxFaults BY <1>1, ImageConstants DEF Fault, MayFail
<1>4. calls' \in 0 .. MaxCalls[imageManner] BY <1>1, <1>2 DEF Counted
<1> QED BY <1>1, <1>3, <1>4

\* Where finalizeUpload begins: with no session it ends at once; otherwise it has a session
\* of its image.
FinalizeBegins(a, k, c, jobs) ==
    /\ k \in Upload \cup {NoUpload} /\ CallShaped(k) /\ BeginUpload(a, k)
    /\ k = NoUpload \/ /\ k.kind = "finalize" /\ k.at \in {"expired", "head"}
                       /\ k.image = c.image /\ k.of = c.of
                       /\ session[k.product].image = c.image /\ job' = jobs
    /\ job' \in Jobs
    /\ \A j \in Operations \X Images : job'[j].tried <= jobs[j].tried
    /\ \A j \in Operations \X Images :
          j # <<"FINALIZE", c.image>> \/ c.of = "none" => job'[j] = jobs[j]
    /\ k = NoUpload => SessionOf(c.image) = {}

\* Where a finalize begins: it waits for the store, or it ends at once.
LEMMA FinalizeStarts ==
    ASSUME ImageTyped, NEW a \in Admins, NEW c, NEW jobs \in Jobs, FinalizeAt(a, c, jobs),
           c.image \in Images, c.of \in {"none", "FINALIZE"}, c.next \in 0 .. MaxRetries
    PROVE \E k \in Upload \cup {NoUpload} : FinalizeBegins(a, k, c, jobs)
<1>0. \A j \in Operations \X Images : jobs[j].tried \in Nat BY DEF Jobs, JobTypes
<1>1. CASE SessionOf(c.image) = {}
    <2>1. BeginUpload(a, NoUpload) /\ job' = Settled(jobs, c, TRUE)
        BY <1>1 DEF FinalizeAt, BeginUpload
    <2>2. CallShaped(NoUpload) BY DEF CallShaped
    <2>3. c.of = "none" \/ (c.of \in Operations /\ c.image \in Images) BY DEF Operations
    <2>4. /\ job' \in Jobs
          /\ \A j \in Operations \X Images : job'[j].tried <= jobs[j].tried
          /\ \A j \in Operations \X Images : c.of = "none" \/ j # JobOf(c) => job'[j] = jobs[j]
        BY <2>1, <2>3, SettledWell
    <2>5. c.of # "none" => JobOf(c) = <<"FINALIZE", c.image>> BY DEF JobOf
    <2> QED BY <1>1, <2>1, <2>2, <2>4, <2>5 DEF FinalizeBegins
<1>2. CASE SessionOf(c.image) # {}
    <2> DEFINE p == CHOOSE p \in SessionOf(c.image) : TRUE
               k == [kind |-> "finalize", product |-> p, image |-> c.image,
                     at |-> IF session[p].expired THEN "expired" ELSE "head",
                     old |-> NoImage, known |-> {}, of |-> c.of, next |-> c.next]
    <2>1. p \in SessionOf(c.image) BY <1>2
    <2>2. p \in Products /\ session[p].image = c.image BY <2>1 DEF SessionOf
    <2>3. BeginUpload(a, k) /\ job' = jobs BY <1>2 DEF FinalizeAt
    <2> HIDE DEF p
    <2>4. k.at \in {"expired", "head"} OBVIOUS
    <2>5. k \in Upload BY <2>2, <2>4 DEF Upload, UploadKinds, Steps, Operations
    <2>6. CallShaped(k) BY <2>2, <2>4 DEF CallShaped
    <2>7. k # NoUpload BY NoUploadFields
    <2> QED BY <1>0, <2>2, <2>3, <2>4, <2>5, <2>6, <2>7 DEF FinalizeBegins
<1> QED BY <1>1, <1>2

\* A finalize that has thrown: a retry of it is resolved only if the session is gone.
LEMMA FinalizeThrows ==
    ASSUME ImageTyped, NEW a \in Admins, NEW tracked \in BOOLEAN, NEW after,
           upload[a].kind = "finalize", FinalizeFails(a, tracked, after)
    PROVE LET i == upload[a].image IN
          /\ i \in Images /\ BeginUpload(a, NoUpload) /\ job' \in Jobs
          /\ \A j \in Operations \X Images : job'[j].tried <= job[j].tried
          /\ \A j \in Operations \X Images : j # <<"FINALIZE", i>> => job'[j] = job[j]
          /\ job'[<<"FINALIZE", i>>].status = "RESOLVED" =>
                \/ job[<<"FINALIZE", i>>].status = "RESOLVED"
                \/ \A p \in Products : after[p].image # i
<1> DEFINE c == upload[a]
           i == c.image
           jobs == IF tracked THEN Track(job, "FINALIZE", i) ELSE job
           gone == \A p \in Products : after[p].image # i
           f == <<"FINALIZE", i>>
<1>1. job \in Jobs BY DEF ImageTyped, ImageTypeOK, Jobs, JobTypes
<1>2. i \in Images /\ c.of \in {"none", "FINALIZE"}
    BY NoUploadFields DEF ImageTyped, CallShaped
<1>3. BeginUpload(a, NoUpload) /\ job' = Settled(jobs, c, gone)
    BY DEF FinalizeFails, End, BeginUpload
<1>4. "FINALIZE" \in Operations BY DEF Operations
<1>5. f \in Operations \X Images BY <1>2, <1>4
<1>6. \A j \in Operations \X Images : job[j].tried \in Nat BY <1>1 DEF Jobs, JobTypes
<1>7. /\ jobs \in Jobs
      /\ \A j \in Operations \X Images : jobs[j].tried <= job[j].tried
      /\ \A j \in Operations \X Images : j # f => jobs[j] = job[j]
      /\ jobs = job \/ jobs[f].status \in {"PENDING", "RETRYING"}
    <2>1. CASE tracked BY <1>1, <1>2, <1>4, <2>1, TrackFacts
    <2>2. CASE ~tracked BY <1>1, <1>6, <2>2
    <2> QED BY <2>1, <2>2
<1>8. gone \in BOOLEAN OBVIOUS
<1>9. c.of = "none" \/ (c.of \in Operations /\ c.image \in Images) BY <1>2, <1>4
<1> HIDE DEF jobs, gone, c
<1>10. /\ job' \in Jobs
       /\ \A j \in Operations \X Images : job'[j].tried <= jobs[j].tried
       /\ \A j \in Operations \X Images : c.of = "none" \/ j # JobOf(c) => job'[j] = jobs[j]
       /\ c.of # "none" /\ ~gone => job'[JobOf(c)].status \in {"FAILED", "PENDING"}
    BY <1>3, <1>7, <1>8, <1>9, SettledFacts
<1>14. c.of # "none" => JobOf(c) = f BY <1>2 DEF JobOf
<1>11. \A j \in Operations \X Images : job'[j].tried <= job[j].tried
    <2> TAKE j \in Operations \X Images
    <2>1. job[j].tried \in Nat /\ jobs[j].tried \in Nat /\ job'[j].tried \in Nat
        BY <1>1, <1>7, <1>10 DEF Jobs, JobTypes
    <2>2. jobs[j].tried <= job[j].tried /\ job'[j].tried <= jobs[j].tried BY <1>7, <1>10
    <2> QED BY <2>1, <2>2
<1>12. \A j \in Operations \X Images : j # f => job'[j] = job[j] BY <1>7, <1>10, <1>14
<1>13. job'[f].status = "RESOLVED" => job[f].status = "RESOLVED" \/ gone
    <2>1. CASE c.of = "none"
        <3>1. job'[f] = jobs[f] BY <1>5, <1>10, <2>1
        <3> QED BY <1>7, <3>1
    <2>2. CASE c.of # "none" BY <1>10, <1>14, <2>2
    <2> QED BY <2>1, <2>2
<1> QED BY <1>2, <1>3, <1>10, <1>11, <1>12, <1>13 DEF c, gone

-----------------------------------------------------------------------------
\* A step of one call, which becomes k; and one that ends it or goes on with it.
Turn(a, k) ==
    /\ k \in Upload \cup {NoUpload} /\ CallShaped(k) /\ upload'[a] = k
    /\ \A b \in Admins \ {a} : upload'[b] = upload[b]
GoesOn(a, k) ==
    \/ k = NoUpload
    \/ /\ k.kind = upload[a].kind /\ k.product = upload[a].product
       /\ k.image = upload[a].image /\ k.of = upload[a].of

\* What leaves the life of an image as it was: its rows stand, sessions only end, calls begin
\* with what is known, and jobs of its finalize follow a finalize or its session.
LifeStays(i) ==
    /\ i \in used' <=> i \in used
    /\ assets'[i] = assets[i] /\ ownerOf'[i] = ownerOf[i]
    /\ \A p \in Products : imageKey'[p] = i =>
          imageKey[p] = i \/ \E a \in Admins : Writing(a, i)
    /\ i \in form' => i \in form
    /\ \A p \in Products : session'[p].image = i => session[p].image = i
    /\ \A a \in Admins : upload'[a].kind = "presign" /\ upload'[a].image = i =>
          Presigning(a, i) /\ upload'[a].product = upload[a].product
    /\ \A a \in Admins : upload'[a].kind \in {"legacy", "edit"} /\ upload'[a].image = i =>
          Writing(a, i) \/ i \in form \/ \E p \in Products : imageKey[p] = i
    /\ \A a \in Admins : upload'[a].kind = "finalize" /\ upload'[a].image = i =>
          \/ /\ upload[a].kind = "finalize" /\ upload[a].image = i
             /\ upload'[a].product = upload[a].product
          \/ upload'[a].product \in Products /\ session[upload'[a].product].image = i
    /\ \A a \in Admins :
          /\ upload'[a].image = i
          /\ upload'[a].kind = "finalize" \/ (upload'[a].kind = "retry" /\ upload'[a].of = "FINALIZE")
          => Finalized(i) \/ SessionOf(i) # {}
    /\ job'[<<"FINALIZE", i>>].status # "none" => Finalized(i) \/ SessionOf(i) # {}
    /\ job'[<<"FINALIZE", i>>].status = "RESOLVED" =>
          \/ job[<<"FINALIZE", i>>].status = "RESOLVED"
          \/ \A p \in Products : session'[p].image # i

\* The life of an image is kept by a step that moves it only forward.
LEMMA LifeKept ==
    ASSUME NEW i \in Images, LifeOf(i), form \subseteq used, LifeStays(i)
    PROVE LifeOf(i)'
<1>1. SessionOf(i)' \subseteq SessionOf(i) BY DEF SessionOf, LifeStays
<1>2. Waiting(i)' => Waiting(i) BY <1>1 DEF Waiting, Presigning, LifeStays
<1>3. Finalized(i)' => Finalized(i) \/ SessionOf(i) # {} BY DEF Finalized, Finalizing, LifeStays
<1>4. ASSUME i \notin used'
      PROVE /\ assets'[i] = 0 /\ ~Waiting(i)' /\ ~Finalized(i)'
            /\ \A p \in Products : imageKey'[p] # i
            /\ \A a \in Admins : ~(upload'[a].kind \in {"legacy", "edit"} /\ upload'[a].image = i)
    <2>2. i \notin used /\ i \notin form BY <1>4 DEF LifeStays
    <2>3. /\ assets[i] = 0 /\ ~Waiting(i) /\ ~Finalized(i)
          /\ \A p \in Products : imageKey[p] # i
          /\ \A a \in Admins : ~Writing(a, i)
        BY <2>2 DEF LifeOf
    <2>4. SessionOf(i) = {} BY <2>3 DEF Waiting
    <2>5. \A a \in Admins : ~(upload'[a].kind \in {"legacy", "edit"} /\ upload'[a].image = i)
        BY <2>2, <2>3 DEF LifeStays
    <2> QED BY <1>2, <1>3, <2>3, <2>4, <2>5 DEF LifeStays
<1>5. ASSUME Waiting(i)'
      PROVE /\ assets'[i] = 0 /\ i \notin form'
            /\ \A p \in Products : imageKey'[p] # i
            /\ \A a \in Admins : ~(upload'[a].kind \in {"legacy", "edit"} /\ upload'[a].image = i)
    <2>2. /\ assets[i] = 0 /\ i \notin form
          /\ \A p \in Products : imageKey[p] # i
          /\ \A a \in Admins : ~Writing(a, i)
        BY <1>2, <1>5 DEF LifeOf
    <2> QED BY <2>2 DEF LifeStays
<1>6. ASSUME NEW a \in Admins, Presigning(a, i)'
      PROVE /\ ownerOf'[i] = upload'[a].product /\ SessionOf(i)' = {} /\ ~Finalized(i)'
            /\ \A b \in Admins : Presigning(b, i)' => a = b
    <2>1. \A b \in Admins : Presigning(b, i)' =>
             Presigning(b, i) /\ upload'[b].product = upload[b].product
        BY DEF Presigning, LifeStays
    <2>2. /\ ownerOf[i] = upload[a].product /\ SessionOf(i) = {} /\ ~Finalized(i)
          /\ \A b \in Admins : Presigning(b, i) => a = b
        BY <1>6, <2>1 DEF LifeOf
    <2> QED BY <1>1, <1>3, <1>6, <2>1, <2>2 DEF LifeStays
<1>7. \A p \in Products : session'[p].image = i => ownerOf'[i] = p BY DEF LifeOf, LifeStays
<1>8. \A a \in Admins : upload'[a].kind = "finalize" /\ upload'[a].image = i =>
          ownerOf'[i] = upload'[a].product
    BY DEF LifeOf, LifeStays
<1>9. assets'[i] <= 1 BY DEF LifeOf, LifeStays
<1>10. job'[<<"FINALIZE", i>>].status = "RESOLVED" => SessionOf(i)' = {}
    <2>1. (\A p \in Products : session'[p].image # i) => SessionOf(i)' = {} BY DEF SessionOf
    <2> QED BY <1>1, <2>1 DEF LifeOf, LifeStays
<1> QED BY <1>4, <1>5, <1>6, <1>7, <1>8, <1>9, <1>10 DEF LifeOf, Writing

\* A call that goes on or ends leaves the lives of the images as they were.
LEMMA LifeOfTurn ==
    ASSUME ImageTyped, NEW a \in Admins, NEW k, Turn(a, k), GoesOn(a, k),
           used' = used, assets' = assets, ownerOf' = ownerOf, imageKey' = imageKey,
           form' \subseteq form,
           \A p \in Products : session'[p] = session[p] \/ session'[p].image = NoImage,
           NEW i \in Images, LifeOf(i),
           job'[<<"FINALIZE", i>>].status # "none" => Finalized(i),
           job'[<<"FINALIZE", i>>].status = "RESOLVED" =>
              \/ job[<<"FINALIZE", i>>].status = "RESOLVED"
              \/ \A p \in Products : session'[p].image # i
    PROVE LifeOf(i)'
<1>1. NoImage # i /\ form \subseteq used
    BY ImageConstants DEF ImageTyped, ImageTypeOK
<1>2. \A b \in Admins : upload'[b].kind \in {"presign", "finalize", "legacy", "edit", "retry"} =>
         /\ upload'[b].kind = upload[b].kind /\ upload'[b].product = upload[b].product
         /\ upload'[b].image = upload[b].image /\ upload'[b].of = upload[b].of
    BY NoUploadFields DEF Turn, GoesOn
<1>3. /\ \A b \in Admins : upload'[b].kind = "presign" /\ upload'[b].image = i =>
            Presigning(b, i) /\ upload'[b].product = upload[b].product
      /\ \A b \in Admins : upload'[b].kind \in {"legacy", "edit"} /\ upload'[b].image = i =>
            Writing(b, i)
      /\ \A b \in Admins : upload'[b].kind = "finalize" /\ upload'[b].image = i =>
            /\ upload[b].kind = "finalize" /\ upload[b].image = i
            /\ upload'[b].product = upload[b].product
    BY <1>2 DEF Presigning, Writing
<1>4. ASSUME NEW b \in Admins, upload'[b].image = i,
             upload'[b].kind = "finalize" \/ (upload'[b].kind = "retry" /\ upload'[b].of = "FINALIZE")
      PROVE Finalized(i)
    BY <1>2, <1>4 DEF Finalized, Finalizing
<1>5. \A p \in Products : session'[p].image = i => session[p].image = i BY <1>1
<1>6. LifeStays(i) BY <1>1, <1>3, <1>4, <1>5 DEF LifeStays
<1> QED BY <1>1, <1>6, LifeKept

\* What keeps the calls of a serial behaviour apart, and the room they count on.
SerialStays ==
    /\ imageManner' = imageManner
    /\ \A p \in Products : AssetCount(p)' = AssetCount(p)
    /\ \A p \in Products : session'[p] # NoSession => session[p] # NoSession
    /\ \A a \in Admins : upload'[a].kind = "presign" =>
          upload[a].kind = "presign" /\ upload'[a].product = upload[a].product
    /\ imageManner # "any" =>
          \A a, b \in Admins : upload'[a].kind # "none" /\ upload'[b].kind # "none" => a = b

\* Calls in turn stay in turn when no second call begins.
LEMMA SerialKept == ASSUME SerialHeld, SerialStays PROVE SerialHeld'
<1>1. SUFFICES ASSUME imageManner # "any" PROVE SerialHeld'
    BY DEF SerialHeld, SerialStays
<1>2. \A p \in Products : AssetCount(p)' = AssetCount(p) BY DEF SerialStays
<1>3. \A a, b \in Admins : ~Free(a)' /\ ~Free(b)' => a = b BY <1>1 DEF Free, SerialStays
<1>4. \A p \in Products : /\ AssetCount(p)' <= MaxImages
                          /\ session'[p] # NoSession => AssetCount(p)' < MaxImages
    BY <1>1, <1>2 DEF SerialHeld, HasRoom, SerialStays
<1>5. ASSUME NEW a \in Admins, NEW p \in Products,
             upload'[a].kind = "presign" /\ upload'[a].product = p
      PROVE AssetCount(p)' < MaxImages
    BY <1>1, <1>2, <1>5 DEF SerialHeld, HasRoom, SerialStays
<1> QED BY <1>3, <1>4, <1>5 DEF SerialHeld, HasRoom, Free

\* In turn, the call at work is the only one.
LEMMA SerialTurn ==
    ASSUME ImageTyped, SerialHeld, NEW a \in Admins, NEW k, Turn(a, k),
           imageManner' = imageManner, assets' = assets, ownerOf' = ownerOf,
           \A p \in Products : session'[p] # NoSession => session[p] # NoSession,
           k.kind # "none" =>
              upload[a].kind # "none" \/ (imageManner # "any" => \A b \in Admins : Free(b)),
           k.kind = "presign" => upload[a].kind = "presign" /\ k.product = upload[a].product
    PROVE SerialHeld'
<1>1. ASSUME imageManner # "any", NEW b \in Admins, NEW c \in Admins,
             upload'[b].kind # "none", upload'[c].kind # "none"
      PROVE b = c
    <2>1. \A x, y \in Admins : upload[x].kind # "none" /\ upload[y].kind # "none" => x = y
        BY <1>1 DEF SerialHeld, Free
    <2> QED BY <1>1, <2>1 DEF Turn, Free
<1>2. SerialStays BY <1>1 DEF SerialStays, AssetCount, Turn
<1> QED BY <1>2, SerialKept

\* What leaves the images of a careful behaviour as they were.
CarefulStays ==
    /\ imageManner' = imageManner /\ imageKey' = imageKey /\ active' = active
    /\ form' \subseteq form /\ stored \subseteq stored'
    /\ Careful =>
          /\ \A i \in Images, op \in Operations \ {"FINALIZE"} : job'[<<op, i>>] = job[<<op, i>>]
          /\ \A a \in Admins :
                \/ upload'[a] = upload[a]
                \/ /\ upload[a].kind \notin {"legacy", "edit"}
                   /\ upload'[a].kind \notin {"legacy", "edit", "cleanup"}
                   /\ upload'[a].kind = "finalize" /\ upload'[a].at = "commit" =>
                         upload'[a].image \in stored
                   /\ upload'[a].kind = "retry" => upload'[a].of = "FINALIZE"

\* Careful use is kept by a step that gives no image to a second holder.
LEMMA CarefulKept == ASSUME CarefulHeld, CarefulStays PROVE CarefulHeld'
<1>1. SUFFICES ASSUME Careful PROVE CarefulHeld'
    BY DEF CarefulHeld, CarefulStays, Careful
<1>2. \A i \in Images, op \in Operations \ {"FINALIZE"} : job'[<<op, i>>].status = "none"
    <2>1. \A i \in Images, op \in Operations \ {"FINALIZE"} : job[<<op, i>>].status = "none"
        BY <1>1 DEF CarefulHeld
    <2>2. \A i \in Images, op \in Operations \ {"FINALIZE"} : job'[<<op, i>>] = job[<<op, i>>]
        BY <1>1 DEF CarefulStays
    <2> QED BY <2>1, <2>2
<1>3. form' \subseteq stored' /\ \A p \in Products : imageKey'[p] \notin form'
    BY <1>1 DEF CarefulHeld, CarefulStays
<1>4. \A p, q \in Products : imageKey'[p] = imageKey'[q] /\ p # q => imageKey'[p] = NoImage
    <2>1. \A p, q \in Products : imageKey[p] = imageKey[q] /\ p # q => imageKey[p] = NoImage
        BY <1>1 DEF CarefulHeld
    <2> QED BY <2>1 DEF CarefulStays
<1>5. ASSUME NEW p \in Products
      PROVE \/ NamesStored(p)'
            \/ \E a \in Admins : /\ upload'[a].kind \in {"legacy", "edit"}
                                 /\ upload'[a].at = "write"
                                 /\ upload'[a].product = p /\ upload'[a].image # NoImage
    <2>1. CASE NamesStored(p) BY <2>1 DEF NamesStored, CarefulStays
    <2>2. CASE \E a \in Admins : /\ upload[a].kind \in {"legacy", "edit"}
                                 /\ upload[a].at = "write"
                                 /\ upload[a].product = p /\ upload[a].image # NoImage
        BY <1>1, <2>2 DEF CarefulStays
    <2> QED BY <1>1, <2>1, <2>2 DEF CarefulHeld
<1>6. ASSUME NEW a \in Admins
      PROVE /\ upload'[a].kind \in {"legacy", "edit"} => WriterHeld(a)'
            /\ upload'[a].kind = "cleanup" => CleanerHeld(a)'
            /\ upload'[a].kind = "finalize" /\ upload'[a].at = "commit" =>
                   upload'[a].image \in stored'
            /\ upload'[a].kind = "retry" => upload'[a].of = "FINALIZE"
    <2>1. CASE upload'[a] = upload[a]
        <3>1. upload[a].kind \in {"legacy", "edit"} => WriterHeld(a)'
            BY <1>1, <2>1 DEF CarefulHeld, WriterHeld, CarefulStays
        <3>2. upload[a].kind = "cleanup" => CleanerHeld(a)'
            BY <1>1, <2>1 DEF CarefulHeld, CleanerHeld, CarefulStays
        <3> QED BY <1>1, <2>1, <3>1, <3>2 DEF CarefulHeld, CarefulStays, Stands
    <2>2. CASE upload'[a] # upload[a] BY <1>1, <2>2 DEF CarefulStays
    <2> QED BY <2>1, <2>2
<1> QED BY <1>2, <1>3, <1>4, <1>5, <1>6 DEF CarefulHeld, Stands

-----------------------------------------------------------------------------
TablesTyped ==
    /\ stored \subseteq used /\ handed \subseteq used /\ form \subseteq used
    /\ used \subseteq Images
    /\ imageKey \in [Products -> Images \cup {NoImage}] /\ active \in [Products -> BOOLEAN]
    /\ assets \in [Images -> Nat]
    /\ ownerOf \in [Images -> Products \cup {NoProduct}]
    /\ session \in [Products -> [image : Images \cup {NoImage}, expired : BOOLEAN]]
    /\ \A p \in Products : session[p].image = NoImage => session[p] = NoSession

\* What the types say of one call, session and job.
LEMMA TypedFacts ==
    ASSUME ImageTyped
    PROVE /\ TablesTyped /\ job \in Jobs /\ upload \in [Admins -> Upload \cup {NoUpload}]
          /\ \A a \in Admins : upload[a] \in Upload \cup {NoUpload} /\ CallShaped(upload[a])
          /\ \A j \in Operations \X Images : job[j].tried \in Nat
BY DEF ImageTyped, ImageTypeOK, TablesTyped, Jobs, JobTypes

\* A step of one call whose tables keep their types, and a step of none.
LEMMA TypedTurn ==
    ASSUME ImageTyped, NEW a \in Admins, NEW k \in Upload \cup {NoUpload}, CallShaped(k),
           BeginUpload(a, k), job' \in Jobs,
           k.kind = "retry" /\ k.at = "mark" => k = upload[a],
           \A j \in Operations \X Images : job'[j].tried <= job[j].tried,
           imageManner' = imageManner, Counted \/ calls' = calls, Fault \/ faults' = faults,
           TablesTyped'
    PROVE ImageTyped' /\ Turn(a, k)
<1>1. /\ upload' \in [Admins -> Upload \cup {NoUpload}]
      /\ \A b \in Admins : CallShaped(upload'[b])
      /\ upload'[a] = k /\ \A b \in Admins \ {a} : upload'[b] = upload[b]
      /\ TriedBound'
    BY CallsTyped
<1>2. ImageTypeOK BY DEF ImageTyped
<1>3. /\ imageManner' \in ImageManners
      /\ faults' \in 0 .. MaxFaults /\ calls' \in 0 .. MaxCalls[imageManner']
    BY <1>2, CountersTyped
<1>4. ImageTypeOK' BY <1>1, <1>3 DEF ImageTypeOK, TablesTyped, Jobs, JobTypes
<1>5. \A b \in Admins : CallShaped(upload[b])'
    BY <1>1 DEF CallShaped
<1>6. \A p \in Products : session'[p].image = NoImage => session'[p] = NoSession
    BY DEF TablesTyped
<1>7. Turn(a, k) BY <1>1 DEF Turn
<1> QED BY <1>1, <1>4, <1>5, <1>6, <1>7 DEF ImageTyped

\* The types are kept by a step that leaves the jobs and their readers alone.
LEMMA TypedStill ==
    ASSUME ImageTyped, upload' = upload, job' \in Jobs,
           \A j \in Operations \X Images : job'[j].tried <= job[j].tried,
           imageManner' = imageManner, Counted \/ calls' = calls, Fault \/ faults' = faults,
           TablesTyped'
    PROVE ImageTyped'
<1>1. ImageTypeOK /\ job \in Jobs BY TypedFacts DEF ImageTyped
<1>2. /\ imageManner' \in ImageManners
      /\ faults' \in 0 .. MaxFaults /\ calls' \in 0 .. MaxCalls[imageManner']
    BY <1>1, CountersTyped
<1>3. ImageTypeOK' BY <1>1, <1>2 DEF ImageTypeOK, TablesTyped, Jobs, JobTypes
<1>4. TriedBound'
    <2>1. ASSUME NEW j \in Operations \X Images
          PROVE job'[j].tried + Cardinality(Marking(j)') <= MaxRetries + Cardinality(Admins) - 1
        <3>1. Marking(j)' = Marking(j) BY DEF Marking, Stands
        <3>2. Cardinality(Marking(j)) \in Nat
            BY ImageConstants, FS_Subset, FS_CardinalityType DEF Marking
        <3>3. job[j].tried \in Nat /\ job'[j].tried \in Nat BY <1>1 DEF Jobs, JobTypes
        <3>4. job[j].tried + Cardinality(Marking(j)) <= MaxRetries + Cardinality(Admins) - 1
            BY DEF ImageTyped, TriedBound
        <3> QED BY <3>1, <3>2, <3>3, <3>4, ImageConstants
    <2> QED BY <2>1 DEF TriedBound
<1>5. \A b \in Admins : CallShaped(upload[b])' BY DEF ImageTyped, CallShaped
<1>6. \A p \in Products : session'[p].image = NoImage => session'[p] = NoSession
    BY DEF TablesTyped
<1> QED BY <1>3, <1>4, <1>5, <1>6 DEF ImageTyped

\* A call that goes on or ends, neither of an edit nor of the cleanup.
LEMMA QuietTurn ==
    ASSUME ImageInv, ImageTyped', NEW a \in Admins, NEW k, Turn(a, k), GoesOn(a, k),
           upload[a].kind \in {"presign", "finalize", "retry"},
           imageManner' = imageManner, used' = used, stored' = stored, form' = form,
           imageKey' = imageKey, active' = active, assets' = assets, ownerOf' = ownerOf,
           \A p \in Products : session'[p] = session[p] \/ session'[p] = NoSession,
           \A j \in Operations \X Images : j[1] # "FINALIZE" => job'[j] = job[j],
           \A i \in Images : job'[<<"FINALIZE", i>>].status # "none" => Finalized(i),
           \A i \in Images : job'[<<"FINALIZE", i>>].status = "RESOLVED" =>
              \/ job[<<"FINALIZE", i>>].status = "RESOLVED"
              \/ \A p \in Products : session'[p].image # i,
           k.kind = "finalize" /\ k.at = "commit" => upload[a].image \in stored
    PROVE ImageInv'
<1>1. ImageTyped /\ SerialHeld /\ CarefulHeld /\ \A i \in Images : LifeOf(i) BY DEF ImageInv
<1>2. \A p \in Products : session'[p] = session[p] \/ session'[p].image = NoImage
    BY DEF NoSession
<1>3. ASSUME NEW i \in Images PROVE LifeOf(i)'
    <2>1. LifeOf(i) BY <1>1
    <2>2. job'[<<"FINALIZE", i>>].status # "none" => Finalized(i) OBVIOUS
    <2>3. job'[<<"FINALIZE", i>>].status = "RESOLVED" =>
              \/ job[<<"FINALIZE", i>>].status = "RESOLVED"
              \/ \A p \in Products : session'[p].image # i
        OBVIOUS
    <2> QED BY <1>1, <1>2, <2>1, <2>2, <2>3, LifeOfTurn
<1>4. SerialHeld'
    <2>1. k.kind # "none" =>
             upload[a].kind # "none" \/ (imageManner # "any" => \A b \in Admins : Free(b))
        OBVIOUS
    <2>2. k.kind = "presign" => upload[a].kind = "presign" /\ k.product = upload[a].product
        BY NoUploadFields DEF GoesOn
    <2>3. \A p \in Products : session'[p] # NoSession => session[p] # NoSession OBVIOUS
    <2> QED BY <1>1, <2>1, <2>2, <2>3, SerialTurn
<1>5. CarefulHeld'
    <2>1. ASSUME NEW i \in Images, NEW op \in Operations \ {"FINALIZE"}
          PROVE job'[<<op, i>>] = job[<<op, i>>]
        OBVIOUS
    <2>2. ASSUME Careful, upload'[a].kind = "retry" PROVE upload'[a].of = "FINALIZE"
        BY <1>1, <2>2, NoUploadFields DEF CarefulHeld, Turn, GoesOn
    <2>3. /\ upload[a].kind \notin {"legacy", "edit"}
          /\ upload'[a].kind \notin {"legacy", "edit", "cleanup"}
          /\ upload'[a].kind = "finalize" /\ upload'[a].at = "commit" =>
                 upload'[a].image \in stored
        BY NoUploadFields DEF Turn, GoesOn
    <2>4. \A b \in Admins : b # a => upload'[b] = upload[b] BY DEF Turn
    <2>5. CarefulStays BY <2>1, <2>2, <2>3, <2>4 DEF CarefulStays
    <2> QED BY <1>1, <2>5, CarefulKept
<1> QED BY <1>3, <1>4, <1>5 DEF ImageInv

-----------------------------------------------------------------------------
\* The parts of the invariant, as the proofs cite them.
LEMMA InvFacts ==
    ASSUME ImageInv
    PROVE /\ ImageTyped /\ TablesTyped /\ SerialHeld /\ CarefulHeld
          /\ \A i \in Images : LifeOf(i)
          /\ job \in Jobs /\ upload \in [Admins -> Upload \cup {NoUpload}]
          /\ \A a \in Admins : upload[a] \in Upload \cup {NoUpload} /\ CallShaped(upload[a])
          /\ \A j \in Operations \X Images : job[j].tried \in Nat
          /\ \A j \in Operations \X Images : job[j].tried <= job[j].tried
<1>1. ImageTyped BY DEF ImageInv
<1>2. \A j \in Operations \X Images : job[j].tried \in Nat BY <1>1, TypedFacts
<1>3. ASSUME NEW j \in Operations \X Images PROVE job[j].tried <= job[j].tried BY <1>2
<1> QED BY <1>1, <1>2, <1>3, TypedFacts DEF ImageInv

\* NoUpload is the end of any call.
LEMMA EndOfCall ==
    /\ NoUpload \in Upload \cup {NoUpload} /\ CallShaped(NoUpload)
    /\ NoUpload.kind = "none" /\ \A a \in Admins : GoesOn(a, NoUpload)
BY NoUploadFields DEF CallShaped, GoesOn

\* A call that stands at a step holds the fields of that step.
LEMMA StandingFields ==
    ASSUME ImageInv, NEW a \in Admins, NEW kind, NEW at, Stands(a, kind, at), kind # "none"
    PROVE /\ upload[a] \in Upload /\ upload[a].kind = kind /\ upload[a].at = at
          /\ CallShaped(upload[a]) /\ upload[a] # NoUpload
BY InvFacts, NoUploadFields DEF Stands

\* A call goes on to another step.
LEMMA GoesTo ==
    ASSUME ImageInv, NEW a \in Admins, NEW at \in Steps, NEW known \in SUBSET Images,
           upload[a] \in Upload
    PROVE LET k == Moved(upload[a], at, known) IN
          /\ k \in Upload \cup {NoUpload} /\ GoesOn(a, k) /\ k.at = at /\ k.known = known
          /\ k.kind = upload[a].kind /\ k.product = upload[a].product
          /\ k.image = upload[a].image /\ k.of = upload[a].of /\ k.old = upload[a].old
BY MovedFields DEF GoesOn

\* Presigning: the limit is read, the old session goes, the new one is written.
LEMMA PresignReadsKept == ASSUME ImageInv, NEW a \in Admins, PresignReads(a) PROVE ImageInv'
<1>1. /\ upload[a] \in Upload /\ upload[a].kind = "presign" /\ upload[a].at = "list"
      /\ CallShaped(upload[a]) /\ upload[a] # NoUpload
    BY StandingFields DEF PresignReads
<1>2. /\ upload[a].product \in Products /\ upload[a].image \in Images BY <1>1 DEF CallShaped
<1>3. PICK k : k \in {NoUpload, Moved(upload[a], "create", {}), Moved(upload[a], "expired", {})}
               /\ BeginUpload(a, k)
    BY DEF PresignReads, GoTo, End, BeginUpload
<1>4. /\ k \in Upload \cup {NoUpload} /\ CallShaped(k) /\ GoesOn(a, k)
      /\ k.kind \in {"none", "presign"}
    <2>1. CASE k = NoUpload BY <2>1, EndOfCall
    <2>2. CASE k # NoUpload
        <3>1. PICK at \in {"create", "expired"} : k = Moved(upload[a], at, {}) BY <1>3, <2>2
        <3>2. at \in Steps /\ {} \in SUBSET Images BY DEF Steps
        <3>3. /\ k \in Upload \cup {NoUpload} /\ GoesOn(a, k) /\ k.at = at
              /\ k.kind = upload[a].kind /\ k.product = upload[a].product
              /\ k.image = upload[a].image
            BY <1>1, <3>1, <3>2, GoesTo
        <3> QED BY <1>1, <1>2, <3>3 DEF CallShaped
    <2> QED BY <2>1, <2>2
<1>5. /\ UNCHANGED <<imageManner, used, stored, handed, form, imageKey, active, assets, ownerOf,
                     session, job, faults, calls>>
    BY DEF PresignReads, tables
<1>6. TablesTyped' BY <1>5, InvFacts DEF TablesTyped
<1>7. ImageTyped' /\ Turn(a, k) BY <1>3, <1>4, <1>5, <1>6, InvFacts, TypedTurn
<1>8. \A i \in Images : job'[<<"FINALIZE", i>>].status # "none" => Finalized(i)
    BY <1>5 DEF Finalized
<1>9. \A i \in Images : job'[<<"FINALIZE", i>>].status = "RESOLVED" =>
              \/ job[<<"FINALIZE", i>>].status = "RESOLVED"
              \/ \A p \in Products : session'[p].image # i
    BY <1>5
<1> QED BY <1>1, <1>4, <1>5, <1>7, <1>8, <1>9, QuietTurn

LEMMA PresignDeletesKept == ASSUME ImageInv, NEW a \in Admins, PresignDeletes(a) PROVE ImageInv'
<1>1. /\ upload[a] \in Upload /\ upload[a].kind = "presign" /\ upload[a].at = "expired"
      /\ CallShaped(upload[a]) /\ upload[a] # NoUpload
    BY StandingFields DEF PresignDeletes
<1>2. /\ upload[a].product \in Products /\ upload[a].image \in Images BY <1>1 DEF CallShaped
<1>3. PICK k : k \in {NoUpload, Moved(upload[a], "create", {})} /\ BeginUpload(a, k)
    BY DEF PresignDeletes, GoTo, End, BeginUpload
<1>4. /\ k \in Upload \cup {NoUpload} /\ CallShaped(k) /\ GoesOn(a, k)
      /\ k.kind \in {"none", "presign"}
    <2>1. CASE k = NoUpload BY <2>1, EndOfCall
    <2>2. CASE k # NoUpload
        <3>1. k = Moved(upload[a], "create", {}) BY <1>3, <2>2
        <3>2. "create" \in Steps /\ {} \in SUBSET Images BY DEF Steps
        <3>3. /\ k \in Upload \cup {NoUpload} /\ GoesOn(a, k) /\ k.at = "create"
              /\ k.kind = upload[a].kind /\ k.product = upload[a].product
              /\ k.image = upload[a].image
            BY <1>1, <3>1, <3>2, GoesTo
        <3> QED BY <1>1, <1>2, <3>3 DEF CallShaped
    <2> QED BY <2>1, <2>2
<1>5. /\ UNCHANGED <<imageManner, used, stored, handed, form, imageKey, active, assets, ownerOf,
                     job, faults, calls>>
      /\ session' = [session EXCEPT ![upload[a].product] = NoSession]
    BY DEF PresignDeletes
<1>6. NoSession \in [image : Images \cup {NoImage}, expired : BOOLEAN] BY DEF NoSession
<1>7. TablesTyped' BY <1>2, <1>5, <1>6, InvFacts DEF TablesTyped
<1>8. ImageTyped' /\ Turn(a, k) BY <1>3, <1>4, <1>5, <1>7, InvFacts, TypedTurn
<1>9. \A p \in Products : session'[p] = session[p] \/ session'[p] = NoSession
    BY <1>5, InvFacts DEF TablesTyped
<1>10. \A i \in Images : job'[<<"FINALIZE", i>>].status # "none" => Finalized(i)
    BY <1>5 DEF Finalized
<1>11. \A i \in Images : job'[<<"FINALIZE", i>>].status = "RESOLVED" =>
              \/ job[<<"FINALIZE", i>>].status = "RESOLVED"
              \/ \A p \in Products : session'[p].image # i
    BY <1>5
<1> QED BY <1>1, <1>4, <1>5, <1>8, <1>9, <1>10, <1>11, QuietTurn

\* A finalize that ends with an error, and with some sessions over.
LEMMA FinalizeEndsKept ==
    ASSUME ImageInv, NEW a \in Admins, NEW tracked \in BOOLEAN,
           upload[a].kind = "finalize", FinalizeFails(a, tracked, session'),
           UNCHANGED <<imageManner, used, stored, handed, form, imageKey, active, assets, ownerOf>>,
           Fault \/ faults' = faults, calls' = calls,
           session' \in [Products -> [image : Images \cup {NoImage}, expired : BOOLEAN]],
           \A p \in Products : session'[p] = session[p] \/ session'[p] = NoSession
    PROVE ImageInv'
<1> DEFINE i == upload[a].image
<1>1. /\ i \in Images /\ BeginUpload(a, NoUpload) /\ job' \in Jobs
      /\ \A j \in Operations \X Images : job'[j].tried <= job[j].tried
      /\ \A j \in Operations \X Images : j # <<"FINALIZE", i>> => job'[j] = job[j]
      /\ job'[<<"FINALIZE", i>>].status = "RESOLVED" =>
            \/ job[<<"FINALIZE", i>>].status = "RESOLVED"
            \/ \A p \in Products : session'[p].image # i
    BY InvFacts, FinalizeThrows
<1>2. TablesTyped' BY InvFacts DEF TablesTyped, NoSession
<1>3. ImageTyped' /\ Turn(a, NoUpload) BY <1>1, <1>2, InvFacts, EndOfCall, TypedTurn
<1>4. "FINALIZE" \in Operations BY DEF Operations
<1>5. Finalized(i) BY DEF Finalized, Finalizing
<1>6. ASSUME NEW x \in Images
      PROVE /\ job'[<<"FINALIZE", x>>].status # "none" => Finalized(x)
            /\ job'[<<"FINALIZE", x>>].status = "RESOLVED" =>
                  \/ job[<<"FINALIZE", x>>].status = "RESOLVED"
                  \/ \A p \in Products : session'[p].image # x
    <2>1. CASE x = i BY <1>1, <1>5, <2>1
    <2>2. CASE x # i
        <3>1. job'[<<"FINALIZE", x>>] = job[<<"FINALIZE", x>>] BY <1>1, <1>4, <2>2
        <3> QED BY <3>1 DEF Finalized
    <2> QED BY <2>1, <2>2
<1>7. \A j \in Operations \X Images : j[1] # "FINALIZE" => job'[j] = job[j] BY <1>1
<1> QED BY <1>3, <1>6, <1>7, EndOfCall, QuietTurn

\* Finalizing: the session is looked up, then the object.
LEMMA FinalizeExpiredKept == ASSUME ImageInv, NEW a \in Admins, FinalizeExpired(a) PROVE ImageInv'
<1>1. upload[a].kind = "finalize" BY DEF FinalizeExpired, Stands
<1>2. session' = [p \in Products |-> IF session[p].image = upload[a].image
                                     THEN NoSession ELSE session[p]]
      /\ FinalizeFails(a, FALSE, session')
    BY DEF FinalizeExpired
<1>3. session' \in [Products -> [image : Images \cup {NoImage}, expired : BOOLEAN]]
      /\ \A p \in Products : session'[p] = session[p] \/ session'[p] = NoSession
    BY <1>2, InvFacts DEF TablesTyped, NoSession
<1>4. /\ UNCHANGED <<imageManner, used, stored, handed, form, imageKey, active, assets, ownerOf>>
      /\ faults' = faults /\ calls' = calls
    BY DEF FinalizeExpired
<1> QED BY <1>1, <1>2, <1>3, <1>4, FinalizeEndsKept

LEMMA FinalizeHeadsKept == ASSUME ImageInv, NEW a \in Admins, FinalizeHeads(a) PROVE ImageInv'
<1>1. /\ upload[a] \in Upload /\ upload[a].kind = "finalize" /\ upload[a].at = "head"
      /\ CallShaped(upload[a]) /\ upload[a] # NoUpload
    BY StandingFields DEF FinalizeHeads
<1>2. /\ UNCHANGED <<imageManner, used, stored, handed, form, imageKey, active, assets, ownerOf,
                     session>>
      /\ calls' = calls
    BY DEF FinalizeHeads, tables
<1>3. CASE FinalizeFails(a, TRUE, session) /\ (Fault \/ faults' = faults)
    <2>1. FinalizeFails(a, TRUE, session') BY <1>2, <1>3
    <2>2. session' \in [Products -> [image : Images \cup {NoImage}, expired : BOOLEAN]]
          /\ \A p \in Products : session'[p] = session[p] \/ session'[p] = NoSession
        BY <1>2, InvFacts DEF TablesTyped
    <2> QED BY <1>1, <1>2, <1>3, <2>1, <2>2, FinalizeEndsKept
<1>4. CASE upload[a].image \in stored /\ GoTo(a, "commit") /\ UNCHANGED <<job, faults>>
    <2> DEFINE k == Moved(upload[a], "commit", {})
    <2>1. BeginUpload(a, k) BY <1>4 DEF GoTo
    <2>2. "commit" \in Steps /\ {} \in SUBSET Images BY DEF Steps
    <2>3. /\ k \in Upload \cup {NoUpload} /\ GoesOn(a, k) /\ k.at = "commit"
          /\ k.kind = upload[a].kind /\ k.product = upload[a].product
          /\ k.image = upload[a].image /\ k.of = upload[a].of
        BY <1>1, <2>2, GoesTo
    <2> HIDE DEF k
    <2>4. CallShaped(k) BY <1>1, <2>3 DEF CallShaped
    <2>5. TablesTyped' BY <1>2, InvFacts DEF TablesTyped
    <2>6. ImageTyped' /\ Turn(a, k)
              BY <1>1, <1>2, <1>4, <2>1, <2>3, <2>4, <2>5, InvFacts, TypedTurn
    <2>7. \A i \in Images : job'[<<"FINALIZE", i>>].status # "none" => Finalized(i)
        BY <1>4 DEF Finalized
    <2>8. \A i \in Images : job'[<<"FINALIZE", i>>].status = "RESOLVED" =>
              \/ job[<<"FINALIZE", i>>].status = "RESOLVED"
              \/ \A p \in Products : session'[p].image # i
        BY <1>4
    <2> QED BY <1>1, <1>2, <1>4, <2>3, <2>6, <2>7, <2>8, QuietTurn
<1> QED BY <1>3, <1>4 DEF FinalizeHeads

\* A presign begins.
LEMMA PresignKept ==
    ASSUME ImageInv, NEW a \in Admins, NEW p \in Products, NEW i \in Images, Presign(a, p, i)
    PROVE ImageInv'
<1> DEFINE k0 == NewUpload("presign", "list", p, i, NoImage)
<1>1. /\ Free(a) /\ Counted /\ i \notin used
      /\ used' = used \cup {i} /\ ownerOf' = [ownerOf EXCEPT ![i] = p]
      /\ UNCHANGED <<imageManner, stored, handed, form, imageKey, active, assets, session, job,
                     faults>>
    BY DEF Presign, MayBegin
<1>2. upload' = upload \/ (HasRoom(p) /\ BeginUpload(a, k0)) BY DEF Presign
<1>3. /\ k0 \in Upload /\ k0.kind = "presign" /\ k0.at = "list" /\ k0.product = p
      /\ k0.image = i /\ k0.of = "none"
    <2>1. "presign" \in UploadKinds /\ "list" \in Steps BY DEF UploadKinds, Steps
    <2> QED BY <2>1, NewUploadFields
<1> HIDE DEF k0
<1>4. CallShaped(k0) BY <1>3 DEF CallShaped
<1>5. TablesTyped' BY <1>1, InvFacts DEF TablesTyped
<1>6. ImageTyped' /\ (upload' = upload \/ (HasRoom(p) /\ Turn(a, k0)))
    <2>1. CASE upload' = upload BY <1>1, <1>5, <2>1, InvFacts, TypedStill
    <2>2. CASE HasRoom(p) /\ BeginUpload(a, k0)
        BY <1>1, <1>3, <1>4, <1>5, <2>2, InvFacts, TypedTurn
    <2> QED BY <1>2, <2>1, <2>2
<1>7. \A b \in Admins : upload'[b] = upload[b] \/ (b = a /\ HasRoom(p) /\ upload'[b] = k0)
    BY <1>6 DEF Turn
<1>8. \A x \in Images : LifeOf(x) /\ NoImage # x BY InvFacts, ImageConstants
<1>9. /\ assets[i] = 0 /\ ~Waiting(i) /\ ~Finalized(i)
      /\ \A q \in Products : imageKey[q] # i
      /\ \A b \in Admins : ~Writing(b, i)
    BY <1>1, <1>8 DEF LifeOf
<1>10. /\ SessionOf(i) = {} /\ \A b \in Admins : ~Presigning(b, i) /\ ~Finalizing(b, i)
       /\ job[<<"FINALIZE", i>>].status = "none"
    BY <1>9 DEF Waiting, Finalized
<1>11. ASSUME NEW x \in Images, x # i PROVE LifeOf(x)'
    <2>1. LifeStays(x)
        BY <1>1, <1>3, <1>7, <1>11, InvFacts
            DEF LifeStays, Presigning, Writing, Finalized, Finalizing,
                                                TablesTyped
    <2>2. form \subseteq used BY InvFacts DEF TablesTyped
    <2> QED BY <1>8, <2>1, <2>2, LifeKept
<1>12. LifeOf(i)'
    <2>1. ownerOf'[i] = p /\ i \in used' /\ i \notin form /\ assets'[i] = 0
        BY <1>1, <1>9, InvFacts DEF TablesTyped
    <2>2. \A b \in Admins : Presigning(b, i)' => b = a /\ upload'[b].product = p
        BY <1>3, <1>7, <1>10 DEF Presigning
    <2>3. \A b \in Admins : ~(upload'[b].kind \in {"legacy", "edit"} /\ upload'[b].image = i)
        BY <1>3, <1>7, <1>9 DEF Writing
    <2>4. ASSUME NEW b \in Admins, upload'[b].image = i
          PROVE /\ upload'[b].kind # "finalize"
                /\ ~(upload'[b].kind = "retry" /\ upload'[b].of = "FINALIZE")
        BY <1>3, <1>7, <1>10, <2>4 DEF Finalizing
    <2>5. ~Finalized(i)' BY <1>1, <1>10, <2>4 DEF Finalized, Finalizing
    <2>6. SessionOf(i)' = {} /\ \A q \in Products : session'[q].image # i
        BY <1>1, <1>10 DEF SessionOf
    <2>7. \A q \in Products : imageKey'[q] # i BY <1>1, <1>9
    <2>8. i \notin form' /\ job'[<<"FINALIZE", i>>].status = "none" BY <1>1, <1>10, <2>1
    <2> QED BY <2>1, <2>2, <2>3, <2>4, <2>5, <2>6, <2>7, <2>8 DEF LifeOf, Writing
<1>13. SerialHeld'
    <2>1. SUFFICES ASSUME imageManner # "any" PROVE SerialHeld'
        BY <1>1 DEF SerialHeld
    <2>2. \A q \in Products : AssetCount(q)' = AssetCount(q)
        <3> TAKE q \in Products
        <3>2. {x \in Images : ownerOf'[x] = q /\ assets'[x] > 0}
                 = {x \in Images : ownerOf[x] = q /\ assets[x] > 0}
            BY <1>1, <1>9, InvFacts DEF TablesTyped
        <3> QED BY <3>2 DEF AssetCount
    <2>3. \A b \in Admins : upload[b].kind = "none" BY <1>1, <2>1 DEF Counted, Free
    <2>4. \A b, c \in Admins : upload'[b].kind # "none" /\ upload'[c].kind # "none" => b = c
        BY <1>7, <2>3
    <2>5. SerialHeld BY InvFacts
    <2>6. \A q \in Products : /\ AssetCount(q)' <= MaxImages
                              /\ session'[q] # NoSession => AssetCount(q)' < MaxImages
        BY <1>1, <2>1, <2>2, <2>5 DEF SerialHeld, HasRoom
    <2>7. ASSUME NEW b \in Admins, NEW q \in Products,
                 upload'[b].kind = "presign", upload'[b].product = q
          PROVE AssetCount(q)' < MaxImages
        BY <1>3, <1>7, <2>2, <2>3, <2>7 DEF HasRoom
    <2> QED BY <2>4, <2>6, <2>7 DEF SerialHeld, HasRoom, Free
<1>14. CarefulHeld'
    <2>1. CarefulStays BY <1>1, <1>3, <1>7 DEF CarefulStays, Free
    <2> QED BY <2>1, InvFacts, CarefulKept
<1> QED BY <1>6, <1>11, <1>12, <1>13, <1>14 DEF ImageInv

\* The new session is written, unless the product got one meanwhile.
LEMMA PresignCreatesKept == ASSUME ImageInv, NEW a \in Admins, PresignCreates(a) PROVE ImageInv'
<1>1. /\ upload[a] \in Upload /\ upload[a].kind = "presign" /\ upload[a].at = "create"
      /\ CallShaped(upload[a]) /\ upload[a] # NoUpload
    BY StandingFields DEF PresignCreates
<1>2. PICK p \in Products, i \in Images : upload[a].product = p /\ upload[a].image = i
    BY <1>1 DEF CallShaped
<1>3. /\ BeginUpload(a, NoUpload)
      /\ UNCHANGED <<imageManner, used, stored, form, imageKey, active, assets, ownerOf, job,
                     faults, calls>>
    BY DEF PresignCreates, End, BeginUpload
<1>4. CASE UNCHANGED <<session, handed>>
    <2>1. TablesTyped' BY <1>3, <1>4, InvFacts DEF TablesTyped
    <2>2. ImageTyped' /\ Turn(a, NoUpload) BY <1>3, <2>1, InvFacts, EndOfCall, TypedTurn
    <2>3. \A x \in Images : job'[<<"FINALIZE", x>>].status # "none" => Finalized(x)
        BY <1>3 DEF Finalized
    <2>4. \A x \in Images : job'[<<"FINALIZE", x>>].status = "RESOLVED" =>
              \/ job[<<"FINALIZE", x>>].status = "RESOLVED"
              \/ \A q \in Products : session'[q].image # x
        BY <1>3
    <2> QED BY <1>1, <1>3, <1>4, <2>2, <2>3, <2>4, EndOfCall, QuietTurn
<1>5. CASE /\ session' = [session EXCEPT ![p] = [image |-> i, expired |-> FALSE]]
           /\ handed' = handed \cup {i}
    <2> DEFINE s == [image |-> i, expired |-> FALSE]
    <2>1. s \in [image : Images \cup {NoImage}, expired : BOOLEAN] /\ s.image = i BY <1>2
    <2>2. i \in used /\ LifeOf(i) /\ \A x \in Images : LifeOf(x) /\ NoImage # x
        BY <1>1, <1>2, InvFacts, ImageConstants DEF LifeOf, Waiting, Presigning
    <2> HIDE DEF s
    <2>3. session'[p] = s /\ \A q \in Products \ {p} : session'[q] = session[q]
        BY <1>2, <1>5, InvFacts DEF TablesTyped, s
    <2>4. session' \in [Products -> [image : Images \cup {NoImage}, expired : BOOLEAN]]
        BY <1>2, <1>5, <2>1, InvFacts DEF TablesTyped, s
    <2>5. TablesTyped'
        BY <1>2, <1>3, <1>5, <2>1, <2>2, <2>3, <2>4, InvFacts DEF TablesTyped
    <2>6. ImageTyped' /\ Turn(a, NoUpload) BY <1>3, <2>5, InvFacts, EndOfCall, TypedTurn
    <2>7. Presigning(a, i) /\ upload[a].product = p BY <1>1, <1>2 DEF Presigning
    <2>8. /\ ownerOf[i] = p /\ SessionOf(i) = {} /\ ~Finalized(i)
          /\ \A b \in Admins : Presigning(b, i) => a = b
          /\ assets[i] = 0 /\ i \notin form
          /\ \A q \in Products : imageKey[q] # i
          /\ \A b \in Admins : ~Writing(b, i)
        BY <2>2, <2>7 DEF LifeOf, Waiting
    <2>9. \A b \in Admins : upload'[b] = upload[b] \/ (b = a /\ upload'[b] = NoUpload)
        BY <2>6 DEF Turn
    <2>10. \A b \in Admins : upload'[b].kind # "none" => upload'[b] = upload[b] /\ b # a
        BY <2>6, <2>9, NoUploadFields DEF Turn
    <2>11. ASSUME NEW x \in Images, x # i PROVE LifeOf(x)'
        <3>1. LifeStays(x)
            BY <1>3, <2>1, <2>3, <2>10, <2>11
                DEF LifeStays, Presigning, Writing, Finalized, Finalizing
        <3>2. form \subseteq used BY InvFacts DEF TablesTyped
        <3> QED BY <2>2, <3>1, <3>2, LifeKept
    <2>12. LifeOf(i)'
        <3>1. \A b \in Admins : ~(upload'[b].kind = "presign" /\ upload'[b].image = i)
            BY <2>8, <2>10 DEF Presigning
        <3>2. \A b \in Admins : ~(upload'[b].kind \in {"legacy", "edit"} /\ upload'[b].image = i)
            BY <2>8, <2>10 DEF Writing
        <3>3. \A b \in Admins : ~(upload'[b].kind = "finalize" /\ upload'[b].image = i)
            BY <2>8, <2>10 DEF Finalized, Finalizing
        <3>4. \A q \in Products : session'[q].image = i => ownerOf'[i] = q
            BY <1>3, <2>3, <2>8 DEF SessionOf
        <3>5. job'[<<"FINALIZE", i>>].status = "none" BY <1>3, <2>8 DEF Finalized
        <3> QED BY <1>3, <2>2, <2>8, <3>1, <3>2, <3>3, <3>4, <3>5 DEF LifeOf, Presigning, Writing
    <2>13. SerialHeld'
        <3>1. SUFFICES ASSUME imageManner # "any" PROVE SerialHeld'
            BY <1>3 DEF SerialHeld
        <3>2. \A q \in Products : AssetCount(q)' = AssetCount(q) BY <1>3 DEF AssetCount
        <3>3. SerialHeld BY InvFacts
        <3>4. \A b, c \in Admins : upload'[b].kind # "none" /\ upload'[c].kind # "none" => b = c
            BY <2>10, <3>1, <3>3 DEF SerialHeld, Free
        <3>5. AssetCount(p) < MaxImages BY <1>1, <1>2, <2>7, <3>1, <3>3 DEF SerialHeld, HasRoom
        <3>6. \A q \in Products : /\ AssetCount(q)' <= MaxImages
                                  /\ session'[q] # NoSession => AssetCount(q)' < MaxImages
            BY <2>3, <3>1, <3>2, <3>3, <3>5 DEF SerialHeld, HasRoom
        <3>7. ASSUME NEW b \in Admins, NEW q \in Products,
                     upload'[b].kind = "presign", upload'[b].product = q
              PROVE AssetCount(q)' < MaxImages
            BY <2>10, <3>1, <3>2, <3>3, <3>7 DEF SerialHeld, HasRoom
        <3> QED BY <3>4, <3>6, <3>7 DEF SerialHeld, HasRoom, Free
    <2>14. CarefulHeld'
        <3>1. CarefulStays BY <1>1, <1>3, <2>9, NoUploadFields DEF CarefulStays
        <3> QED BY <3>1, InvFacts, CarefulKept
    <2> QED BY <2>6, <2>11, <2>12, <2>13, <2>14 DEF ImageInv
<1> QED BY <1>2, <1>4, <1>5 DEF PresignCreates

\* No call takes part: objects appear, sessions run out or are closed, forms are abandoned.
LEMMA NobodyCalls ==
    ASSUME ImageInv, upload' = upload, job' = job, faults' = faults,
           Counted \/ calls' = calls, TablesTyped',
           imageManner' = imageManner, used' = used, stored \subseteq stored',
           form' \subseteq form, imageKey' = imageKey, active' = active,
           assets' = assets, ownerOf' = ownerOf,
           \A p \in Products : session'[p] # NoSession =>
              session[p] # NoSession /\ session'[p].image = session[p].image
    PROVE ImageInv'
<1>1. ImageTyped' BY InvFacts, TypedStill
<1>2. \A p \in Products : session'[p].image \in Images => session'[p] # NoSession
    BY ImageConstants DEF NoSession
<1>3. ASSUME NEW i \in Images PROVE LifeOf(i)'
    <2>1. LifeStays(i)
        BY <1>2 DEF LifeStays, Presigning, Writing, Finalized, Finalizing
    <2>2. form \subseteq used /\ LifeOf(i) BY InvFacts DEF TablesTyped
    <2> QED BY <2>1, <2>2, LifeKept
<1>4. SerialHeld'
    <2>1. SerialHeld BY InvFacts
    <2>2. SerialStays BY <2>1 DEF SerialStays, AssetCount, SerialHeld, Free
    <2> QED BY <2>1, <2>2, SerialKept
<1>5. CarefulHeld'
    <2>1. CarefulStays BY DEF CarefulStays
    <2> QED BY <2>1, InvFacts, CarefulKept
<1> QED BY <1>1, <1>3, <1>4, <1>5 DEF ImageInv

\* What the browser and the clock do between the calls.
LEMMA ClientPutsKept == ASSUME ImageInv, NEW i \in Images, ClientPuts(i) PROVE ImageInv'
<1>1. /\ i \in handed /\ stored' = stored \cup {i}
      /\ UNCHANGED <<imageManner, used, handed, form, imageKey, active, assets, ownerOf, session,
                     upload, job, faults, calls>>
    BY DEF ClientPuts, tables
<1>2. TablesTyped' BY <1>1, InvFacts DEF TablesTyped
<1> QED BY <1>1, <1>2, NobodyCalls

LEMMA AbandonFormKept == ASSUME ImageInv, NEW i \in Images, AbandonForm(i) PROVE ImageInv'
<1>1. /\ form' = form \ {i}
      /\ UNCHANGED <<imageManner, used, stored, handed, imageKey, active, assets, ownerOf,
                     session,
                     upload, job, faults, calls>>
    BY DEF AbandonForm, tables
<1>2. TablesTyped' BY <1>1, InvFacts DEF TablesTyped
<1> QED BY <1>1, <1>2, NobodyCalls

LEMMA TimeRunsOutKept == ASSUME ImageInv, NEW p \in Products, TimeRunsOut(p) PROVE ImageInv'
<1>1. /\ session[p] # NoSession /\ session' = [session EXCEPT ![p].expired = TRUE]
      /\ handed' \subseteq handed
      /\ UNCHANGED <<imageManner, used, stored, form, imageKey, active, assets, ownerOf,
                     upload, job, faults, calls>>
    BY DEF TimeRunsOut
<1>2. session \in [Products -> [image : Images \cup {NoImage}, expired : BOOLEAN]]
    BY InvFacts DEF TablesTyped
<1>3. /\ session' \in [Products -> [image : Images \cup {NoImage}, expired : BOOLEAN]]
      /\ session'[p].image = session[p].image
      /\ \A q \in Products \ {p} : session'[q] = session[q]
    BY <1>1, <1>2
<1>4. session[p].image # NoImage BY <1>1, InvFacts DEF TablesTyped
<1>5. TablesTyped' BY <1>1, <1>3, <1>4, InvFacts DEF TablesTyped
<1>6. \A q \in Products : session'[q] # NoSession =>
         session[q] # NoSession /\ session'[q].image = session[q].image
    BY <1>1, <1>3
<1> QED BY <1>1, <1>5, <1>6, NobodyCalls

LEMMA ForceCloseKept == ASSUME ImageInv, NEW p \in Products, ForceClose(p) PROVE ImageInv'
<1>1. /\ session' = [session EXCEPT ![p] = NoSession] /\ Counted
      /\ UNCHANGED <<imageManner, used, stored, handed, form, imageKey, active, assets, ownerOf,
                     upload, job, faults>>
    BY DEF ForceClose
<1>2. session \in [Products -> [image : Images \cup {NoImage}, expired : BOOLEAN]]
    BY InvFacts DEF TablesTyped
<1>3. NoSession \in [image : Images \cup {NoImage}, expired : BOOLEAN] BY DEF NoSession
<1>4. /\ session' \in [Products -> [image : Images \cup {NoImage}, expired : BOOLEAN]]
      /\ session'[p] = NoSession /\ \A q \in Products \ {p} : session'[q] = session[q]
    BY <1>1, <1>2, <1>3
<1>5. TablesTyped' BY <1>1, <1>4, InvFacts DEF TablesTyped
<1>6. \A q \in Products : session'[q] # NoSession =>
         session[q] # NoSession /\ session'[q].image = session[q].image
    BY <1>4
<1> QED BY <1>1, <1>5, <1>6, NobodyCalls

\* A call that has a session of its image, or none to begin with, begins with FinalizeAt.
LEMMA FinalizeTurn ==
    ASSUME ImageInv, ImageTyped', NEW a \in Admins, NEW k, Turn(a, k), NEW i \in Images,
           imageManner' = imageManner, used' = used, stored' = stored, form' = form,
           imageKey' = imageKey, active' = active, assets' = assets, ownerOf' = ownerOf,
           session' = session,
           upload[a].kind \in {"none", "retry"},
           k = NoUpload \/ (/\ k.kind = "finalize" /\ k.at \in {"expired", "head"}
                            /\ k.image = i /\ session[k.product].image = i),
           k.kind # "none" =>
              upload[a].kind # "none" \/ (imageManner # "any" => \A b \in Admins : Free(b)),
           \A j \in Operations \X Images : j # <<"FINALIZE", i>> => job'[j] = job[j],
           job'[<<"FINALIZE", i>>] = job[<<"FINALIZE", i>>]
              \/ (Finalized(i) /\ (k = NoUpload => SessionOf(i) = {})
                  /\ (k # NoUpload => job'[<<"FINALIZE", i>>].status # "RESOLVED"))
    PROVE ImageInv'
<1>1. \A b \in Admins : upload'[b] = upload[b] \/ (b = a /\ upload'[b] = k) BY DEF Turn
<1>2. k.kind \in {"none", "finalize"} /\ k.at # "commit" BY NoUploadFields
<1>3. k # NoUpload => k.product \in Products /\ SessionOf(i) # {}
    BY NoUploadFields DEF Turn, CallShaped, SessionOf
<1>4. \A x \in Images : LifeOf(x) /\ NoImage # x BY InvFacts, ImageConstants
<1>5. "FINALIZE" \in Operations BY DEF Operations
<1>6. ASSUME NEW x \in Images PROVE LifeOf(x)'
    <2>1. /\ job'[<<"FINALIZE", x>>].status # "none" => Finalized(x)
          /\ job'[<<"FINALIZE", x>>].status = "RESOLVED" =>
                \/ job[<<"FINALIZE", x>>].status = "RESOLVED"
                \/ \A p \in Products : session'[p].image # x
        <3>1. CASE x # i
            <4>1. job'[<<"FINALIZE", x>>] = job[<<"FINALIZE", x>>] BY <1>5, <3>1
            <4> QED BY <4>1 DEF Finalized
        <3>2. CASE x = i
            BY <3>2 DEF Finalized, SessionOf
        <3> QED BY <3>1, <3>2
    <2>2. /\ \A b \in Admins : upload'[b].kind = "presign" /\ upload'[b].image = x =>
                Presigning(b, x) /\ upload'[b].product = upload[b].product
          /\ \A b \in Admins : upload'[b].kind \in {"legacy", "edit"} /\ upload'[b].image = x =>
                Writing(b, x)
        BY <1>1, <1>2 DEF Presigning, Writing
    <2>3. ASSUME NEW b \in Admins, upload'[b].kind = "finalize", upload'[b].image = x
          PROVE \/ /\ upload[b].kind = "finalize" /\ upload[b].image = x
                   /\ upload'[b].product = upload[b].product
                \/ upload'[b].product \in Products /\ session[upload'[b].product].image = x
        BY <1>1, <1>3, <2>3, NoUploadFields
    <2>4. ASSUME NEW b \in Admins, upload'[b].image = x,
                 upload'[b].kind = "finalize" \/ (upload'[b].kind = "retry" /\ upload'[b].of = "FINALIZE")
          PROVE Finalized(x) \/ SessionOf(x) # {}
        <3>1. CASE upload'[b] = upload[b] BY <2>4, <3>1 DEF Finalized, Finalizing
        <3>2. CASE upload'[b] = k BY <1>3, <2>4, <3>2, NoUploadFields
        <3> QED BY <1>1, <3>1, <3>2
    <2>5. LifeStays(x) BY <2>1, <2>2, <2>3, <2>4 DEF LifeStays
    <2>6. form \subseteq used BY InvFacts DEF TablesTyped
    <2> QED BY <1>4, <2>5, <2>6, LifeKept
<1>7. SerialHeld' BY <1>2, InvFacts, SerialTurn
<1>8. CarefulHeld'
    <2>1. ASSUME NEW x \in Images, NEW op \in Operations \ {"FINALIZE"}
          PROVE job'[<<op, x>>] = job[<<op, x>>]
        OBVIOUS
    <2>2. CarefulStays BY <1>1, <1>2, <2>1 DEF CarefulStays
    <2> QED BY <2>2, InvFacts, CarefulKept
<1> QED BY <1>6, <1>7, <1>8 DEF ImageInv

\* A finalize begins.
LEMMA FinalizeKept ==
    ASSUME ImageInv, NEW a \in Admins, NEW i \in Images, Finalize(a, i) PROVE ImageInv'
<1> DEFINE c == NewUpload("finalize", "head", NoProduct, i, NoImage)
<1>1. /\ Free(a) /\ Counted /\ FinalizeAt(a, c, job)
      /\ UNCHANGED <<imageManner, used, stored, handed, form, imageKey, active, assets, ownerOf,
                     session, faults>>
    BY DEF Finalize, MayBegin, tables
<1>2. c.image = i /\ c.of = "none" /\ c.next \in 0 .. MaxRetries
    BY ImageConstants DEF NewUpload
<1> HIDE DEF c
<1>3. PICK k \in Upload \cup {NoUpload} : FinalizeBegins(a, k, c, job)
    BY <1>1, <1>2, InvFacts, FinalizeStarts
<1>4. /\ CallShaped(k) /\ BeginUpload(a, k) /\ job' \in Jobs
      /\ k = NoUpload \/ /\ k.kind = "finalize" /\ k.at \in {"expired", "head"}
                         /\ k.image = i /\ session[k.product].image = i
      /\ \A j \in Operations \X Images : job'[j].tried <= job[j].tried
    BY <1>2, <1>3 DEF FinalizeBegins
<1>5. \A j \in Operations \X Images : job'[j] = job[j] BY <1>2, <1>3 DEF FinalizeBegins
<1>6. TablesTyped' BY <1>1, InvFacts DEF TablesTyped
<1>7. ImageTyped' /\ Turn(a, k) BY <1>1, <1>4, <1>6, InvFacts, NoUploadFields, TypedTurn
<1>8. <<"FINALIZE", i>> \in Operations \X Images BY DEF Operations
<1>9. job'[<<"FINALIZE", i>>] = job[<<"FINALIZE", i>>] BY <1>5, <1>8
<1>10. imageManner # "any" => \A b \in Admins : Free(b) BY <1>1 DEF Counted
<1> QED BY <1>1, <1>4, <1>5, <1>7, <1>9, <1>10, FinalizeTurn DEF Free

\* A job is read by an admin that will retry it.
LEMMA RetryKept ==
    ASSUME ImageInv, NEW a \in Admins, NEW op \in Operations, NEW i \in Images, Retry(a, op, i)
    PROVE ImageInv'
<1> DEFINE k == [kind |-> "retry", at |-> "mark", product |-> NoProduct, image |-> i,
                 old |-> NoImage, known |-> {}, of |-> op, next |-> job[<<op, i>>].tried + 1]
           o == <<op, i>>
<1>1. /\ Free(a) /\ Counted /\ MayRetry(op, i) /\ BeginUpload(a, k)
      /\ UNCHANGED <<imageManner, used, stored, handed, form, imageKey, active, assets, ownerOf,
                     session, job, faults>>
    BY DEF Retry, MayBegin, tables
<1>2. o \in Operations \X Images OBVIOUS
<1>3. job[o].tried \in Nat /\ job[o].tried < MaxRetries
      /\ job[o].status \in {"PENDING", "RETRYING", "RESOLVED"}
    BY <1>1, <1>2, InvFacts DEF MayRetry
<1>4. job[o].tried + 1 \in 0 .. MaxRetries BY <1>3, ImageConstants
<1>5. k \in Upload BY <1>4 DEF Upload, UploadKinds, Steps
<1>6. /\ k.kind = "retry" /\ k.at = "mark" /\ k.image = i /\ k.of = op
      /\ <<k.of, k.image>> = o
    OBVIOUS
<1> HIDE DEF k
<1>7. CallShaped(k) BY <1>6 DEF CallShaped
<1>8. upload'[a] = k /\ \A b \in Admins \ {a} : upload'[b] = upload[b]
    BY <1>1, InvFacts DEF BeginUpload
<1>9. Turn(a, k) BY <1>5, <1>7, <1>8 DEF Turn
<1>10. ImageTyped'
    <2>1. ImageTypeOK BY InvFacts DEF ImageTyped
    <2>2. /\ imageManner' \in ImageManners
          /\ faults' \in 0 .. MaxFaults /\ calls' \in 0 .. MaxCalls[imageManner']
        BY <1>1, <2>1, CountersTyped
    <2>3. upload' \in [Admins -> Upload \cup {NoUpload}] BY <1>1, <1>5, InvFacts DEF BeginUpload
    <2>4. ImageTypeOK' BY <1>1, <2>1, <2>2, <2>3 DEF ImageTypeOK
    <2>5. ASSUME NEW j \in Operations \X Images
          PROVE job'[j].tried + Cardinality(Marking(j)') <= MaxRetries + Cardinality(Admins) - 1
        <3>1. IsFiniteSet(Marking(j)) /\ Cardinality(Marking(j)) \in Nat
            BY ImageConstants, FS_Subset, FS_CardinalityType DEF Marking
        <3>2. job[j].tried \in Nat BY InvFacts
        <3>3. job[j].tried + Cardinality(Marking(j)) <= MaxRetries + Cardinality(Admins) - 1
            BY InvFacts DEF ImageTyped, TriedBound
        <3>4. CASE j # o
            <4>1. Marking(j)' \subseteq Marking(j) BY <1>6, <1>8, <3>4 DEF Marking, Stands
            <4>2. Cardinality(Marking(j)') <= Cardinality(Marking(j))
                  /\ Cardinality(Marking(j)') \in Nat
                BY <3>1, <4>1, FS_Subset, FS_CardinalityType
            <4> QED BY <1>1, <3>2, <3>1, <3>3, <4>2, ImageConstants
        <3>5. CASE j = o
            <4>1. Marking(j)' \subseteq Admins BY DEF Marking
            <4>2. Cardinality(Marking(j)') <= Cardinality(Admins) /\ Cardinality(Marking(j)') \in Nat
                BY <4>1, ImageConstants, FS_Subset, FS_CardinalityType
            <4>3. job[j].tried < MaxRetries BY <1>3, <3>5
            <4> QED BY <1>1, <3>2, <4>2, <4>3, ImageConstants
        <3> QED BY <3>4, <3>5
    <2>6. TriedBound' BY <2>5 DEF TriedBound
    <2>7. \A b \in Admins : CallShaped(upload'[b]) BY <1>7, <1>8, InvFacts
    <2>8. \A b \in Admins : CallShaped(upload[b])' BY <2>7 DEF CallShaped
    <2>9. \A p \in Products : session'[p].image = NoImage => session'[p] = NoSession
        BY <1>1, InvFacts DEF TablesTyped
    <2> QED BY <2>4, <2>6, <2>8, <2>9 DEF ImageTyped
<1>11. ASSUME NEW x \in Images PROVE LifeOf(x)'
    <2>1. LifeOf(x) /\ form \subseteq used BY InvFacts DEF TablesTyped
    <2>2. \A b \in Admins : upload'[b] = upload[b] \/ (b = a /\ upload'[b] = k) BY <1>8
    <2>3. ASSUME NEW b \in Admins, upload'[b].image = x,
                 upload'[b].kind = "finalize" \/ (upload'[b].kind = "retry" /\ upload'[b].of = "FINALIZE")
          PROVE Finalized(x)
        <3>1. CASE upload'[b] = upload[b] BY <2>3, <3>1 DEF Finalized, Finalizing
        <3>2. CASE upload'[b] = k BY <1>3, <1>6, <2>3, <3>2 DEF Finalized
        <3> QED BY <2>2, <3>1, <3>2
    <2>4. job'[<<"FINALIZE", x>>].status # "none" => Finalized(x) BY <1>1 DEF Finalized
    <2>5. LifeStays(x) BY <1>1, <1>6, <2>2, <2>3, <2>4 DEF LifeStays, Presigning, Writing
    <2> QED BY <2>1, <2>5, LifeKept
<1>12. SerialHeld'
    <2>1. k.kind # "none" =>
             upload[a].kind # "none" \/ (imageManner # "any" => \A b \in Admins : Free(b))
        BY <1>1 DEF Counted
    <2> QED BY <1>1, <1>6, <1>9, <2>1, InvFacts, SerialTurn
<1>13. CarefulHeld'
    <2>1. ASSUME Careful PROVE op = "FINALIZE"
        <3>1. \A x \in Images, y \in Operations \ {"FINALIZE"} : job[<<y, x>>].status = "none"
            BY <2>1, InvFacts DEF CarefulHeld
        <3> QED BY <1>3, <3>1
    <2>2. CarefulStays BY <1>1, <1>6, <1>8, <2>1 DEF CarefulStays, Free
    <2> QED BY <2>2, InvFacts, CarefulKept
<1> QED BY <1>10, <1>11, <1>12, <1>13 DEF ImageInv

\* A job that is marked: its admin no longer stands before the mark, and it was tried once more.
LEMMA MarkedTyped ==
    ASSUME ImageTyped, NEW a \in Admins, NEW k \in Upload \cup {NoUpload}, CallShaped(k),
           BeginUpload(a, k), ~(k.kind = "retry" /\ k.at = "mark"), NEW o \in Operations \X Images,
           a \in Marking(o), job' \in Jobs,
           \A j \in Operations \X Images : j # o => job'[j].tried <= job[j].tried,
           job'[o].tried <= job[o].tried + 1,
           UNCHANGED <<imageManner, used, stored, handed, form, imageKey, active, assets, ownerOf,
                       session, faults, calls>>
    PROVE ImageTyped' /\ Turn(a, k)
<1>1. upload'[a] = k /\ \A b \in Admins \ {a} : upload'[b] = upload[b]
    BY TypedFacts DEF BeginUpload
<1>2. upload' \in [Admins -> Upload \cup {NoUpload}] BY TypedFacts DEF BeginUpload
<1>3. ImageTypeOK' BY <1>2 DEF ImageTyped, ImageTypeOK, Jobs, JobTypes
<1>4. ASSUME NEW j \in Operations \X Images
      PROVE job'[j].tried + Cardinality(Marking(j)') <= MaxRetries + Cardinality(Admins) - 1
    <2>1. IsFiniteSet(Marking(j)) /\ Cardinality(Marking(j)) \in Nat
        BY ImageConstants, FS_Subset, FS_CardinalityType DEF Marking
    <2>2. job[j].tried \in Nat /\ job'[j].tried \in Nat BY TypedFacts DEF Jobs, JobTypes
    <2>3. job[j].tried + Cardinality(Marking(j)) <= MaxRetries + Cardinality(Admins) - 1
        BY DEF ImageTyped, TriedBound
    <2>4. Marking(j)' \subseteq Marking(j) \ {a} BY <1>1 DEF Marking, Stands
    <2>5. CASE j # o
        <3>1. Cardinality(Marking(j)') <= Cardinality(Marking(j))
              /\ Cardinality(Marking(j)') \in Nat
            BY <2>1, <2>4, FS_Subset, FS_CardinalityType
        <3> QED BY <2>2, <2>1, <2>3, <2>5, <3>1, ImageConstants
    <2>6. CASE j = o
        <3>1. a \in Marking(j) BY <2>6
        <3>2. /\ IsFiniteSet(Marking(j) \ {a})
              /\ Cardinality(Marking(j) \ {a}) = Cardinality(Marking(j)) - 1
            BY <2>1, <3>1, FS_RemoveElement
        <3>3. Cardinality(Marking(j)') <= Cardinality(Marking(j) \ {a})
              /\ Cardinality(Marking(j)') \in Nat
            BY <2>4, <3>2, FS_Subset, FS_CardinalityType
        <3>4. job'[j].tried <= job[j].tried + 1 BY <2>6
        <3> QED BY <2>2, <2>1, <2>3, <3>2, <3>3, <3>4, ImageConstants
    <2> QED BY <2>5, <2>6
<1>5. TriedBound' BY <1>4 DEF TriedBound
<1>6. \A b \in Admins : CallShaped(upload'[b]) BY <1>1, TypedFacts
<1>7. \A b \in Admins : CallShaped(upload[b])' BY <1>6 DEF CallShaped
<1>8. \A p \in Products : session'[p].image = NoImage => session'[p] = NoSession
    BY TypedFacts DEF TablesTyped
<1>9. Turn(a, k) BY <1>1 DEF Turn
<1> QED BY <1>3, <1>5, <1>7, <1>8, <1>9 DEF ImageTyped

\* The job is marked, one attempt more, and its work begins.
LEMMA RetryMarksKept == ASSUME ImageInv, NEW a \in Admins, RetryMarks(a) PROVE ImageInv'
<1>1. /\ upload[a] \in Upload /\ upload[a].kind = "retry" /\ upload[a].at = "mark"
      /\ CallShaped(upload[a]) /\ upload[a] # NoUpload
    BY StandingFields DEF RetryMarks
<1>2. PICK op \in Operations, i \in Images : upload[a].of = op /\ upload[a].image = i
    BY <1>1 DEF CallShaped
<1>3. PICK o \in Operations \X Images : o = <<op, i>> OBVIOUS
<1> DEFINE marked == [job EXCEPT ![o] = [status |-> "RETRYING", tried |-> job[o].tried + 1]]
<1>4. UNCHANGED <<imageManner, used, stored, handed, form, imageKey, active, assets, ownerOf,
                  session, faults, calls>>
    BY DEF RetryMarks, tables
<1>5. /\ op = "FINALIZE" => FinalizeAt(a, upload[a], marked)
      /\ op # "FINALIZE" => GoTo(a, "erase") /\ job' = marked
    BY <1>2, <1>3 DEF RetryMarks
<1>6. a \in Marking(o) BY <1>1, <1>2, <1>3 DEF Marking, Stands
<1>7. job[o].tried + 1 \in 0 .. MaxRetries + Cardinality(Admins) - 1
    <2>1. IsFiniteSet(Marking(o)) /\ Cardinality(Marking(o)) \in Nat
        BY ImageConstants, FS_Subset, FS_CardinalityType DEF Marking
    <2>2. Cardinality(Marking(o) \ {a}) = Cardinality(Marking(o)) - 1
          /\ Cardinality(Marking(o) \ {a}) \in Nat
        BY <1>6, <2>1, FS_RemoveElement, FS_CardinalityType
    <2>3. job[o].tried + Cardinality(Marking(o)) <= MaxRetries + Cardinality(Admins) - 1
        BY InvFacts DEF ImageTyped, TriedBound
    <2>4. job[o].tried \in Nat BY InvFacts
    <2> QED BY <2>1, <2>2, <2>3, <2>4, ImageConstants
<1>8. /\ marked \in Jobs /\ marked[o].status = "RETRYING" /\ marked[o].tried = job[o].tried + 1
      /\ \A j \in Operations \X Images : j # o => marked[j] = job[j]
    BY <1>7, InvFacts DEF Jobs, JobTypes
<1> HIDE DEF marked
<1>9. CASE op = "FINALIZE"
    <2>1. upload[a].next \in 0 .. MaxRetries BY <1>1 DEF Upload
    <2>2. PICK k \in Upload \cup {NoUpload} : FinalizeBegins(a, k, upload[a], marked)
        BY <1>2, <1>5, <1>8, <1>9, <2>1, InvFacts, FinalizeStarts
    <2>3. /\ CallShaped(k) /\ BeginUpload(a, k) /\ job' \in Jobs
          /\ k = NoUpload \/ (/\ k.kind = "finalize" /\ k.at \in {"expired", "head"}
                              /\ k.image = i /\ session[k.product].image = i /\ job' = marked)
          /\ k = NoUpload => SessionOf(i) = {}
        BY <1>2, <2>2 DEF FinalizeBegins
    <2>4. /\ \A j \in Operations \X Images : job'[j].tried <= marked[j].tried
          /\ \A j \in Operations \X Images : j # o => job'[j] = marked[j]
        BY <1>2, <1>3, <1>9, <2>2 DEF FinalizeBegins
    <2>5. ASSUME NEW j \in Operations \X Images, j # o
          PROVE job'[j] = job[j] /\ job'[j].tried <= job[j].tried
        <3>1. job'[j] = job[j] BY <1>8, <2>4, <2>5
        <3>2. job[j].tried \in Nat BY InvFacts
        <3> QED BY <3>1, <3>2
    <2>6. job'[o].tried <= job[o].tried + 1 BY <1>8, <2>4
    <2>7. ImageTyped' /\ Turn(a, k)
        BY <1>4, <1>6, <2>3, <2>5, <2>6, InvFacts, NoUploadFields, MarkedTyped
    <2>8. Finalized(i) BY <1>1, <1>2, <1>9 DEF Finalized, Finalizing
    <2>9. k # NoUpload => job'[o].status # "RESOLVED" BY <1>8, <2>3
    <2> QED BY <1>1, <1>3, <1>4, <1>9, <2>3, <2>5, <2>7, <2>8, <2>9, FinalizeTurn
<1>10. CASE op # "FINALIZE"
    <2> DEFINE k == Moved(upload[a], "erase", {})
    <2>1. BeginUpload(a, k) /\ job' = marked BY <1>5, <1>10 DEF GoTo
    <2>2. "erase" \in Steps /\ {} \in SUBSET Images BY DEF Steps
    <2>3. /\ k \in Upload \cup {NoUpload} /\ GoesOn(a, k) /\ k.at = "erase"
          /\ k.kind = upload[a].kind /\ k.product = upload[a].product
          /\ k.image = upload[a].image /\ k.of = upload[a].of
        BY <1>1, <2>2, GoesTo
    <2> HIDE DEF k
    <2>4. CallShaped(k) BY <1>1, <1>2, <1>10, <2>3 DEF CallShaped
    <2>5. \A j \in Operations \X Images : j # o => job'[j].tried <= job[j].tried
        BY <1>8, <2>1, InvFacts
    <2>6. job[o].tried + 1 <= job[o].tried + 1 BY InvFacts
    <2>7. ImageTyped' /\ Turn(a, k)
        BY <1>4, <1>6, <1>8, <2>1, <2>3, <2>4, <2>5, <2>6, InvFacts, MarkedTyped
    <2>8. \A x \in Images : job'[<<"FINALIZE", x>>] = job[<<"FINALIZE", x>>]
        BY <1>3, <1>8, <1>10, <2>1 DEF Operations
    <2>9. ~Careful BY <1>1, <1>2, <1>10, InvFacts DEF CarefulHeld
    <2>10. ASSUME NEW x \in Images PROVE LifeOf(x)'
        <3>1. job'[<<"FINALIZE", x>>].status # "none" => Finalized(x) BY <2>8 DEF Finalized
        <3>2. job'[<<"FINALIZE", x>>].status = "RESOLVED" =>
                 \/ job[<<"FINALIZE", x>>].status = "RESOLVED"
                 \/ \A p \in Products : session'[p].image # x
            BY <2>8
        <3> QED BY <1>4, <2>3, <2>7, <3>1, <3>2, InvFacts, LifeOfTurn
    <2>11. SerialHeld'
        <3>1. k.kind # "none" =>
                 upload[a].kind # "none" \/ (imageManner # "any" => \A b \in Admins : Free(b))
            BY <1>1
        <3> QED BY <1>1, <1>4, <2>3, <2>7, <3>1, InvFacts, SerialTurn
    <2>12. CarefulHeld' BY <1>4, <2>9 DEF CarefulHeld, Careful
    <2> QED BY <2>7, <2>10, <2>11, <2>12 DEF ImageInv
<1> QED BY <1>9, <1>10

\* A call that goes on or ends and leaves the rows as they are, whatever it erases.
LEMMA ErasingTurn ==
    ASSUME ImageInv, NEW a \in Admins, NEW k, Turn(a, k), GoesOn(a, k), upload[a].kind # "none",
           UNCHANGED <<imageManner, used, form, imageKey, assets, ownerOf, session>>,
           \A i \in Images : job'[<<"FINALIZE", i>>] = job[<<"FINALIZE", i>>]
    PROVE (\A i \in Images : LifeOf(i)') /\ SerialHeld'
<1>1. ASSUME NEW i \in Images PROVE LifeOf(i)'
    <2>1. job'[<<"FINALIZE", i>>].status # "none" => Finalized(i) BY DEF Finalized
    <2>2. job'[<<"FINALIZE", i>>].status = "RESOLVED" =>
             \/ job[<<"FINALIZE", i>>].status = "RESOLVED"
             \/ \A p \in Products : session'[p].image # i
        OBVIOUS
    <2> QED BY <2>1, <2>2, InvFacts, LifeOfTurn
<1>2. k.kind # "none" =>
         upload[a].kind # "none" \/ (imageManner # "any" => \A b \in Admins : Free(b))
    OBVIOUS
<1>3. k.kind = "presign" => upload[a].kind = "presign" /\ k.product = upload[a].product
    BY NoUploadFields DEF GoesOn
<1>4. SerialHeld' BY <1>2, <1>3, InvFacts, SerialTurn
<1> QED BY <1>1, <1>4

\* A failed deletion leaves a job of a deletion.
LEMMA TrackedDelete ==
    ASSUME ImageInv, NEW op \in Operations \ {"FINALIZE"}, NEW i \in Images,
           NEW jobs \in Jobs, \A j \in Operations \X Images : jobs[j].tried <= job[j].tried,
           \A x \in Images : jobs[<<"FINALIZE", x>>] = job[<<"FINALIZE", x>>]
    PROVE /\ Track(jobs, op, i) \in Jobs
          /\ \A j \in Operations \X Images : Track(jobs, op, i)[j].tried <= job[j].tried
          /\ \A x \in Images : Track(jobs, op, i)[<<"FINALIZE", x>>] = job[<<"FINALIZE", x>>]
<1>1. /\ Track(jobs, op, i) \in Jobs
      /\ \A j \in Operations \X Images : Track(jobs, op, i)[j].tried <= jobs[j].tried
      /\ \A j \in Operations \X Images : j # <<op, i>> => Track(jobs, op, i)[j] = jobs[j]
    BY TrackFacts
<1>2. ASSUME NEW j \in Operations \X Images PROVE Track(jobs, op, i)[j].tried <= job[j].tried
    <2>1. Track(jobs, op, i)[j].tried \in Nat /\ jobs[j].tried \in Nat /\ job[j].tried \in Nat
        BY <1>1, InvFacts DEF Jobs, JobTypes
    <2>2. Track(jobs, op, i)[j].tried <= jobs[j].tried /\ jobs[j].tried <= job[j].tried BY <1>1
    <2> QED BY <2>1, <2>2
<1>3. ASSUME NEW x \in Images
      PROVE Track(jobs, op, i)[<<"FINALIZE", x>>] = job[<<"FINALIZE", x>>]
    BY <1>1 DEF Operations
<1> QED BY <1>1, <1>2, <1>3

\* The object of a job is deleted, or the attempt fails.
LEMMA RetryErasesKept == ASSUME ImageInv, NEW a \in Admins, RetryErases(a) PROVE ImageInv'
<1>1. /\ upload[a] \in Upload /\ upload[a].kind = "retry" /\ upload[a].at = "erase"
      /\ CallShaped(upload[a]) /\ upload[a] # NoUpload
    BY StandingFields DEF RetryErases
<1>2. PICK op \in Operations \ {"FINALIZE"}, i \in Images :
          upload[a].of = op /\ upload[a].image = i
    BY <1>1 DEF CallShaped
<1>3. PICK c : c = upload[a] OBVIOUS
<1>4. /\ BeginUpload(a, NoUpload) /\ (Fault \/ faults' = faults) /\ stored' \subseteq stored
      /\ UNCHANGED <<imageManner, used, handed, form, imageKey, active, assets, ownerOf, session,
                     calls>>
      /\ \E jobs \in {job, Track(job, "DELETE", i)} : job' = Settled(jobs, c, TRUE)
    BY <1>2, <1>3 DEF RetryErases, End, BeginUpload, tables
<1>5. PICK jobs \in {job, Track(job, "DELETE", i)} : job' = Settled(jobs, c, TRUE) BY <1>4
<1>6. "DELETE" \in Operations \ {"FINALIZE"} BY DEF Operations
<1>7. /\ jobs \in Jobs
      /\ \A j \in Operations \X Images : jobs[j].tried <= job[j].tried
      /\ \A x \in Images : jobs[<<"FINALIZE", x>>] = job[<<"FINALIZE", x>>]
    <2>1. CASE jobs = job BY <2>1, InvFacts
    <2>2. CASE jobs = Track(job, "DELETE", i)
        <3>1. job \in Jobs /\ \A j \in Operations \X Images : job[j].tried <= job[j].tried
            BY InvFacts
        <3>2. \A x \in Images : job[<<"FINALIZE", x>>] = job[<<"FINALIZE", x>>] OBVIOUS
        <3> QED BY <1>6, <2>2, <3>1, <3>2, TrackedDelete
    <2> QED BY <2>1, <2>2
<1>8. c.of \in Operations /\ c.image \in Images /\ c.of # "none"
    BY <1>2, <1>3 DEF Operations
<1>9. /\ job' \in Jobs
      /\ \A j \in Operations \X Images : job'[j].tried <= jobs[j].tried
      /\ \A j \in Operations \X Images : c.of = "none" \/ j # JobOf(c) => job'[j] = jobs[j]
    BY <1>5, <1>7, <1>8, SettledWell
<1>10. ASSUME NEW j \in Operations \X Images PROVE job'[j].tried <= job[j].tried
    <2>1. job'[j].tried \in Nat /\ jobs[j].tried \in Nat /\ job[j].tried \in Nat
        BY <1>7, <1>9, InvFacts DEF Jobs, JobTypes
    <2>2. job'[j].tried <= jobs[j].tried /\ jobs[j].tried <= job[j].tried BY <1>7, <1>9
    <2> QED BY <2>1, <2>2
<1>11. ASSUME NEW x \in Images PROVE job'[<<"FINALIZE", x>>] = job[<<"FINALIZE", x>>]
    <2>1. <<"FINALIZE", x>> \in Operations \X Images /\ <<"FINALIZE", x>> # JobOf(c)
        BY <1>2, <1>3 DEF JobOf, Operations
    <2> QED BY <1>7, <1>9, <2>1
<1>12. TablesTyped' BY <1>4, InvFacts DEF TablesTyped
<1>13. ImageTyped' /\ Turn(a, NoUpload)
    BY <1>4, <1>9, <1>10, <1>12, InvFacts, EndOfCall, TypedTurn
<1>14. (\A x \in Images : LifeOf(x)') /\ SerialHeld'
    BY <1>1, <1>4, <1>11, <1>13, EndOfCall, ErasingTurn
<1>15. ~Careful BY <1>1, <1>2, InvFacts DEF CarefulHeld
<1>16. CarefulHeld' BY <1>4, <1>15 DEF CarefulHeld, Careful
<1> QED BY <1>13, <1>14, <1>16 DEF ImageInv

\* The rows stand and no call goes on: an object is erased, or its deletion has failed.
LEMMA DeleteByHandKept ==
    ASSUME ImageInv, NEW a \in Admins, NEW i \in Images, DeleteByHand(a, i) PROVE ImageInv'
<1>1. /\ Counted /\ ~Careful /\ (Erased(i) \/ NotErased(i))
      /\ UNCHANGED <<imageManner, used, handed, form, imageKey, active, assets, ownerOf, session,
                     upload>>
    BY DEF DeleteByHand, MayBegin, tables
<1>2. "DELETE" \in Operations \ {"FINALIZE"} BY DEF Operations
<1>3. /\ job' \in Jobs /\ stored' \subseteq stored /\ (Fault \/ faults' = faults)
      /\ \A j \in Operations \X Images : job'[j].tried <= job[j].tried
      /\ \A x \in Images : job'[<<"FINALIZE", x>>] = job[<<"FINALIZE", x>>]
    <2>1. CASE Erased(i) BY <2>1, InvFacts DEF Erased
    <2>2. CASE NotErased(i)
        <3>1. job \in Jobs /\ \A j \in Operations \X Images : job[j].tried <= job[j].tried
            BY InvFacts
        <3>2. \A x \in Images : job[<<"FINALIZE", x>>] = job[<<"FINALIZE", x>>] OBVIOUS
        <3>3. job' = Track(job, "DELETE", i) /\ Fault /\ stored' = stored BY <2>2 DEF NotErased
        <3> QED BY <1>2, <3>1, <3>2, <3>3, TrackedDelete
    <2> QED BY <1>1, <2>1, <2>2
<1>4. TablesTyped' BY <1>1, <1>3, InvFacts DEF TablesTyped
<1>5. ImageTyped' BY <1>1, <1>3, <1>4, InvFacts, TypedStill
<1>6. ASSUME NEW x \in Images PROVE LifeOf(x)'
    <2>1. LifeStays(x) BY <1>1, <1>3 DEF LifeStays, Presigning, Writing, Finalized, Finalizing
    <2>2. LifeOf(x) /\ form \subseteq used BY InvFacts DEF TablesTyped
    <2> QED BY <2>1, <2>2, LifeKept
<1>7. SerialHeld'
    <2>1. SerialHeld BY InvFacts
    <2>2. SerialStays BY <1>1, <2>1 DEF SerialStays, AssetCount, SerialHeld, Free
    <2> QED BY <2>1, <2>2, SerialKept
<1>8. CarefulHeld' BY <1>1 DEF CarefulHeld, Careful
<1> QED BY <1>5, <1>6, <1>7, <1>8 DEF ImageInv

\* A new object in the store: for a form, or by a call that writes it into a product's row.
LEMMA FreshStored ==
    ASSUME ImageInv, NEW i \in Images, i \notin used, used' = used \cup {i},
           form' \subseteq form \cup {i},
           UNCHANGED <<imageManner, imageKey, assets, session, job>>,
           \A x \in Images : x # i => ownerOf'[x] = ownerOf[x],
           \A b \in Admins : \/ upload'[b] = upload[b]
                             \/ /\ upload'[b].kind = "legacy" /\ upload'[b].image = i
                                /\ imageManner # "any" => \A c \in Admins : Free(c),
           \A b, c \in Admins : upload'[b] # upload[b] /\ upload'[c] # upload[c] => b = c
    PROVE (\A x \in Images : LifeOf(x)') /\ SerialHeld'
<1>1. \A x \in Images : LifeOf(x) /\ NoImage # x BY InvFacts, ImageConstants
<1>2. /\ assets[i] = 0 /\ ~Waiting(i) /\ ~Finalized(i) BY <1>1 DEF LifeOf
<1>3. /\ SessionOf(i) = {} /\ \A b \in Admins : ~Presigning(b, i) /\ ~Finalizing(b, i)
      /\ job[<<"FINALIZE", i>>].status = "none"
    BY <1>2 DEF Waiting, Finalized
<1>4. ASSUME NEW x \in Images, x # i PROVE LifeOf(x)'
    <2>1. /\ \A b \in Admins : upload'[b].kind = "presign" /\ upload'[b].image = x =>
                Presigning(b, x) /\ upload'[b].product = upload[b].product
          /\ \A b \in Admins : upload'[b].kind \in {"legacy", "edit"} /\ upload'[b].image = x =>
                Writing(b, x)
          /\ \A b \in Admins : upload'[b].kind = "finalize" /\ upload'[b].image = x =>
                /\ upload[b].kind = "finalize" /\ upload[b].image = x
                /\ upload'[b].product = upload[b].product
        BY <1>4 DEF Presigning, Writing
    <2>2. \A b \in Admins :
             /\ upload'[b].image = x
             /\ upload'[b].kind = "finalize" \/ (upload'[b].kind = "retry" /\ upload'[b].of = "FINALIZE")
             => Finalized(x)
        BY <1>4 DEF Finalized, Finalizing
    <2>3. LifeStays(x) BY <1>4, <2>1, <2>2 DEF LifeStays, Finalized
    <2>4. form \subseteq used BY InvFacts DEF TablesTyped
    <2> QED BY <1>1, <2>3, <2>4, LifeKept
<1>5. LifeOf(i)'
    <2>1. \A b \in Admins : upload'[b].image = i =>
             /\ upload'[b].kind # "presign" /\ upload'[b].kind # "finalize"
             /\ ~(upload'[b].kind = "retry" /\ upload'[b].of = "FINALIZE")
        BY <1>3 DEF Presigning, Finalizing
    <2>2. SessionOf(i)' = {} /\ \A q \in Products : session'[q].image # i
        BY <1>3 DEF SessionOf
    <2>3. job'[<<"FINALIZE", i>>].status = "none" /\ assets'[i] = 0 /\ i \in used' BY <1>2, <1>3
    <2>4. ~Waiting(i)' BY <2>1, <2>2 DEF Waiting, Presigning
    <2> QED BY <2>1, <2>2, <2>3, <2>4 DEF LifeOf, Presigning
<1>6. SerialHeld'
    <2>1. \A q \in Products : AssetCount(q)' = AssetCount(q)
        <3> TAKE q \in Products
        <3>1. {x \in Images : ownerOf'[x] = q /\ assets'[x] > 0}
                 = {x \in Images : ownerOf[x] = q /\ assets[x] > 0}
            BY <1>2
        <3> QED BY <3>1 DEF AssetCount
    <2>2. ASSUME imageManner # "any", NEW b \in Admins, NEW c \in Admins,
                 upload'[b].kind # "none", upload'[c].kind # "none"
          PROVE b = c
        <3>1. \A x, y \in Admins : upload[x].kind # "none" /\ upload[y].kind # "none" => x = y
            BY <2>2, InvFacts DEF SerialHeld, Free
        <3> QED BY <2>2, <3>1 DEF Free
    <2>3. \A b \in Admins : upload'[b].kind = "presign" =>
             upload[b].kind = "presign" /\ upload'[b].product = upload[b].product
        OBVIOUS
    <2>4. SerialStays BY <2>1, <2>2, <2>3 DEF SerialStays
    <2> QED BY <2>4, InvFacts, SerialKept
<1> QED BY <1>4, <1>5, <1>6

\* Images of forms, and the edits that write them to products.
LEMMA UploadForFormKept == ASSUME ImageInv, NEW i \in Images, UploadForForm(i) PROVE ImageInv'
<1>1. /\ i \notin used /\ Counted
      /\ used' = used \cup {i} /\ stored' = stored \cup {i} /\ form' = form \cup {i}
      /\ UNCHANGED <<imageManner, handed, imageKey, active, assets, ownerOf, session, upload, job,
                     faults>>
    BY DEF UploadForForm, tables
<1>2. TablesTyped' BY <1>1, InvFacts DEF TablesTyped
<1>3. ImageTyped' BY <1>1, <1>2, InvFacts, TypedStill
<1>4. (\A x \in Images : LifeOf(x)') /\ SerialHeld' BY <1>1, FreshStored
<1>5. CarefulHeld'
    <2>1. SUFFICES ASSUME Careful PROVE CarefulHeld'
        BY <1>1 DEF CarefulHeld, Careful
    <2>2. \A b \in Admins : upload'[b].kind = "none" BY <1>1, <2>1 DEF Counted, Careful, Free
    <2>3. CarefulHeld /\ LifeOf(i) BY InvFacts
    <2>4. \A q \in Products : imageKey[q] # i BY <1>1, <2>3 DEF LifeOf
    <2>5. form' \subseteq stored' /\ \A q \in Products : imageKey'[q] \notin form'
        BY <1>1, <2>1, <2>3, <2>4 DEF CarefulHeld
    <2>6. \A q \in Products : NamesStored(q)
        BY <1>1, <2>1, <2>2, <2>3 DEF CarefulHeld
    <2>7. \A q \in Products : NamesStored(q)' BY <1>1, <2>6 DEF NamesStored
    <2>8. \A x \in Images, op \in Operations \ {"FINALIZE"} : job'[<<op, x>>].status = "none"
        BY <1>1, <2>1, <2>3 DEF CarefulHeld
    <2>9. \A p, q \in Products : imageKey'[p] = imageKey'[q] /\ p # q => imageKey'[p] = NoImage
        BY <1>1, <2>1, <2>3 DEF CarefulHeld
    <2> QED BY <2>2, <2>5, <2>7, <2>8, <2>9 DEF CarefulHeld, Stands
<1> QED BY <1>3, <1>4, <1>5 DEF ImageInv

\* In careful use, while one call at most is under way.
LEMMA CarefulAlone ==
    ASSUME ImageInv, Careful, NEW a \in Admins,
           imageManner' = imageManner,
           \A b \in Admins : b # a => upload'[b].kind = "none",
           upload'[a].kind \notin {"finalize", "retry"},
           \A x \in Images, op \in Operations \ {"FINALIZE"} : job'[<<op, x>>] = job[<<op, x>>],
           form' \subseteq stored', \A p \in Products : imageKey'[p] \notin form',
           \A p, q \in Products : imageKey'[p] = imageKey'[q] /\ p # q => imageKey'[p] = NoImage,
           \A p \in Products :
              \/ active'[p] /\ imageKey'[p] # NoImage => imageKey'[p] \in stored'
              \/ /\ upload'[a].kind \in {"legacy", "edit"} /\ upload'[a].at = "write"
                 /\ upload'[a].product = p /\ upload'[a].image # NoImage,
           upload'[a].kind \in {"legacy", "edit"} => WriterHeld(a)',
           upload'[a].kind = "cleanup" => CleanerHeld(a)'
    PROVE CarefulHeld'
<1>1. \A x \in Images, op \in Operations \ {"FINALIZE"} : job[<<op, x>>].status = "none"
    BY InvFacts DEF CarefulHeld
<1>2. ASSUME NEW x \in Images, NEW op \in Operations \ {"FINALIZE"}
      PROVE job'[<<op, x>>].status = "none"
    <2>1. job'[<<op, x>>] = job[<<op, x>>] OBVIOUS
    <2> QED BY <1>1, <2>1
<1>3. ASSUME NEW b \in Admins
      PROVE /\ upload'[b].kind \in {"legacy", "edit"} => WriterHeld(b)'
            /\ upload'[b].kind = "cleanup" => CleanerHeld(b)'
            /\ upload'[b].kind \notin {"finalize", "retry"}
    <2>1. CASE b = a BY <2>1
    <2>2. CASE b # a BY <2>2
    <2> QED BY <2>1, <2>2
<1>4. ASSUME NEW p \in Products
      PROVE \/ NamesStored(p)'
            \/ \E b \in Admins : /\ upload'[b].kind \in {"legacy", "edit"}
                                 /\ upload'[b].at = "write"
                                 /\ upload'[b].product = p /\ upload'[b].image # NoImage
    BY DEF NamesStored
<1> QED BY <1>2, <1>3, <1>4 DEF CarefulHeld, Stands

\* What careful use says of the rows while no call, or none but that of a, is under way.
LEMMA CarefulFacts ==
    ASSUME ImageInv, Careful
    PROVE /\ form \subseteq stored /\ \A p \in Products : imageKey[p] \notin form
          /\ \A p, q \in Products : imageKey[p] = imageKey[q] /\ p # q => imageKey[p] = NoImage
          /\ \A x, y \in Admins : upload[x].kind # "none" /\ upload[y].kind # "none" => x = y
          /\ \A p \in Products :
                \/ active[p] /\ imageKey[p] # NoImage => imageKey[p] \in stored
                \/ \E b \in Admins :
                      /\ upload[b].kind \in {"legacy", "edit"} /\ upload[b].at = "write"
                      /\ upload[b].product = p /\ upload[b].image # NoImage
          /\ \A b \in Admins : upload[b].kind \in {"legacy", "edit"} => WriterHeld(b)
          /\ \A b \in Admins : upload[b].kind = "cleanup" => CleanerHeld(b)
          /\ ~MayFail
<1>1. CarefulHeld /\ SerialHeld BY InvFacts
<1>2. imageManner # "any" /\ ~MayFail BY DEF Careful, MayFail
<1>3. \A x, y \in Admins : upload[x].kind # "none" /\ upload[y].kind # "none" => x = y
    BY <1>1, <1>2 DEF SerialHeld, Free
<1>4. form \subseteq stored /\ \A p \in Products : imageKey[p] \notin form
    BY <1>1 DEF CarefulHeld
<1>5. \A p, q \in Products : imageKey[p] = imageKey[q] /\ p # q => imageKey[p] = NoImage
    BY <1>1 DEF CarefulHeld
<1>6. \A p \in Products :
         \/ active[p] /\ imageKey[p] # NoImage => imageKey[p] \in stored
         \/ \E b \in Admins :
               /\ upload[b].kind \in {"legacy", "edit"} /\ upload[b].at = "write"
               /\ upload[b].product = p /\ upload[b].image # NoImage
    BY <1>1 DEF CarefulHeld, NamesStored
<1>7. /\ \A b \in Admins : upload[b].kind \in {"legacy", "edit"} => WriterHeld(b)
      /\ \A b \in Admins : upload[b].kind = "cleanup" => CleanerHeld(b)
    BY <1>1 DEF CarefulHeld
<1> QED BY <1>2, <1>3, <1>4, <1>5, <1>6, <1>7

LEMMA LegacyUploadKept ==
    ASSUME ImageInv, NEW a \in Admins, NEW p \in Products, NEW i \in Images, LegacyUpload(a, p, i)
    PROVE ImageInv'
<1>1. PICK old \in Images \cup {NoImage} : old = imageKey[p] BY InvFacts DEF TablesTyped
<1>2. PICK at \in {"write", "erase"} : at = IF old = NoImage THEN "write" ELSE "erase" OBVIOUS
<1> DEFINE k == NewUpload("legacy", at, p, i, old)
<1>3. /\ Free(a) /\ Counted /\ i \notin used
      /\ used' = used \cup {i} /\ stored' = stored \cup {i}
      /\ ownerOf' = [ownerOf EXCEPT ![i] = p] /\ BeginUpload(a, k)
      /\ UNCHANGED <<imageManner, handed, form, imageKey, active, assets, session, job, faults>>
    BY <1>1, <1>2 DEF LegacyUpload, MayBegin
<1>4. /\ k \in Upload /\ k.kind = "legacy" /\ k.at = at /\ k.product = p /\ k.image = i
      /\ k.old = old /\ k.of = "none"
    <2>1. "legacy" \in UploadKinds /\ at \in Steps BY DEF UploadKinds, Steps
    <2> QED BY <2>1, NewUploadFields
<1> HIDE DEF k
<1>5. CallShaped(k) BY <1>2, <1>4 DEF CallShaped
<1>6. TablesTyped' BY <1>3, InvFacts DEF TablesTyped
<1>7. ImageTyped' /\ Turn(a, k) BY <1>3, <1>4, <1>5, <1>6, InvFacts, TypedTurn
<1>8. upload'[a] = k /\ \A b \in Admins : b # a => upload'[b] = upload[b] BY <1>7 DEF Turn
<1>9. (\A x \in Images : LifeOf(x)') /\ SerialHeld'
    <2>1. /\ \A x \in Images : x # i => ownerOf'[x] = ownerOf[x]
          /\ \A b \in Admins : \/ upload'[b] = upload[b]
                               \/ /\ upload'[b].kind = "legacy" /\ upload'[b].image = i
                                  /\ imageManner # "any" => \A c \in Admins : Free(c)
          /\ \A b, c \in Admins : upload'[b] # upload[b] /\ upload'[c] # upload[c] => b = c
        BY <1>3, <1>4, <1>8, InvFacts DEF TablesTyped, Counted
    <2> QED BY <1>3, <2>1, FreshStored
<1>10. CarefulHeld'
    <2>1. SUFFICES ASSUME Careful PROVE CarefulHeld'
        BY <1>3 DEF CarefulHeld, Careful
    <2>2. \A b \in Admins : upload[b].kind = "none" BY <1>3, <2>1 DEF Counted, Careful, Free
    <2>3. LifeOf(i) BY InvFacts
    <2>4. \A q \in Products : imageKey[q] # i BY <1>3, <2>3 DEF LifeOf
    <2>5. /\ form \subseteq stored /\ \A q \in Products : imageKey[q] \notin form
          /\ \A q, r \in Products : imageKey[q] = imageKey[r] /\ q # r => imageKey[q] = NoImage
          /\ \A q \in Products : active[q] /\ imageKey[q] # NoImage => imageKey[q] \in stored
        BY <2>1, <2>2, CarefulFacts
    <2>6. WriterHeld(a)'
        <3>1. i # NoImage BY ImageConstants
        <3>2. i # old BY <1>1, <2>4
        <3> QED BY <1>1, <1>3, <1>4, <1>8, <2>4, <3>1, <3>2 DEF WriterHeld
    <2> QED BY <1>3, <1>4, <1>8, <2>1, <2>2, <2>5, <2>6, CarefulAlone
<1> QED BY <1>7, <1>9, <1>10 DEF ImageInv

LEMMA EditKept ==
    ASSUME ImageInv, NEW a \in Admins, NEW p \in Products, NEW next \in Images \cup {NoImage},
           Edit(a, p, next)
    PROVE ImageInv'
<1>1. PICK old \in Images \cup {NoImage} : old = imageKey[p] BY InvFacts DEF TablesTyped
<1>2. PICK at \in {"write", "erase"} :
          at = IF Replaces(old, next) THEN "erase" ELSE "write" OBVIOUS
<1> DEFINE k == NewUpload("edit", at, p, next, old)
<1>3. /\ Free(a) /\ Counted /\ next \in form \cup {old, NoImage}
      /\ Careful => next # NoImage \/ old = NoImage
      /\ BeginUpload(a, k)
      /\ UNCHANGED <<imageManner, used, stored, handed, form, imageKey, active, assets, ownerOf,
                     session, job, faults>>
    BY <1>1, <1>2 DEF Edit, MayBegin, tables
<1>4. /\ k \in Upload /\ k.kind = "edit" /\ k.at = at /\ k.product = p /\ k.image = next
      /\ k.old = old /\ k.of = "none"
    <2>1. "edit" \in UploadKinds /\ at \in Steps BY DEF UploadKinds, Steps
    <2>2. p \in Products \cup {NoProduct} OBVIOUS
    <2> HIDE DEF k
    <2>3. ASSUME NEW x, x = NewUpload("edit", at, p, next, old)
          PROVE /\ x \in Upload /\ x.kind = "edit" /\ x.at = at /\ x.product = p
                /\ x.image = next /\ x.old = old /\ x.of = "none"
        BY <2>1, <2>2, <2>3, NewUploadFields
    <2>4. k = NewUpload("edit", at, p, next, old) BY DEF k
    <2>5. /\ k \in Upload /\ k.kind = "edit" /\ k.at = at /\ k.product = p
          /\ k.image = next /\ k.old = old /\ k.of = "none"
        BY <2>3, <2>4
    <2> QED BY <2>5
<1> HIDE DEF k
<1>5. at = "erase" => old # NoImage /\ (next = NoImage \/ old # next) BY <1>2 DEF Replaces
<1>6. CallShaped(k) BY <1>4, <1>5 DEF CallShaped
<1>7. TablesTyped' BY <1>3, InvFacts DEF TablesTyped
<1>8. ImageTyped' /\ Turn(a, k) BY <1>3, <1>4, <1>6, <1>7, InvFacts, TypedTurn
<1>9. upload'[a] = k /\ \A b \in Admins : b # a => upload'[b] = upload[b] BY <1>8 DEF Turn
<1>10. ASSUME NEW x \in Images PROVE LifeOf(x)'
    <2>1. NoImage # x /\ LifeOf(x) /\ form \subseteq used
        BY InvFacts, ImageConstants DEF TablesTyped
    <2>2. ASSUME NEW b \in Admins, upload'[b].kind \in {"legacy", "edit"}, upload'[b].image = x
          PROVE Writing(b, x) \/ x \in form \/ \E q \in Products : imageKey[q] = x
        BY <1>1, <1>3, <1>4, <1>9, <2>1, <2>2 DEF Writing
    <2>3. LifeStays(x)
        BY <1>3, <1>4, <1>9, <2>2 DEF LifeStays, Presigning, Finalized, Finalizing
    <2> QED BY <2>1, <2>3, LifeKept
<1>11. SerialHeld'
    <2>1. k.kind # "none" =>
             upload[a].kind # "none" \/ (imageManner # "any" => \A b \in Admins : Free(b))
        BY <1>3 DEF Counted
    <2> QED BY <1>3, <1>4, <1>8, <2>1, InvFacts, SerialTurn
<1>12. CarefulHeld'
    <2>1. SUFFICES ASSUME Careful PROVE CarefulHeld'
        BY <1>3 DEF CarefulHeld, Careful
    <2>2. \A b \in Admins : upload[b].kind = "none" BY <1>3, <2>1 DEF Counted, Careful, Free
    <2>3. /\ form \subseteq stored /\ \A q \in Products : imageKey[q] \notin form
          /\ \A q, r \in Products : imageKey[q] = imageKey[r] /\ q # r => imageKey[q] = NoImage
          /\ \A q \in Products : active[q] /\ imageKey[q] # NoImage => imageKey[q] \in stored
        BY <2>1, <2>2, CarefulFacts
    <2>4. WriterHeld(a)'
        <3>1. next # NoImage => /\ active[p] => next \in stored
                                /\ \A q \in Products \ {p} : imageKey[q] # next
            BY <1>1, <1>3, <2>3
        <3>2. at = "erase" => next \notin {old, NoImage} BY <1>3, <1>5, <2>1
        <3> QED BY <1>1, <1>3, <1>4, <1>9, <3>1, <3>2 DEF WriterHeld
    <2> QED BY <1>3, <1>4, <1>9, <2>1, <2>2, <2>3, <2>4, CarefulAlone
<1> QED BY <1>8, <1>10, <1>11, <1>12 DEF ImageInv

\* An object is erased, or its deletion has failed and left a job.
LEMMA ErasesFacts ==
    ASSUME ImageInv, NEW i \in Images, Erased(i) \/ NotErased(i)
    PROVE /\ job' \in Jobs /\ stored' \subseteq stored /\ (Fault \/ faults' = faults)
          /\ \A j \in Operations \X Images : job'[j].tried <= job[j].tried
          /\ \A x \in Images : job'[<<"FINALIZE", x>>] = job[<<"FINALIZE", x>>]
<1>1. "DELETE" \in Operations \ {"FINALIZE"} BY DEF Operations
<1>2. CASE Erased(i) BY <1>2, InvFacts DEF Erased
<1>3. CASE NotErased(i)
    <2>1. job \in Jobs /\ \A j \in Operations \X Images : job[j].tried <= job[j].tried
        BY InvFacts
    <2>2. \A x \in Images : job[<<"FINALIZE", x>>] = job[<<"FINALIZE", x>>] OBVIOUS
    <2>3. job' = Track(job, "DELETE", i) /\ Fault /\ stored' = stored BY <1>3 DEF NotErased
    <2> QED BY <1>1, <2>1, <2>2, <2>3, TrackedDelete
<1> QED BY <1>2, <1>3

\* A writer erases the image it replaces: in careful use nothing else is under way, and the
\* image is in no form and in no other product's row.
LEMMA WriterErases ==
    ASSUME ImageInv, NEW a \in Admins,
           upload[a].kind \in {"legacy", "edit"}, upload[a].at = "erase",
           NEW i \in Images, upload[a].old = i, Erased(i) \/ NotErased(i),
           NEW k, k = NoUpload \/ k = Moved(upload[a], "write", {}), BeginUpload(a, k),
           Erased(i) => k # NoUpload,
           UNCHANGED <<imageManner, used, handed, form, imageKey, active, assets, ownerOf,
                       session,
                       calls>>
    PROVE ImageInv'
<1>1. /\ upload[a] \in Upload /\ CallShaped(upload[a]) /\ upload[a] # NoUpload
    BY InvFacts, NoUploadFields
<1>2. /\ upload[a].product \in Products /\ upload[a].of = "none"
      /\ upload[a].image \in Images \/ upload[a].kind = "edit"
    BY <1>1 DEF CallShaped
<1>3. /\ k \in Upload \cup {NoUpload} /\ GoesOn(a, k)
      /\ k # NoUpload => /\ k.at = "write" /\ k.kind = upload[a].kind /\ k.old = i
                         /\ k.product = upload[a].product /\ k.image = upload[a].image
                         /\ k.of = upload[a].of
    <2>1. CASE k = NoUpload BY <2>1, EndOfCall
    <2>2. CASE k = Moved(upload[a], "write", {})
        <3>1. "write" \in Steps /\ {} \in SUBSET Images BY DEF Steps
        <3> QED BY <1>1, <2>2, <3>1, GoesTo
    <2> QED BY <2>1, <2>2
<1>4. CallShaped(k)
    <2>1. CASE k = NoUpload BY <2>1, EndOfCall
    <2>2. CASE k # NoUpload BY <1>2, <1>3, <2>2 DEF CallShaped
    <2> QED BY <2>1, <2>2
<1>5. /\ job' \in Jobs /\ stored' \subseteq stored /\ (Fault \/ faults' = faults)
      /\ \A j \in Operations \X Images : job'[j].tried <= job[j].tried
      /\ \A x \in Images : job'[<<"FINALIZE", x>>] = job[<<"FINALIZE", x>>]
    BY ErasesFacts
<1>6. TablesTyped' BY <1>5, InvFacts DEF TablesTyped
<1>7. k.kind # "retry" BY <1>3, NoUploadFields
<1>8. ImageTyped' /\ Turn(a, k) BY <1>3, <1>4, <1>5, <1>6, <1>7, InvFacts, TypedTurn
<1>9. (\A x \in Images : LifeOf(x)') /\ SerialHeld' BY <1>3, <1>5, <1>8, ErasingTurn
<1>10. CarefulHeld'
    <2>1. SUFFICES ASSUME Careful PROVE CarefulHeld'
        BY DEF CarefulHeld, Careful
    <2>2. stored' = stored \ {i} /\ job' = job /\ k # NoUpload
        BY <2>1, CarefulFacts DEF Erased, NotErased, Fault
    <2>3. upload'[a] = k /\ \A b \in Admins : b # a => upload'[b] = upload[b] BY <1>8 DEF Turn
    <2>4. \A b \in Admins : b # a => upload[b].kind = "none" BY <2>1, CarefulFacts
    <2>5. /\ form \subseteq stored /\ \A q \in Products : imageKey[q] \notin form
          /\ \A q, r \in Products : imageKey[q] = imageKey[r] /\ q # r => imageKey[q] = NoImage
          /\ WriterHeld(a)
        BY <2>1, CarefulFacts
    <2>6. \A q \in Products : active[q] /\ imageKey[q] # NoImage => imageKey[q] \in stored
        BY <2>1, <2>4, CarefulFacts
    <2>7. /\ imageKey[upload[a].product] = i /\ upload[a].image \notin {i, NoImage}
          /\ active[upload[a].product] => upload[a].image \in stored
          /\ \A q \in Products \ {upload[a].product} : imageKey[q] # upload[a].image
        BY <2>5 DEF WriterHeld
    <2>8. WriterHeld(a)' BY <1>3, <2>2, <2>3, <2>7 DEF WriterHeld
    <2>9. form' \subseteq stored' BY <1>2, <2>2, <2>5, <2>7
    <2>10. i # NoImage BY ImageConstants
    <2>11. ASSUME NEW q \in Products
           PROVE \/ active'[q] /\ imageKey'[q] # NoImage => imageKey'[q] \in stored'
                 \/ /\ upload'[a].kind \in {"legacy", "edit"} /\ upload'[a].at = "write"
                    /\ upload'[a].product = q /\ upload'[a].image # NoImage
        <3>1. CASE q = upload[a].product BY <1>3, <2>2, <2>3, <2>7, <3>1
        <3>2. CASE q # upload[a].product
            <4>1. imageKey[q] # i BY <1>2, <2>5, <2>7, <2>10, <3>2
            <4> QED BY <2>2, <2>6, <4>1
        <3> QED BY <3>1, <3>2
    <2>12. upload'[a].kind \notin {"finalize", "retry", "cleanup"} BY <1>3, <2>2, <2>3
    <2> QED BY <2>1, <2>2, <2>3, <2>4, <2>5, <2>8, <2>9, <2>11, <2>12, CarefulAlone
<1> QED BY <1>8, <1>9, <1>10 DEF ImageInv

\* The old image goes, and the row is written.
LEMMA LegacyErasesKept == ASSUME ImageInv, NEW a \in Admins, LegacyErases(a) PROVE ImageInv'
<1>1. /\ upload[a] \in Upload /\ upload[a].kind = "legacy" /\ upload[a].at = "erase"
      /\ CallShaped(upload[a]) /\ upload[a] # NoUpload
    BY StandingFields DEF LegacyErases
<1>2. PICK i \in Images : i = upload[a].old BY <1>1 DEF CallShaped
<1>3. PICK k : k = Moved(upload[a], "write", {}) OBVIOUS
<1>4. /\ Erased(i) \/ NotErased(i)
      /\ BeginUpload(a, k)
      /\ UNCHANGED <<imageManner, used, handed, form, imageKey, active, assets, ownerOf, session,
                     calls>>
    BY <1>2, <1>3 DEF LegacyErases, GoTo, tables
<1>5. k # NoUpload BY <1>1, <1>3, NoUploadFields, MovedFields DEF Steps
<1> QED BY <1>1, <1>2, <1>3, <1>4, <1>5, WriterErases

LEMMA EditErasesKept == ASSUME ImageInv, NEW a \in Admins, EditErases(a) PROVE ImageInv'
<1>1. /\ upload[a] \in Upload /\ upload[a].kind = "edit" /\ upload[a].at = "erase"
      /\ CallShaped(upload[a]) /\ upload[a] # NoUpload
    BY StandingFields DEF EditErases
<1>2. PICK i \in Images : i = upload[a].old BY <1>1 DEF CallShaped
<1>3. UNCHANGED <<imageManner, used, handed, form, imageKey, active, assets, ownerOf, session,
                  calls>>
    BY DEF EditErases, tables
<1>4. PICK c : c = Moved(upload[a], "write", {}) OBVIOUS
<1>5. c # NoUpload BY <1>1, <1>4, NoUploadFields, MovedFields DEF Steps
<1>6. CASE Erased(i) /\ BeginUpload(a, c)
    BY <1>1, <1>2, <1>3, <1>4, <1>5, <1>6, WriterErases
<1>7. CASE NotErased(i) /\ ~Erased(i) /\ BeginUpload(a, NoUpload)
    BY <1>1, <1>2, <1>3, <1>7, WriterErases
<1>8. NotErased(i) => ~Erased(i)
    <2>1. faults \in Nat BY InvFacts DEF ImageTyped, ImageTypeOK
    <2> QED BY <2>1 DEF NotErased, Erased, Fault
<1> QED BY <1>2, <1>4, <1>6, <1>7, <1>8 DEF EditErases, GoTo, End, BeginUpload

LEMMA RowWritesKept == ASSUME ImageInv, NEW a \in Admins, RowWrites(a) PROVE ImageInv'
<1>1. /\ upload[a] \in Upload /\ upload[a].kind \in {"legacy", "edit"} /\ upload[a].at = "write"
      /\ CallShaped(upload[a]) /\ upload[a] # NoUpload
    BY StandingFields DEF RowWrites
<1>2. PICK p \in Products, i \in Images \cup {NoImage} :
         upload[a].product = p /\ upload[a].image = i
    BY <1>1, UploadFields DEF CallShaped
<1>3. /\ BeginUpload(a, NoUpload)
      /\ UNCHANGED <<imageManner, used, stored, handed, active, assets, ownerOf,
                     session, job, calls>>
      /\ \/ /\ imageKey' = IF i = NoImage THEN imageKey ELSE [imageKey EXCEPT ![p] = i]
            /\ form' = form \ {i} /\ UNCHANGED faults
         \/ Fault /\ UNCHANGED <<imageKey, form>>
    BY <1>2 DEF RowWrites, End, BeginUpload
<1>4. /\ imageKey' \in [Products -> Images \cup {NoImage}] /\ form' \subseteq form
      /\ \A q \in Products : imageKey'[q] = imageKey[q] \/ (q = p /\ i # NoImage /\ imageKey'[q] = i)
    BY <1>3, InvFacts DEF TablesTyped
<1>5. TablesTyped' BY <1>3, <1>4, InvFacts DEF TablesTyped
<1>6. ImageTyped' /\ Turn(a, NoUpload) BY <1>3, <1>5, InvFacts, EndOfCall, TypedTurn
<1>7. upload'[a] = NoUpload /\ \A b \in Admins : b # a => upload'[b] = upload[b]
    BY <1>6 DEF Turn
<1>8. ASSUME NEW x \in Images PROVE LifeOf(x)'
    <2>1. LifeOf(x) /\ form \subseteq used BY InvFacts DEF TablesTyped
    <2>2. \A q \in Products : imageKey'[q] = x => imageKey[q] = x \/ Writing(a, x)
        BY <1>1, <1>2, <1>4 DEF Writing
    <2>3. \A b \in Admins : upload'[b].kind # "none" => upload'[b] = upload[b]
        BY <1>7, NoUploadFields
    <2>4. LifeStays(x)
        BY <1>3, <1>4, <2>2, <2>3 DEF LifeStays, Presigning, Writing, Finalized, Finalizing
    <2> QED BY <2>1, <2>4, LifeKept
<1>9. SerialHeld' BY <1>3, <1>6, InvFacts, NoUploadFields, SerialTurn
<1>10. CarefulHeld'
    <2>1. SUFFICES ASSUME Careful PROVE CarefulHeld'
        BY <1>3 DEF CarefulHeld, Careful
    <2>2. imageKey' = (IF i = NoImage THEN imageKey ELSE [imageKey EXCEPT ![p] = i])
          /\ form' = form \ {i}
        BY <1>3, <2>1, CarefulFacts DEF Fault
    <2>3. \A b \in Admins : b # a => upload[b].kind = "none" BY <1>1, <2>1, CarefulFacts
    <2>4. /\ form \subseteq stored /\ \A q \in Products : imageKey[q] \notin form
          /\ \A q, r \in Products : imageKey[q] = imageKey[r] /\ q # r => imageKey[q] = NoImage
          /\ WriterHeld(a)
        BY <1>1, <2>1, CarefulFacts
    <2>5. i # NoImage => /\ active[p] => i \in stored
                         /\ \A q \in Products \ {p} : imageKey[q] # i
        BY <1>2, <2>4 DEF WriterHeld
    <2>6. \A q \in Products : q # p \/ i = NoImage =>
             (active[q] /\ imageKey[q] # NoImage => imageKey[q] \in stored)
        <3>1. \A q \in Products :
                 \/ active[q] /\ imageKey[q] # NoImage => imageKey[q] \in stored
                 \/ \E b \in Admins :
                       /\ upload[b].kind \in {"legacy", "edit"} /\ upload[b].at = "write"
                       /\ upload[b].product = q /\ upload[b].image # NoImage
            BY <2>1, CarefulFacts
        <3> QED BY <1>2, <2>3, <3>1
    <2>7. CASE i = NoImage
        <3>1. imageKey' = imageKey BY <2>2, <2>7
        <3>2. \A q \in Products : active'[q] /\ imageKey'[q] # NoImage => imageKey'[q] \in stored'
            BY <1>3, <2>6, <2>7, <3>1
        <3>3. form' \subseteq stored' /\ \A q \in Products : imageKey'[q] \notin form'
            BY <1>3, <1>4, <2>4, <3>1
        <3>4. \A q, r \in Products : imageKey'[q] = imageKey'[r] /\ q # r =>
                  imageKey'[q] = NoImage
            BY <2>4, <3>1
        <3> QED BY <1>3, <1>7, <2>1, <2>3, <3>2, <3>3, <3>4, NoUploadFields, CarefulAlone
    <2>8. CASE i # NoImage
        <3>1. imageKey'[p] = i /\ \A q \in Products \ {p} : imageKey'[q] = imageKey[q]
            BY <2>2, <2>8, InvFacts DEF TablesTyped
        <3>2. \A q \in Products : active'[q] /\ imageKey'[q] # NoImage => imageKey'[q] \in stored'
            BY <1>3, <2>5, <2>6, <2>8, <3>1
        <3>3. form' \subseteq stored' /\ \A q \in Products : imageKey'[q] \notin form'
            BY <1>3, <2>2, <2>4, <3>1
        <3>4. \A q, r \in Products : imageKey'[q] = imageKey'[r] /\ q # r =>
                  imageKey'[q] = NoImage
            BY <2>4, <2>5, <2>8, <3>1
        <3> QED BY <1>3, <1>7, <2>1, <2>3, <3>2, <3>3, <3>4, NoUploadFields, CarefulAlone
    <2> QED BY <2>7, <2>8
<1> QED BY <1>6, <1>8, <1>9, <1>10 DEF ImageInv

\* A product is hidden after its image is gone.
LEMMA RemoveProductKept ==
    ASSUME ImageInv, NEW a \in Admins, NEW p \in Products, RemoveProduct(a, p) PROVE ImageInv'
<1>1. PICK i \in Images : i = imageKey[p]
    BY InvFacts DEF RemoveProduct, TablesTyped
<1>2. /\ Counted /\ Free(a)
      /\ \/ Erased(i) /\ active' = [active EXCEPT ![p] = FALSE]
         \/ NotErased(i) /\ UNCHANGED active
      /\ UNCHANGED <<imageManner, used, handed, form, imageKey, assets, ownerOf, session, upload>>
    BY <1>1 DEF RemoveProduct, MayBegin
<1>3. /\ job' \in Jobs /\ stored' \subseteq stored /\ (Fault \/ faults' = faults)
      /\ \A j \in Operations \X Images : job'[j].tried <= job[j].tried
      /\ \A x \in Images : job'[<<"FINALIZE", x>>] = job[<<"FINALIZE", x>>]
    BY <1>2, ErasesFacts
<1>4. TablesTyped' BY <1>2, <1>3, InvFacts DEF TablesTyped
<1>5. ImageTyped' BY <1>2, <1>3, <1>4, InvFacts, TypedStill
<1>6. ASSUME NEW x \in Images PROVE LifeOf(x)'
    <2>1. LifeStays(x) BY <1>2, <1>3 DEF LifeStays, Presigning, Writing, Finalized, Finalizing
    <2>2. LifeOf(x) /\ form \subseteq used BY InvFacts DEF TablesTyped
    <2> QED BY <2>1, <2>2, LifeKept
<1>7. SerialHeld'
    <2>1. SerialHeld BY InvFacts
    <2>2. SerialStays BY <1>2, <2>1 DEF SerialStays, AssetCount, SerialHeld, Free
    <2> QED BY <2>1, <2>2, SerialKept
<1>8. CarefulHeld'
    <2>1. SUFFICES ASSUME Careful PROVE CarefulHeld'
        BY <1>2 DEF CarefulHeld, Careful
    <2>2. /\ stored' = stored \ {i} /\ job' = job /\ active' = [active EXCEPT ![p] = FALSE]
        BY <1>2, <2>1, CarefulFacts DEF Erased, NotErased, Fault
    <2>3. \A b \in Admins : upload[b].kind = "none" BY <1>2, <2>1 DEF Counted, Careful, Free
    <2>4. /\ form \subseteq stored /\ \A q \in Products : imageKey[q] \notin form
          /\ \A q, r \in Products : imageKey[q] = imageKey[r] /\ q # r => imageKey[q] = NoImage
          /\ \A q \in Products : active[q] /\ imageKey[q] # NoImage => imageKey[q] \in stored
        BY <2>1, <2>3, CarefulFacts
    <2>5. form' \subseteq stored' BY <1>1, <1>2, <2>2, <2>4
    <2>6. i # NoImage BY ImageConstants
    <2>7. active'[p] = FALSE /\ \A q \in Products \ {p} : active'[q] = active[q]
        BY <2>2, InvFacts DEF TablesTyped
    <2>8. ASSUME NEW q \in Products, active'[q], imageKey'[q] # NoImage
          PROVE imageKey'[q] \in stored'
        <3>1. q # p /\ active[q] BY <2>7, <2>8
        <3>2. imageKey[q] # i BY <1>1, <2>4, <2>6, <3>1
        <3> QED BY <1>2, <2>2, <2>4, <2>8, <3>1, <3>2
    <2>9. \A b \in Admins : upload'[b].kind = "none" BY <1>2, <2>3
    <2>10. /\ \A q \in Products : imageKey'[q] \notin form'
           /\ \A q, r \in Products : imageKey'[q] = imageKey'[r] /\ q # r =>
                  imageKey'[q] = NoImage
        BY <1>2, <2>4
    <2> QED BY <1>2, <2>1, <2>2, <2>5, <2>8, <2>9, <2>10, CarefulAlone
<1> QED BY <1>5, <1>6, <1>7, <1>8 DEF ImageInv

\* The cleanup lists what is in use, and sweeps the rest.
LEMMA CleanupKept == ASSUME ImageInv, NEW a \in Admins, Cleanup(a) PROVE ImageInv'
<1>1. PICK known \in SUBSET Images : known = Referenced BY DEF Referenced
<1>2. PICK c : c = NewUpload("cleanup", "list", NoProduct, NoImage, NoImage) OBVIOUS
<1>3. PICK k : k = Moved(c, "list", known) OBVIOUS
<1>4. /\ Free(a) /\ Counted /\ BeginUpload(a, k)
      /\ Careful => form = {}
      /\ UNCHANGED <<imageManner, used, stored, handed, form, imageKey, active, assets, ownerOf,
                     session, job, faults>>
    BY <1>1, <1>2, <1>3 DEF Cleanup, MayBegin, tables
<1>5. c \in Upload /\ c.kind = "cleanup" /\ c.of = "none"
    <2>1. "cleanup" \in UploadKinds /\ "list" \in Steps BY DEF UploadKinds, Steps
    <2> QED BY <1>2, <2>1, NewUploadFields
<1>6. k \in Upload /\ k.kind = "cleanup" /\ k.at = "list" /\ k.known = known
    <2>1. "list" \in Steps BY DEF Steps
    <2> QED BY <1>3, <1>5, <2>1, MovedFields
<1>7. CallShaped(k) BY <1>6 DEF CallShaped
<1>8. TablesTyped' BY <1>4, InvFacts DEF TablesTyped
<1>9. ImageTyped' /\ Turn(a, k) BY <1>4, <1>6, <1>7, <1>8, InvFacts, TypedTurn
<1>10. upload'[a] = k /\ \A b \in Admins : b # a => upload'[b] = upload[b] BY <1>9 DEF Turn
<1>11. ASSUME NEW x \in Images PROVE LifeOf(x)'
    <2>1. LifeOf(x) /\ form \subseteq used BY InvFacts DEF TablesTyped
    <2>2. LifeStays(x)
        BY <1>4, <1>6, <1>10 DEF LifeStays, Presigning, Writing, Finalized, Finalizing
    <2> QED BY <2>1, <2>2, LifeKept
<1>12. SerialHeld'
    <2>1. k.kind # "none" =>
             upload[a].kind # "none" \/ (imageManner # "any" => \A b \in Admins : Free(b))
        BY <1>4 DEF Counted
    <2> QED BY <1>4, <1>6, <1>9, <2>1, InvFacts, SerialTurn
<1>13. CarefulHeld'
    <2>1. SUFFICES ASSUME Careful PROVE CarefulHeld'
        BY <1>4 DEF CarefulHeld, Careful
    <2>2. \A b \in Admins : upload[b].kind = "none" BY <1>4, <2>1 DEF Counted, Careful, Free
    <2>3. /\ form \subseteq stored /\ \A q \in Products : imageKey[q] \notin form
          /\ \A q, r \in Products : imageKey[q] = imageKey[r] /\ q # r => imageKey[q] = NoImage
          /\ \A q \in Products : active[q] /\ imageKey[q] # NoImage => imageKey[q] \in stored
        BY <2>1, <2>2, CarefulFacts
    <2>4. \A q \in Products : imageKey[q] # NoImage => imageKey[q] \in known
        BY <1>1, InvFacts DEF Referenced, TablesTyped
    <2>5. CleanerHeld(a)' BY <1>4, <1>6, <1>10, <2>1, <2>4 DEF CleanerHeld
    <2> QED BY <1>4, <1>6, <1>10, <2>1, <2>2, <2>3, <2>5, CarefulAlone
<1> QED BY <1>9, <1>11, <1>12, <1>13 DEF ImageInv

\* The cleanup goes on or ends: what it has erased is in no row and in no form.
LEMMA CleanerGoesOn ==
    ASSUME ImageInv, NEW a \in Admins, upload[a].kind = "cleanup", NEW k, BeginUpload(a, k),
           NEW known \in SUBSET Images,
           k = NoUpload \/ k = Moved(upload[a], "sweep", known),
           stored' \subseteq stored, job' \in Jobs, Fault \/ faults' = faults,
           \A j \in Operations \X Images : job'[j].tried <= job[j].tried,
           \A x \in Images : job'[<<"FINALIZE", x>>] = job[<<"FINALIZE", x>>],
           UNCHANGED <<imageManner, used, handed, form, imageKey, active, assets, ownerOf,
                       session,
                       calls>>,
           Careful => /\ job' = job
                      /\ \A q \in Products :
                            /\ imageKey[q] # NoImage => imageKey[q] \notin known
                            /\ imageKey[q] # NoImage /\ imageKey[q] \in stored =>
                                   imageKey[q] \in stored'
    PROVE ImageInv'
<1>1. upload[a] \in Upload BY InvFacts, NoUploadFields
<1>2. /\ k \in Upload \cup {NoUpload} /\ GoesOn(a, k) /\ CallShaped(k)
      /\ k # NoUpload => k.at = "sweep" /\ k.kind = "cleanup" /\ k.known = known
    <2>1. CASE k = NoUpload BY <2>1, EndOfCall
    <2>2. CASE k = Moved(upload[a], "sweep", known)
        <3>1. "sweep" \in Steps BY DEF Steps
        <3>2. /\ k \in Upload \cup {NoUpload} /\ GoesOn(a, k) /\ k.at = "sweep"
              /\ k.kind = "cleanup" /\ k.known = known
            BY <1>1, <2>2, <3>1, GoesTo
        <3> QED BY <3>2 DEF CallShaped
    <2> QED BY <2>1, <2>2
<1>3. TablesTyped' BY InvFacts DEF TablesTyped
<1>4. k.kind # "retry" BY <1>2, NoUploadFields
<1>5. ImageTyped' /\ Turn(a, k) BY <1>2, <1>3, <1>4, InvFacts, TypedTurn
<1>6. (\A x \in Images : LifeOf(x)') /\ SerialHeld' BY <1>2, <1>5, ErasingTurn
<1>7. CarefulHeld'
    <2>1. SUFFICES ASSUME Careful PROVE CarefulHeld'
        BY DEF CarefulHeld, Careful
    <2>2. upload'[a] = k /\ \A b \in Admins : b # a => upload'[b] = upload[b] BY <1>5 DEF Turn
    <2>3. \A b \in Admins : b # a => upload[b].kind = "none" BY <2>1, CarefulFacts
    <2>4. /\ \A q, r \in Products : imageKey[q] = imageKey[r] /\ q # r => imageKey[q] = NoImage
          /\ CleanerHeld(a)
        BY <2>1, CarefulFacts
    <2>5. form = {} BY <2>4 DEF CleanerHeld
    <2>6. \A q \in Products : active[q] /\ imageKey[q] # NoImage => imageKey[q] \in stored
        BY <2>1, <2>3, CarefulFacts
    <2>7. k # NoUpload => CleanerHeld(a)' BY <1>2, <2>1, <2>2, <2>5 DEF CleanerHeld
    <2>8. /\ upload'[a].kind \in {"none", "cleanup"}
          /\ upload'[a].kind = "cleanup" => CleanerHeld(a)'
        BY <1>2, <2>2, <2>7, NoUploadFields
    <2>9. \A q \in Products : active'[q] /\ imageKey'[q] # NoImage => imageKey'[q] \in stored'
        BY <2>1, <2>6
    <2>10. /\ \A q, r \in Products : imageKey'[q] = imageKey'[r] /\ q # r =>
                  imageKey'[q] = NoImage
           /\ form' \subseteq stored' /\ \A q \in Products : imageKey'[q] \notin form'
        BY <2>4, <2>5
    <2>11. job' = job BY <2>1
    <2> QED BY <2>1, <2>2, <2>3, <2>8, <2>9, <2>10, <2>11, CarefulAlone
<1> QED BY <1>5, <1>6, <1>7 DEF ImageInv

LEMMA CleanupListsKept == ASSUME ImageInv, NEW a \in Admins, CleanupLists(a) PROVE ImageInv'
<1>1. /\ upload[a] \in Upload /\ upload[a].kind = "cleanup" /\ upload[a].at = "list"
    BY StandingFields DEF CleanupLists
<1>2. PICK known \in SUBSET Images : known = stored \ upload[a].known
    BY InvFacts DEF TablesTyped
<1>3. PICK k : k = Moved(upload[a], "sweep", known) OBVIOUS
<1>4. /\ BeginUpload(a, k)
      /\ UNCHANGED <<imageManner, used, stored, handed, form, imageKey, active, assets, ownerOf,
                     session, job, faults, calls>>
    BY <1>2, <1>3 DEF CleanupLists, tables
<1>5. ASSUME Careful, NEW q \in Products, imageKey[q] # NoImage PROVE imageKey[q] \notin known
    BY <1>1, <1>2, <1>5, CarefulFacts DEF CleanerHeld
<1>6. Careful => /\ job' = job
                 /\ \A q \in Products :
                       /\ imageKey[q] # NoImage => imageKey[q] \notin known
                       /\ imageKey[q] # NoImage /\ imageKey[q] \in stored =>
                              imageKey[q] \in stored'
    BY <1>4, <1>5
<1> QED BY <1>1, <1>3, <1>4, <1>6, InvFacts, CleanerGoesOn

LEMMA CleanupSweepsKept == ASSUME ImageInv, NEW a \in Admins, CleanupSweeps(a) PROVE ImageInv'
<1>1. /\ upload[a] \in Upload /\ upload[a].kind = "cleanup" /\ upload[a].at = "sweep"
    BY StandingFields DEF CleanupSweeps
<1>2. UNCHANGED <<imageManner, used, handed, form, imageKey, active, assets, ownerOf, session, calls>>
    BY DEF CleanupSweeps, tables
<1>3. PICK known \in SUBSET Images : known = upload[a].known BY <1>1 DEF Upload
<1>4. ASSUME Careful, NEW q \in Products, imageKey[q] # NoImage PROVE imageKey[q] \notin known
    BY <1>1, <1>3, <1>4, CarefulFacts DEF CleanerHeld
<1>5. "DELETE" \in Operations \ {"FINALIZE"} /\ "CLEANUP" \in Operations \ {"FINALIZE"}
    BY DEF Operations
<1>6. CASE known = {}
    <2>1. BeginUpload(a, NoUpload) /\ UNCHANGED <<stored, job, faults>>
        BY <1>3, <1>6 DEF CleanupSweeps, End, BeginUpload
    <2>2. Careful => /\ job' = job
                     /\ \A q \in Products :
                           /\ imageKey[q] # NoImage => imageKey[q] \notin known
                           /\ imageKey[q] # NoImage /\ imageKey[q] \in stored =>
                                  imageKey[q] \in stored'
        BY <1>4, <2>1
    <2> QED BY <1>1, <1>2, <2>1, <2>2, InvFacts, CleanerGoesOn
<1>7. CASE known # {}
    <2>1. PICK i \in known :
             \/ Erased(i) /\ BeginUpload(a, Moved(upload[a], "sweep", known \ {i}))
             \/ /\ Fault /\ BeginUpload(a, NoUpload) /\ UNCHANGED stored
                /\ job' = Track(Track(job, "DELETE", i), "CLEANUP", i)
        BY <1>3, <1>7 DEF CleanupSweeps, End, BeginUpload
    <2>2. i \in Images BY <1>3
    <2>3. CASE Erased(i) /\ BeginUpload(a, Moved(upload[a], "sweep", known \ {i}))
        <3>1. PICK k : k = Moved(upload[a], "sweep", known \ {i}) OBVIOUS
        <3>2. stored' = stored \ {i} /\ UNCHANGED <<job, faults>> BY <2>3 DEF Erased
        <3>3. ASSUME Careful
              PROVE /\ job' = job
                    /\ \A q \in Products :
                          /\ imageKey[q] # NoImage => imageKey[q] \notin known \ {i}
                          /\ imageKey[q] # NoImage /\ imageKey[q] \in stored =>
                                 imageKey[q] \in stored'
            BY <1>4, <2>1, <3>2, <3>3
        <3>4. known \ {i} \in SUBSET Images OBVIOUS
        <3> QED BY <1>1, <1>2, <2>3, <3>1, <3>2, <3>3, <3>4, InvFacts, CleanerGoesOn
    <2>4. CASE /\ Fault /\ BeginUpload(a, NoUpload) /\ UNCHANGED stored
               /\ job' = Track(Track(job, "DELETE", i), "CLEANUP", i)
        <3>1. job \in Jobs /\ \A j \in Operations \X Images : job[j].tried <= job[j].tried
            BY InvFacts
        <3>2. \A x \in Images : job[<<"FINALIZE", x>>] = job[<<"FINALIZE", x>>] OBVIOUS
        <3>3. PICK jobs : jobs = Track(job, "DELETE", i) OBVIOUS
        <3>4. /\ jobs \in Jobs
              /\ \A j \in Operations \X Images : jobs[j].tried <= job[j].tried
              /\ \A x \in Images : jobs[<<"FINALIZE", x>>] = job[<<"FINALIZE", x>>]
            BY <1>5, <2>2, <3>1, <3>2, <3>3, TrackedDelete
        <3>5. /\ job' \in Jobs
              /\ \A j \in Operations \X Images : job'[j].tried <= job[j].tried
              /\ \A x \in Images : job'[<<"FINALIZE", x>>] = job[<<"FINALIZE", x>>]
            BY <1>5, <2>2, <2>4, <3>3, <3>4, TrackedDelete
        <3>6. ~Careful BY <2>4 DEF Fault, MayFail
        <3> QED BY <1>1, <1>2, <2>4, <3>5, <3>6, CleanerGoesOn
    <2> QED BY <2>1, <2>3, <2>4
<1> QED BY <1>6, <1>7

\* The commit of a finalize: asset, row and session at once, or none.
LEMMA FinalizeCommitsKept == ASSUME ImageInv, NEW a \in Admins, FinalizeCommits(a) PROVE ImageInv'
<1>1. /\ upload[a] \in Upload /\ upload[a].kind = "finalize" /\ upload[a].at = "commit"
      /\ CallShaped(upload[a]) /\ upload[a] # NoUpload
    BY StandingFields DEF FinalizeCommits
<1>2. PICK p \in Products, i \in Images : upload[a].product = p /\ upload[a].image = i
    BY <1>1 DEF CallShaped
<1>3. PICK c : c = upload[a] OBVIOUS
<1>4. UNCHANGED <<imageManner, used, stored, handed, form, active, ownerOf, calls>>
    BY DEF FinalizeCommits
<1>5. CASE session[p].image # i
    <2>1. FinalizeFails(a, TRUE, session) /\ UNCHANGED <<assets, imageKey, session, faults>>
        BY <1>2, <1>5 DEF FinalizeCommits
    <2>2. FinalizeFails(a, TRUE, session') BY <2>1
    <2>3. session' \in [Products -> [image : Images \cup {NoImage}, expired : BOOLEAN]]
          /\ \A q \in Products : session'[q] = session[q] \/ session'[q] = NoSession
        BY <2>1, InvFacts DEF TablesTyped
    <2> QED BY <1>1, <1>4, <2>1, <2>2, <2>3, FinalizeEndsKept
<1>6. CASE session[p].image = i
    <2>1. /\ assets' = [assets EXCEPT ![i] = assets[i] + 1]
          /\ imageKey' = [imageKey EXCEPT ![p] = i]
          /\ session' = [session EXCEPT ![p] = NoSession]
          /\ \/ BeginUpload(a, NoUpload) /\ UNCHANGED faults /\ job' = Settled(job, c, TRUE)
             \/ Fault /\ UNCHANGED <<upload, job>>
        BY <1>2, <1>3, <1>6 DEF FinalizeCommits, CommitWrites, End, BeginUpload
    <2>2. \A x \in Images : LifeOf(x) /\ NoImage # x BY InvFacts, ImageConstants
    <2>3. Waiting(i) BY <1>6 DEF Waiting, SessionOf
    <2>4. /\ assets[i] = 0 /\ i \notin form /\ i \in used /\ ownerOf[i] = p
          /\ \A q \in Products : imageKey[q] # i
          /\ \A b \in Admins : ~Writing(b, i)
          /\ \A q \in Products : session[q].image = i => q = p
          /\ \A b \in Admins : ~Presigning(b, i)
        <3>1. /\ assets[i] = 0 /\ i \notin form /\ i \in used
              /\ \A q \in Products : imageKey[q] # i
              /\ \A b \in Admins : ~Writing(b, i)
            BY <2>2, <2>3 DEF LifeOf
        <3>2. ownerOf[i] = p /\ \A q \in Products : session[q].image = i => q = p
            BY <1>6, <2>2 DEF LifeOf
        <3>3. SessionOf(i) # {} BY <1>6 DEF SessionOf
        <3>4. \A b \in Admins : ~Presigning(b, i) BY <2>2, <3>3 DEF LifeOf
        <3> QED BY <3>1, <3>2, <3>4
    <2>5. /\ assets'[i] = 1 /\ \A x \in Images : x # i => assets'[x] = assets[x]
          /\ assets' \in [Images -> Nat]
        BY <2>1, <2>4, InvFacts DEF TablesTyped
    <2>6. /\ imageKey'[p] = i /\ \A q \in Products : q # p => imageKey'[q] = imageKey[q]
          /\ imageKey' \in [Products -> Images \cup {NoImage}]
        BY <2>1, InvFacts DEF TablesTyped
    <2>7. /\ session'[p] = NoSession /\ \A q \in Products : q # p => session'[q] = session[q]
          /\ session' \in [Products -> [image : Images \cup {NoImage}, expired : BOOLEAN]]
        BY <2>1, InvFacts DEF TablesTyped, NoSession
    <2>8. TablesTyped' BY <1>4, <2>5, <2>6, <2>7, InvFacts DEF TablesTyped
    <2>9. NoSession.image = NoImage BY DEF NoSession
    <2>10. \A q \in Products : session'[q].image # i BY <2>2, <2>4, <2>7, <2>9
    <2>11. /\ upload' = upload \/ BeginUpload(a, NoUpload)
           /\ job' \in Jobs /\ (Fault \/ faults' = faults)
           /\ \A j \in Operations \X Images : job'[j].tried <= job[j].tried
           /\ \A j \in Operations \X Images : j # <<"FINALIZE", i>> => job'[j] = job[j]
        <3>1. CASE Fault /\ UNCHANGED <<upload, job>> BY <3>1, InvFacts
        <3>2. CASE BeginUpload(a, NoUpload) /\ UNCHANGED faults /\ job' = Settled(job, c, TRUE)
            <4>1. c.of \in {"none", "FINALIZE"} /\ c.image = i
                BY <1>1, <1>2, <1>3 DEF CallShaped
            <4>2. c.of = "none" \/ (c.of \in Operations /\ c.image \in Images)
                BY <4>1 DEF Operations
            <4>3. /\ job' \in Jobs
                  /\ \A j \in Operations \X Images : job'[j].tried <= job[j].tried
                  /\ \A j \in Operations \X Images : c.of = "none" \/ j # JobOf(c) =>
                         job'[j] = job[j]
                BY <3>2, <4>2, InvFacts, SettledWell
            <4>4. c.of # "none" => JobOf(c) = <<"FINALIZE", i>> BY <4>1 DEF JobOf
            <4> QED BY <3>2, <4>3, <4>4
        <3> QED BY <2>1, <3>1, <3>2
    <2>12. ImageTyped'
        <3>1. CASE upload' = upload BY <1>4, <2>8, <2>11, <3>1, InvFacts, TypedStill
        <3>2. CASE BeginUpload(a, NoUpload)
            BY <1>4, <2>8, <2>11, <3>2, InvFacts, EndOfCall, TypedTurn
        <3> QED BY <2>11, <3>1, <3>2
    <2>13. \A b \in Admins : upload'[b] = upload[b] \/ (b = a /\ upload'[b] = NoUpload)
        BY <2>11, InvFacts DEF BeginUpload
    <2>14. \A b \in Admins : upload'[b].kind # "none" => upload'[b] = upload[b]
        BY <2>13, NoUploadFields
    <2>15. Finalized(i) BY <1>1, <1>2 DEF Finalized, Finalizing
    <2>16. ASSUME NEW x \in Images, x # i PROVE LifeOf(x)'
        <3>1. <<"FINALIZE", x>> \in Operations \X Images BY DEF Operations
        <3>2. job'[<<"FINALIZE", x>>] = job[<<"FINALIZE", x>>] BY <2>11, <2>16, <3>1
        <3>3. LifeStays(x)
            BY <1>4, <2>2, <2>5, <2>6, <2>7, <2>9, <2>14, <2>16, <3>2
            DEF LifeStays, Presigning, Writing, Finalized, Finalizing
        <3>4. form \subseteq used BY InvFacts DEF TablesTyped
        <3> QED BY <2>2, <3>3, <3>4, LifeKept
    <2>17. LifeOf(i)'
        <3>1. \A b \in Admins : ~(upload'[b].kind = "presign" /\ upload'[b].image = i)
            BY <2>4, <2>14 DEF Presigning
        <3>2. SessionOf(i)' = {} BY <2>10 DEF SessionOf
        <3>3. ~Waiting(i)' BY <3>1, <3>2 DEF Waiting, Presigning
        <3>4. \A b \in Admins : upload'[b].kind = "finalize" /\ upload'[b].image = i =>
                 ownerOf'[i] = upload'[b].product
            <4>1. \A b \in Admins : upload[b].kind = "finalize" /\ upload[b].image = i =>
                     ownerOf[i] = upload[b].product
                BY <2>2 DEF LifeOf
            <4> QED BY <1>4, <2>14, <4>1
        <3> QED BY <1>4, <2>4, <2>5, <2>10, <3>1, <3>2, <3>3, <3>4 DEF LifeOf, Presigning
    <2>18. SerialHeld'
        <3>1. SUFFICES ASSUME imageManner # "any" PROVE SerialHeld'
            BY <1>4 DEF SerialHeld
        <3>2. SerialHeld BY InvFacts
        <3>3. \A b, d \in Admins : upload'[b].kind # "none" /\ upload'[d].kind # "none" => b = d
            BY <2>14, <3>1, <3>2 DEF SerialHeld, Free
        <3>4. session[p] # NoSession BY <1>6, <2>2, <2>9
        <3>5. AssetCount(p) < MaxImages BY <3>1, <3>2, <3>4 DEF SerialHeld, HasRoom
        <3>6. ASSUME NEW q \in Products, q # p PROVE AssetCount(q)' = AssetCount(q)
            <4>1. {x \in Images : ownerOf'[x] = q /\ assets'[x] > 0}
                     = {x \in Images : ownerOf[x] = q /\ assets[x] > 0}
                BY <1>4, <2>4, <2>5, <3>6
            <4> QED BY <4>1 DEF AssetCount
        <3>7. AssetCount(p)' <= MaxImages
            <4> DEFINE S == {x \in Images : ownerOf[x] = p /\ assets[x] > 0}
            <4>1. {x \in Images : ownerOf'[x] = p /\ assets'[x] > 0} = S \cup {i}
                BY <1>4, <2>4, <2>5
            <4>2. IsFiniteSet(S) BY ImageConstants, FS_Subset
            <4>3. i \notin S BY <2>4
            <4>4. AssetCount(p) = Cardinality(S) BY DEF AssetCount
            <4>5. AssetCount(p)' = Cardinality(S \cup {i}) BY <4>1 DEF AssetCount
            <4> HIDE DEF S
            <4>6. Cardinality(S \cup {i}) = Cardinality(S) + 1 /\ Cardinality(S) \in Nat
                BY <4>2, <4>3, FS_AddElement, FS_CardinalityType
            <4> QED BY <3>5, <4>4, <4>5, <4>6, ImageConstants
        <3>8. \A q \in Products : /\ AssetCount(q)' <= MaxImages
                                  /\ session'[q] # NoSession => AssetCount(q)' < MaxImages
            <4> TAKE q \in Products
            <4>1. CASE q = p BY <2>7, <3>7, <4>1
            <4>2. CASE q # p BY <2>7, <3>1, <3>2, <3>6, <4>2 DEF SerialHeld, HasRoom
            <4> QED BY <4>1, <4>2
        <3>9. \A b \in Admins : upload'[b].kind # "presign"
            BY <1>1, <2>14, <3>1, <3>2 DEF SerialHeld, Free
        <3> QED BY <3>3, <3>8, <3>9 DEF SerialHeld, HasRoom, Free
    <2>19. CarefulHeld'
        <3>1. SUFFICES ASSUME Careful PROVE CarefulHeld'
            BY <1>4 DEF CarefulHeld, Careful
        <3>2. BeginUpload(a, NoUpload) /\ job' = Settled(job, c, TRUE)
            BY <2>1, <3>1, CarefulFacts DEF Fault
        <3>3. upload'[a] = NoUpload /\ \A b \in Admins : b # a => upload'[b] = upload[b]
            BY <3>2, InvFacts DEF BeginUpload
        <3>4. \A b \in Admins : b # a => upload[b].kind = "none" BY <1>1, <3>1, CarefulFacts
        <3>5. /\ form \subseteq stored /\ \A q \in Products : imageKey[q] \notin form
              /\ \A q, r \in Products : imageKey[q] = imageKey[r] /\ q # r =>
                     imageKey[q] = NoImage
            BY <3>1, CarefulFacts
        <3>6. \A q \in Products : active[q] /\ imageKey[q] # NoImage => imageKey[q] \in stored
            BY <1>1, <3>1, <3>4, CarefulFacts
        <3>7. i \in stored BY <1>1, <1>2, <3>1, InvFacts DEF CarefulHeld, Stands
        <3>8. ASSUME NEW x \in Images, NEW op \in Operations \ {"FINALIZE"}
              PROVE job'[<<op, x>>] = job[<<op, x>>]
            BY <2>11
        <3>9. \A q \in Products : active'[q] /\ imageKey'[q] # NoImage => imageKey'[q] \in stored'
            BY <1>4, <2>6, <3>6, <3>7
        <3>10. form' \subseteq stored' /\ \A q \in Products : imageKey'[q] \notin form'
            BY <1>4, <2>4, <2>6, <3>5
        <3>11. \A q, r \in Products : imageKey'[q] = imageKey'[r] /\ q # r =>
                   imageKey'[q] = NoImage
            BY <2>4, <2>6, <3>5
        <3> QED BY <1>4, <3>1, <3>3, <3>4, <3>8, <3>9, <3>10, <3>11, NoUploadFields, CarefulAlone
    <2> QED BY <2>12, <2>16, <2>17, <2>18, <2>19 DEF ImageInv
<1> QED BY <1>5, <1>6

-----------------------------------------------------------------------------
\* The invariant holds at the start, every step keeps it, and it says what is promised.
LEMMA ImageStarts == ImageInit => ImageInv
<1>1. SUFFICES ASSUME ImageInit PROVE ImageInv OBVIOUS
<1>2. NoUpload.kind = "none" /\ CallShaped(NoUpload) BY EndOfCall
<1>3. \A a \in Admins : upload[a] = NoUpload BY <1>1 DEF ImageInit
<1>4. \A a \in Admins : upload[a].kind = "none" BY <1>2, <1>3
<1>5. NoSession \in [image : Images \cup {NoImage}, expired :
          BOOLEAN] /\ NoSession.image = NoImage
    BY DEF NoSession
<1>6. NoJob \in JobTypes /\ NoJob.tried = 0 /\ NoJob.status = "none"
    BY ImageConstants DEF NoJob, JobTypes
<1>7. job \in Jobs /\ \A j \in Operations \X Images : job[j] = NoJob
    BY <1>1, <1>6 DEF ImageInit, Jobs
<1>8. MaxCalls[imageManner] \in Nat BY <1>1, CallsBound DEF ImageInit
<1>9. ImageTypeOK
    BY <1>1, <1>5, <1>7, <1>8, ImageConstants DEF ImageInit, ImageTypeOK, Jobs, JobTypes
<1>10. TriedBound
    <2>1. ASSUME NEW j \in Operations \X Images
          PROVE job[j].tried + Cardinality(Marking(j)) <= MaxRetries + Cardinality(Admins) - 1
        <3>1. Marking(j) = {} BY <1>4 DEF Marking, Stands
        <3>2. Cardinality(Marking(j)) = 0 BY <3>1, FS_EmptySet
        <3> QED BY <1>6, <1>7, <3>2, ImageConstants
    <2> QED BY <2>1 DEF TriedBound
<1>11. ImageTyped BY <1>1, <1>2, <1>3, <1>9, <1>10 DEF ImageTyped, ImageInit
<1>12. ASSUME NEW i \in Images PROVE LifeOf(i)
    <2>1. <<"FINALIZE", i>> \in Operations \X Images BY DEF Operations
    <2>2. NoImage # i BY ImageConstants
    <2>3. job[<<"FINALIZE", i>>].status = "none" BY <1>6, <1>7, <2>1
    <2>4. SessionOf(i) = {} /\ \A p \in Products : session[p].image # i
        BY <1>1, <1>5, <2>2 DEF ImageInit, SessionOf
    <2>5. ~Waiting(i) /\ ~Finalized(i)
        BY <1>4, <2>3, <2>4 DEF Waiting, Finalized, Presigning, Finalizing
    <2> QED BY <1>1, <1>4, <2>2, <2>3, <2>4, <2>5 DEF LifeOf, Presigning, Writing, ImageInit
<1>13. SerialHeld
    <2>1. ASSUME NEW p \in Products PROVE AssetCount(p) = 0
        <3>1. {i \in Images : ownerOf[i] = p /\ assets[i] > 0} = {} BY <1>1 DEF ImageInit
        <3> QED BY <3>1, FS_EmptySet DEF AssetCount
    <2>2. \A p \in Products : session[p] = NoSession BY <1>1 DEF ImageInit
    <2> QED BY <1>4, <2>1, <2>2, ImageConstants DEF SerialHeld, Free
<1>14. CarefulHeld
    <2>1. ASSUME NEW i \in Images, NEW op \in Operations \ {"FINALIZE"}
          PROVE job[<<op, i>>].status = "none"
        BY <1>6, <1>7
    <2>2. form = {} /\ \A p \in Products : imageKey[p] = NoImage BY <1>1 DEF ImageInit
    <2> QED BY <1>4, <2>1, <2>2 DEF CarefulHeld, NamesStored, Stands
<1> QED BY <1>11, <1>12, <1>13, <1>14 DEF ImageInv

LEMMA ImageKept == ImageInv /\ [ImageNext]_imageVars => ImageInv'
<1> SUFFICES ASSUME ImageInv, [ImageNext]_imageVars PROVE ImageInv' OBVIOUS
<1>1. CASE UNCHANGED imageVars
    <2>1. TablesTyped' BY <1>1, InvFacts DEF TablesTyped, imageVars, tables
    <2> QED BY <1>1, <2>1, NobodyCalls DEF imageVars, tables
<1>2. ASSUME NEW a \in Admins, UploadStep(a) PROVE ImageInv'
    BY <1>2, PresignReadsKept, PresignDeletesKept, PresignCreatesKept, FinalizeExpiredKept,
       FinalizeHeadsKept, FinalizeCommitsKept, LegacyErasesKept, EditErasesKept, RowWritesKept,
       CleanupListsKept, CleanupSweepsKept, RetryMarksKept, RetryErasesKept DEF UploadStep
<1>3. ASSUME NEW a \in Admins, NEW p \in Products, NEW i \in Images,
             Presign(a, p, i) \/ LegacyUpload(a, p, i)
      PROVE ImageInv'
    BY <1>3, PresignKept, LegacyUploadKept
<1>4. ASSUME NEW a \in Admins, NEW i \in Images, Finalize(a, i) \/ DeleteByHand(a, i)
      PROVE ImageInv'
    BY <1>4, FinalizeKept, DeleteByHandKept
<1>5. ASSUME NEW a \in Admins, NEW p \in Products, RemoveProduct(a, p) PROVE ImageInv'
    BY <1>5, RemoveProductKept
<1>6. ASSUME NEW a \in Admins, NEW p \in Products, NEW i \in Images \cup {NoImage}, Edit(a, p, i)
      PROVE ImageInv'
    BY <1>6, EditKept
<1>7. ASSUME NEW a \in Admins, NEW op \in Operations, NEW i \in Images, Retry(a, op, i)
      PROVE ImageInv'
    BY <1>7, RetryKept
<1>8. ASSUME NEW i \in Images, ClientPuts(i) \/ UploadForForm(i) \/ AbandonForm(i) PROVE ImageInv'
    BY <1>8, ClientPutsKept, UploadForFormKept, AbandonFormKept
<1>9. ASSUME NEW p \in Products, TimeRunsOut(p) \/ ForceClose(p) PROVE ImageInv'
    BY <1>9, TimeRunsOutKept, ForceCloseKept
<1>10. ASSUME NEW a \in Admins, Cleanup(a) PROVE ImageInv' BY <1>10, CleanupKept
<1> QED BY <1>1, <1>2, <1>3, <1>4, <1>5, <1>6, <1>7, <1>8, <1>9, <1>10 DEF ImageNext

LEMMA ImageImplies == ImageInv => ImagesSound
<1> SUFFICES ASSUME ImageInv PROVE ImagesSound OBVIOUS
<1>1. ImageTypeOK BY InvFacts DEF ImageTyped
<1>2. AssetOnce BY InvFacts DEF AssetOnce, LifeOf
<1>3. ResolvedIsDone BY InvFacts DEF ResolvedIsDone, LifeOf
<1>4. AssetsWithinLimit BY InvFacts DEF AssetsWithinLimit, SerialHeld
<1>5. ShownIsStored
    <2>1. SUFFICES ASSUME Careful, \A a \in Admins : Free(a)
                   PROVE \A p \in Products : active[p] /\ imageKey[p] # NoImage =>
                       imageKey[p] \in stored
        BY DEF ShownIsStored
    <2> QED BY <2>1, CarefulFacts DEF Free
<1> QED BY <1>1, <1>2, <1>3, <1>4, <1>5 DEF ImagesSound

\* For any products, images, admins and collisions of their calls: an upload becomes one asset
\* at most, a finalize that is resolved has nothing left to do, calls in turn keep the limit,
\* and in careful use the image of a product that is shown is in the store.
THEOREM ImagesKept == ImageSpec => []ImagesSound
<1>1. ImageInv /\ [ImageNext]_imageVars => ImageInv' BY ImageKept
<1>2. ImageInit => ImageInv BY ImageStarts
<1>3. ImageInv => ImagesSound BY ImageImplies
<1> QED BY <1>1, <1>2, <1>3, PTL DEF ImageSpec
=============================================================================
