-------------------------- MODULE CartStoreProofs --------------------------
(***************************************************************************)
(* What a customer's browser holds: the optimistic cart, for any number of *)
(* variants, taps and calls, and the orders of a guest, for any number of  *)
(* tabs and polls.                                                         *)
(* In a calm visit to the cart one call is under way at a time, what it    *)
(* has read is still so (CalmCalls), and a row is what the page knew of it *)
(* and what of the delta in flight has reached it since (CalmRows).        *)
(* A guest's order that was heard to have ended has ended for good, so an  *)
(* answer that says otherwise was on its way before (TrackInv).            *)
(* The prices a visitor is shown are those a line of the cart is charged,  *)
(* for any saves of the product (TagInv).                                  *)
(* And what that product is made of (ProductAdmin), for all forms, stocks  *)
(* and requests: in turn, what a request has read is still so; overlapping *)
(* ones hold the variants of their product alone (ProductInv).             *)
(***************************************************************************)
EXTENDS CartStore, GuestTracking, PriceTags, ProductAdmin, FiniteSums

-----------------------------------------------------------------------------
(* Types *)

LEMMA EmptyRows == Empty \in Rows
  BY DEF Empty, Rows

LEMMA NewCallType ==
  ASSUME NEW kind \in {"post", "delete", "get"}, NEW v \in Variants, NEW d \in Int
  PROVE  NewCall(kind, v, d) \in Call
  BY EmptyRows DEF NewCall, Call

LEMMA SendType ==
  ASSUME TypeOK, NEW call \in Call, Send(call)
  PROVE  calls' \in [Slots -> Call \cup {NoCall}]
  BY DEF Send, TypeOK, Busy

LEMMA BusyCall ==
  ASSUME TypeOK, NEW s \in Busy
  PROVE  s \in Slots /\ calls[s] \in Call
  BY DEF Busy, TypeOK

LEMMA DeltaType ==
  ASSUME TypeOK, NEW v \in Variants
  PROVE  /\ Known(v) \in Int
         /\ \A d \in Deltas(v) : d \in Int /\ SafeDelta(v, d) \in Int
<1>1. server[v] \in Nat /\ pending[v] \in Int /\ inFlight[v] \in Int
  BY DEF TypeOK, Rows
<1>2. Known(v) \in Int
  BY <1>1 DEF Known
<1>3. Quantity(v) \in Int
  BY <1>2 DEF Quantity, Positive
<1>4. ASSUME NEW d \in Deltas(v) PROVE d \in Int
  BY <1>3 DEF Deltas, Step, DecreaseDelta
<1>5. ASSUME NEW d \in Deltas(v) PROVE SafeDelta(v, d) \in Int
  <2>1. d \in Int
    BY <1>4
  <2>. QED  BY <2>1, <1>2 DEF SafeDelta
<1>. QED  BY <1>2, <1>4, <1>5

LEMMA TypeInit == Init => TypeOK
  BY EmptyRows, CartAssumption DEF Init, TypeOK, Empty, Rows

LEMMA TypeCustomer ==
  ASSUME TypeOK, Customer
  PROVE  TypeOK'
<1>1. ASSUME NEW v \in Variants, AdjustCart(v) PROVE TypeOK'
  <2>1. PICK d \in Deltas(v), named \in BOOLEAN : IncrementCart(v, d, named)
    BY <1>1 DEF AdjustCart
  <2>2. pending[v] + SafeDelta(v, d) \in Int
    BY DeltaType DEF TypeOK
  <2>3. pending' \in [Variants -> Int] /\ timer' \in [Variants -> BOOLEAN]
    BY <2>1, <2>2 DEF IncrementCart, TypeOK
  <2>4. activeStore' \in Stores \cup {NoStore}
    BY <2>1, CartAssumption DEF IncrementCart, TypeOK
  <2>5. UNCHANGED <<server, inFlight, stored, loaded>>
    BY <2>1 DEF IncrementCart
  <2>6. taps' \in Nat
    BY <1>1 DEF AdjustCart, TypeOK
  <2>. QED  BY <1>1, <2>3, <2>4, <2>5, <2>6 DEF AdjustCart, TypeOK
<1>2. ASSUME NEW v \in Variants, DeleteCartLine(v) PROVE TypeOK'
  <2>1. Send(NewCall("delete", v, 0))
    BY <1>2 DEF DeleteCartLine
  <2>2. calls' \in [Slots -> Call \cup {NoCall}]
    BY <2>1, NewCallType, SendType
  <2>3. taps' \in Nat
    BY <1>2 DEF DeleteCartLine, TypeOK
  <2>. QED  BY <1>2, <2>2, <2>3 DEF DeleteCartLine, TypeOK, page
<1>3. CASE FetchCart
  <2>1. PICK v \in Variants : Send(NewCall("get", v, 0))
    BY <1>3 DEF FetchCart
  <2>2. calls' \in [Slots -> Call \cup {NoCall}]
    BY <2>1, NewCallType, SendType
  <2>. QED  BY <1>3, <2>2 DEF FetchCart, TypeOK, page, budget
<1>4. CASE ReloadPage
  <2>1. \A s \in Busy : [calls[s] EXCEPT !.live = FALSE] \in Call
    BY BusyCall DEF Call
  <2>2. calls' \in [Slots -> Call \cup {NoCall}]
    BY <1>4, <2>1 DEF ReloadPage
  <2>3. pending' \in [Variants -> Int] /\ inFlight' \in [Variants -> Int]
    BY <1>4 DEF ReloadPage, Empty
  <2>4. timer' \in [Variants -> BOOLEAN] /\ loaded' \in {"no", "stored", "fetched"}
        /\ upsets' \in Nat
    BY <1>4 DEF ReloadPage, TypeOK
  <2>. QED  BY <1>4, <2>2, <2>3, <2>4 DEF ReloadPage, TypeOK
<1>5. CASE PlaceOrder
  BY <1>5, EmptyRows DEF PlaceOrder, TypeOK
<1>. QED  BY <1>1, <1>2, <1>3, <1>4, <1>5 DEF Customer

LEMMA TypeFlush ==
  ASSUME TypeOK, NEW v \in Variants, FlushVariant(v)
  PROVE  TypeOK'
<1>1. CASE pending[v] # 0 /\ inFlight[v] = 0
  <2>1. Send(NewCall("post", v, pending[v])) /\ pending[v] \in Int
    BY <1>1 DEF FlushVariant, TypeOK
  <2>2. calls' \in [Slots -> Call \cup {NoCall}]
    BY <2>1, NewCallType, SendType
  <2>. QED  BY <1>1, <2>1, <2>2 DEF FlushVariant, TypeOK, budget
<1>2. CASE ~(pending[v] # 0 /\ inFlight[v] = 0)
  BY <1>2 DEF FlushVariant, TypeOK, budget
<1>. QED  BY <1>1, <1>2

LEMMA TypeServer ==
  ASSUME TypeOK, NEW s \in Slots, ServerStep(s)
  PROVE  TypeOK'
<1>1. s \in Busy /\ calls[s] \in Call
  BY BusyCall DEF ServerStep, ReadLine, WriteLine, ReadCart, Busy, TypeOK
<1>2. row[calls[s].variant] \in Nat /\ calls[s].seen \in Nat /\ calls[s].delta \in Int
  BY <1>1 DEF Call, TypeOK, Rows
<1>3. CASE ReadLine(s)
  <2>1. calls' \in [Slots -> Call \cup {NoCall}]
    BY <1>1, <1>2, <1>3 DEF ReadLine, TypeOK, Call
  <2>. QED  BY <1>3, <2>1 DEF ReadLine, TypeOK, page, budget
<1>4. CASE WriteLine(s)
  <2>1. Target(calls[s]) \in Nat
    BY <1>2 DEF Target, Positive
  <2>2. row' \in Rows
    BY <1>1, <1>4, <2>1 DEF WriteLine, TypeOK, Rows, Call
  <2>3. calls' \in [Slots -> Call \cup {NoCall}]
    BY <1>1, <1>4 DEF WriteLine, Proceed, TypeOK, Call
  <2>. QED  BY <1>4, <2>2, <2>3 DEF WriteLine, TypeOK, page, budget
<1>5. CASE ReadCart(s)
  <2>1. calls' \in [Slots -> Call \cup {NoCall}]
    BY <1>1, <1>5 DEF ReadCart, TypeOK, Call
  <2>. QED  BY <1>5, <2>1 DEF ReadCart, TypeOK, page, budget
<1>. QED  BY <1>3, <1>4, <1>5 DEF ServerStep

LEMMA TypeAnswer ==
  ASSUME TypeOK, NEW s \in Slots, AnswerStep(s)
  PROVE  TypeOK'
<1>1. s \in Busy /\ calls[s] \in Call
  BY BusyCall DEF AnswerStep, PostSucceeds, PostFails, LosePost, DeleteArrives, GetArrives,
                  DropOrphan, Carries, Busy, TypeOK
<1>2. calls' \in [Slots -> Call \cup {NoCall}]
  BY DEF AnswerStep, PostSucceeds, PostFails, LosePost, DeleteArrives, GetArrives,
         DropOrphan, Done, TypeOK
<1>3. calls[s].answer \in Rows /\ calls[s].variant \in Variants /\ calls[s].delta \in Int
  BY <1>1 DEF Call
<1>4. ASSUME NEW rows \in Rows, ApplySnapshot(rows)
      PROVE  server' \in Rows /\ activeStore' \in Stores \cup {NoStore}
             /\ loaded' \in {"no", "stored", "fetched"}
  BY <1>4 DEF ApplySnapshot, TypeOK
<1>5. ASSUME NEW retry \in BOOLEAN, Restore(calls[s].variant, calls[s].delta, retry)
      PROVE  pending' \in [Variants -> Int] /\ inFlight' \in [Variants -> Int]
             /\ timer' \in [Variants -> BOOLEAN]
  BY <1>3, <1>5 DEF Restore, TypeOK
<1>6. CASE PostSucceeds(s)
  BY <1>2, <1>3, <1>4, <1>6 DEF PostSucceeds, TypeOK, budget
<1>7. CASE PostFails(s)
  BY <1>2, <1>5, <1>7 DEF PostFails, TypeOK, budget
<1>8. CASE LosePost(s)
  <2>1. PICK limited \in {FALSE, calls[s].at = "sent"} :
           Restore(calls[s].variant, calls[s].delta, limited)
    BY <1>8 DEF LosePost
  <2>2. limited \in BOOLEAN
    OBVIOUS
  <2>3. upsets' \in Nat
    BY <1>8 DEF LosePost, TypeOK
  <2>. QED  BY <1>2, <1>5, <1>8, <2>1, <2>2, <2>3 DEF LosePost, TypeOK
<1>9. CASE DeleteArrives(s)
  BY <1>2, <1>3, <1>4, <1>9 DEF DeleteArrives, TypeOK
<1>10. CASE GetArrives(s)
  BY <1>2, <1>3, <1>4, <1>10, EmptyRows DEF GetArrives, TypeOK
<1>11. CASE DropOrphan(s)
  BY <1>2, <1>11 DEF DropOrphan, TypeOK, page, budget
<1>. QED  BY <1>6, <1>7, <1>8, <1>9, <1>10, <1>11 DEF AnswerStep

LEMMA TypeNext == TypeOK /\ [Next]_vars => TypeOK'
<1>1. CASE UNCHANGED vars
  BY <1>1 DEF vars, page, budget, TypeOK
<1>2. CASE Persist
  BY <1>2 DEF Persist, TypeOK, budget
<1>. QED  BY <1>1, <1>2, TypeCustomer, TypeFlush, TypeServer, TypeAnswer DEF Next

\* Every reachable state has the columns' types: rows are never negative.
THEOREM TypeCorrect == Spec => []TypeOK
  BY TypeInit, TypeNext, PTL DEF Spec

-----------------------------------------------------------------------------
(* Whatever is pending will be posted *)

LEMMA ScheduledNext ==
  ASSUME TypeOK, PendingIsScheduled, [Next]_vars
  PROVE  PendingIsScheduled'
<1>. USE DEF PendingIsScheduled
<1>1. CASE UNCHANGED vars
  BY <1>1 DEF vars, page
<1>2. ASSUME NEW v \in Variants, AdjustCart(v) PROVE PendingIsScheduled'
  <2>1. PICK d \in Deltas(v), named \in BOOLEAN : IncrementCart(v, d, named)
    BY <1>2 DEF AdjustCart
  <2>. QED  BY <2>1 DEF IncrementCart, TypeOK
<1>3. ASSUME NEW v \in Variants, DeleteCartLine(v) PROVE PendingIsScheduled'
  BY <1>3 DEF DeleteCartLine, page
<1>4. CASE FetchCart
  BY <1>4 DEF FetchCart, page
<1>5. CASE ReloadPage
  BY <1>5 DEF ReloadPage, Empty
<1>6. CASE PlaceOrder
  BY <1>6 DEF PlaceOrder
<1>7. CASE Persist
  BY <1>7 DEF Persist
<1>8. ASSUME NEW v \in Variants, FlushVariant(v) PROVE PendingIsScheduled'
  BY <1>8 DEF FlushVariant, TypeOK
<1>9. ASSUME NEW s \in Slots, ServerStep(s) PROVE PendingIsScheduled'
  BY <1>9 DEF ServerStep, ReadLine, WriteLine, ReadCart, page
<1>10. ASSUME NEW s \in Slots, PostSucceeds(s) PROVE PendingIsScheduled'
  BY <1>10 DEF PostSucceeds, TypeOK
<1>11. ASSUME NEW v, NEW delta, NEW retry \in BOOLEAN, Restore(v, delta, retry)
       PROVE  PendingIsScheduled'
  BY <1>11 DEF Restore, TypeOK
<1>12. ASSUME NEW s \in Slots, PostFails(s) \/ LosePost(s) PROVE PendingIsScheduled'
  <2>1. CASE PostFails(s)
    BY <2>1, <1>11 DEF PostFails
  <2>2. CASE LosePost(s)
    BY <2>2, <1>11 DEF LosePost
  <2>. QED  BY <1>12, <2>1, <2>2
<1>13. ASSUME NEW s \in Slots, DeleteArrives(s) \/ GetArrives(s) \/ DropOrphan(s)
       PROVE  PendingIsScheduled'
  BY <1>13 DEF DeleteArrives, GetArrives, DropOrphan, page
<1>. QED  BY <1>1, <1>2, <1>3, <1>4, <1>5, <1>6, <1>7, <1>8, <1>9, <1>10, <1>12, <1>13
          DEF Next, Customer, AnswerStep

\* A tap is never forgotten: after any interleaving of taps, timers, failures and answers a
\* pending delta has a timer or a post whose answer will set one.
THEOREM TapsScheduled == Spec => []PendingIsScheduled
<1>1. Init => PendingIsScheduled
  BY DEF Init, PendingIsScheduled, Empty
<1>2. TypeOK /\ PendingIsScheduled /\ [Next]_vars => PendingIsScheduled'
  BY ScheduledNext
<1>. QED  BY <1>1, <1>2, TypeCorrect, PTL DEF Spec

-----------------------------------------------------------------------------
(* One post of a variant at a time *)

Posts(s, v) == Carries(s, "post") /\ calls[s].variant = v

\* What InFlightIsCarried says of one call depends only on these of its fields.
LEMMA FlightKept ==
  ASSUME InFlightIsCarried, UNCHANGED inFlight,
         \A s \in Slots : Carries(s, "post")' <=> Carries(s, "post"),
         \A s \in Slots : Carries(s, "post") =>
            /\ calls'[s].variant = calls[s].variant /\ calls'[s].delta = calls[s].delta
  PROVE  InFlightIsCarried'
  BY DEF InFlightIsCarried

LEMMA FlightFlush ==
  ASSUME TypeOK, InFlightIsCarried, NEW v \in Variants, FlushVariant(v)
  PROVE  InFlightIsCarried'
<1>1. CASE ~(inFlight[v] = 0 /\ pending[v] # 0)
  <2>1. UNCHANGED <<inFlight, calls>>
    BY <1>1 DEF FlushVariant
  <2>. QED  BY <2>1 DEF InFlightIsCarried, Carries, Busy
<1>2. CASE inFlight[v] = 0 /\ pending[v] # 0
  <2>1. /\ inFlight' = [inFlight EXCEPT ![v] = pending[v]]
        /\ Send(NewCall("post", v, pending[v]))
    BY <1>2 DEF FlushVariant
  <2>2. PICK f \in Slots \ Busy : calls' = [calls EXCEPT ![f] = NewCall("post", v, pending[v])]
    BY <2>1 DEF Send
  <2>3. calls[f] = NoCall /\ NewCall("post", v, pending[v]) # NoCall
    BY <2>2, NewCallType, NoCallAssumption DEF Busy, TypeOK
  <2>4. calls'[f] = NewCall("post", v, pending[v]) /\ (\A s \in Slots \ {f} : calls'[s] = calls[s])
    BY <2>2 DEF TypeOK
  <2>5. Carries(f, "post")' /\ calls'[f].variant = v /\ calls'[f].delta = pending[v]
    BY <2>2, <2>3, <2>4 DEF Carries, Busy, NewCall
  <2>6. \A s \in Slots \ {f} : Carries(s, "post")' <=> Carries(s, "post")
    BY <2>4 DEF Carries, Busy
  <2>7. ~Carries(f, "post")
    BY <2>3 DEF Carries, Busy
  <2>8. \A s \in Slots : ~Posts(s, v)
    BY <1>2 DEF InFlightIsCarried, Posts
  <2>9. inFlight'[v] = pending[v] /\ (\A w \in Variants \ {v} : inFlight'[w] = inFlight[w])
    BY <2>1 DEF TypeOK
  <2>10. \A w \in Variants : inFlight'[w] # 0 =>
            \E s \in Slots : Carries(s, "post")' /\ calls'[s].variant = w
    <3>1. ASSUME NEW w \in Variants \ {v}, inFlight'[w] # 0
          PROVE  \E s \in Slots : Carries(s, "post")' /\ calls'[s].variant = w
      <4>1. PICK s \in Slots : Carries(s, "post") /\ calls[s].variant = w
        BY <2>9, <3>1 DEF InFlightIsCarried
      <4>2. s # f
        BY <4>1, <2>7
      <4>. QED  BY <4>1, <4>2, <2>4, <2>6
    <3>. QED  BY <3>1, <2>5
  <2>11. ASSUME NEW s \in Slots, Carries(s, "post")'
         PROVE  /\ calls'[s].delta = inFlight'[calls'[s].variant] /\ calls'[s].delta # 0
                /\ \A r \in Slots : Carries(r, "post")' /\ calls'[r].variant = calls'[s].variant
                                   => r = s
    <3>1. CASE s = f
      BY <3>1, <1>2, <2>4, <2>5, <2>6, <2>8, <2>9 DEF Posts
    <3>2. CASE s # f
      <4>1. Carries(s, "post") /\ calls'[s] = calls[s]
        BY <3>2, <2>4, <2>6, <2>11
      <4>2. calls[s].variant \in Variants /\ calls[s].variant # v
        BY <4>1, <2>8, BusyCall DEF Posts, Carries, Call
      <4>3. \A r \in Slots : Carries(r, "post")' /\ calls'[r].variant = calls'[s].variant
                            => r # f
        BY <4>1, <4>2, <2>5
      <4>. QED  BY <4>1, <4>2, <4>3, <2>4, <2>6, <2>9 DEF InFlightIsCarried
    <3>. QED  BY <3>1, <3>2
  <2>. QED  BY <2>10, <2>11 DEF InFlightIsCarried
<1>. QED  BY <1>1, <1>2

\* The post at a slot is over and its delta no longer in flight.
LEMMA FlightLanded ==
  ASSUME TypeOK, InFlightIsCarried, NEW s \in Slots, Carries(s, "post"), Done(s),
         inFlight' = [inFlight EXCEPT ![calls[s].variant] = 0]
  PROVE  InFlightIsCarried'
<1> DEFINE v == calls[s].variant
<1>1. v \in Variants
  BY BusyCall DEF Carries, Call
<1>2. calls'[s] = NoCall /\ \A r \in Slots \ {s} : calls'[r] = calls[r]
  BY DEF Done, TypeOK
<1>3. ~Carries(s, "post")' /\ \A r \in Slots \ {s} : Carries(r, "post")' <=> Carries(r, "post")
  BY <1>2 DEF Carries, Busy
<1>4. inFlight'[v] = 0 /\ \A w \in Variants \ {v} : inFlight'[w] = inFlight[w]
  BY <1>1 DEF TypeOK
<1>5. \A r \in Slots \ {s} : Carries(r, "post") =>
         calls[r].variant # v /\ calls[r].variant \in Variants
  BY BusyCall DEF InFlightIsCarried, Carries, Call
<1>6. ASSUME NEW w \in Variants, inFlight'[w] # 0
      PROVE  \E r \in Slots : Carries(r, "post")' /\ calls'[r].variant = w
  <2>1. w # v /\ inFlight[w] # 0
    BY <1>4, <1>6
  <2>2. PICK r \in Slots : Carries(r, "post") /\ calls[r].variant = w
    BY <2>1 DEF InFlightIsCarried
  <2>. QED  BY <2>1, <2>2, <1>2, <1>3
<1>7. ASSUME NEW r \in Slots, Carries(r, "post")'
      PROVE  /\ calls'[r].delta = inFlight'[calls'[r].variant] /\ calls'[r].delta # 0
             /\ \A q \in Slots : Carries(q, "post")' /\ calls'[q].variant = calls'[r].variant
                                => q = r
  <2>1. r # s /\ Carries(r, "post") /\ calls'[r] = calls[r]
    BY <1>2, <1>3, <1>7
  <2>. QED  BY <2>1, <1>2, <1>3, <1>4, <1>5 DEF InFlightIsCarried
<1>. QED  BY <1>6, <1>7 DEF InFlightIsCarried

LEMMA FlightSend ==
  ASSUME TypeOK, InFlightIsCarried, NEW call \in Call, call.kind # "post", Send(call),
         UNCHANGED inFlight
  PROVE  InFlightIsCarried'
<1>1. PICK f \in Slots \ Busy : calls' = [calls EXCEPT ![f] = call]
  BY DEF Send
<1>2. calls[f] = NoCall /\ calls'[f] = call /\ \A s \in Slots \ {f} : calls'[s] = calls[s]
  BY <1>1 DEF TypeOK, Busy
<1>3. ~Carries(f, "post") /\ ~Carries(f, "post")'
  BY <1>2 DEF Carries, Busy
<1>. QED  BY <1>2, <1>3, FlightKept DEF Carries, Busy

LEMMA FlightServer ==
  ASSUME TypeOK, InFlightIsCarried, NEW s \in Slots, ServerStep(s)
  PROVE  InFlightIsCarried'
<1>1. s \in Busy /\ calls[s] \in Call /\ UNCHANGED inFlight
  BY BusyCall DEF ServerStep, ReadLine, WriteLine, ReadCart, Busy, TypeOK, page
<1>2. /\ \A r \in Slots \ {s} : calls'[r] = calls[r]
      /\ calls'[s].kind = calls[s].kind /\ calls'[s].variant = calls[s].variant
      /\ calls'[s].delta = calls[s].delta /\ calls'[s].live = calls[s].live
  BY <1>1 DEF ServerStep, ReadLine, WriteLine, ReadCart, Proceed, TypeOK, Call
<1>3. calls'[s] \in Call
  <2>1. TypeOK'
    BY TypeServer
  <2>2. row[calls[s].variant] \in Nat
    BY <1>1 DEF TypeOK, Rows, Call
  <2>. QED  BY <1>1, <2>2 DEF ServerStep, ReadLine, WriteLine, ReadCart, Proceed, TypeOK, Call
<1>4. \A r \in Slots : Carries(r, "post")' <=> Carries(r, "post")
  BY <1>1, <1>2, <1>3, NoCallAssumption DEF Carries, Busy
<1>. QED  BY <1>1, <1>2, <1>4, FlightKept

LEMMA FlightNext ==
  ASSUME TypeOK, InFlightIsCarried, [Next]_vars
  PROVE  InFlightIsCarried'
<1>1. CASE UNCHANGED vars
  BY <1>1 DEF vars, page, InFlightIsCarried, Carries, Busy
<1>2. ASSUME NEW v \in Variants, AdjustCart(v) PROVE InFlightIsCarried'
  BY <1>2 DEF AdjustCart, IncrementCart, InFlightIsCarried, Carries, Busy
<1>3. ASSUME NEW v \in Variants, DeleteCartLine(v) PROVE InFlightIsCarried'
  <2>1. NewCall("delete", v, 0) \in Call /\ NewCall("delete", v, 0).kind # "post"
    BY NewCallType DEF NewCall
  <2>. QED  BY <1>3, <2>1, FlightSend DEF DeleteCartLine, page
<1>4. CASE FetchCart
  <2>1. PICK v \in Variants : Send(NewCall("get", v, 0))
    BY <1>4 DEF FetchCart
  <2>2. NewCall("get", v, 0) \in Call /\ NewCall("get", v, 0).kind # "post"
    BY NewCallType DEF NewCall
  <2>. QED  BY <1>4, <2>1, <2>2, FlightSend DEF FetchCart, page
<1>5. CASE ReloadPage
  <2>1. \A s \in Slots : ~Carries(s, "post")'
    <3>1. ASSUME NEW s \in Slots PROVE ~Carries(s, "post")'
      <4>1. CASE s \in Busy
        <5>1. calls'[s].live = FALSE
          BY <1>5, <4>1, BusyCall DEF ReloadPage, Call
        <5>. QED  BY <5>1 DEF Carries
      <4>2. CASE s \notin Busy
        BY <1>5, <4>2 DEF ReloadPage, Carries, Busy
      <4>. QED  BY <4>1, <4>2
    <3>. QED  BY <3>1
  <2>2. \A v \in Variants : inFlight'[v] = 0
    BY <1>5 DEF ReloadPage, Empty
  <2>. QED  BY <2>1, <2>2 DEF InFlightIsCarried
<1>6. CASE PlaceOrder
  BY <1>6 DEF PlaceOrder, InFlightIsCarried, Carries, Busy
<1>7. CASE Persist
  BY <1>7 DEF Persist, InFlightIsCarried, Carries, Busy
<1>8. ASSUME NEW s \in Slots, PostSucceeds(s) PROVE InFlightIsCarried'
  BY <1>8, FlightLanded DEF PostSucceeds
<1>9. ASSUME NEW s \in Slots, PostFails(s) PROVE InFlightIsCarried'
  BY <1>9, FlightLanded DEF PostFails, Restore
<1>10. ASSUME NEW s \in Slots, LosePost(s) PROVE InFlightIsCarried'
  BY <1>10, FlightLanded DEF LosePost, Restore
<1>11. ASSUME NEW s \in Slots, DeleteArrives(s) \/ GetArrives(s) \/ DropOrphan(s)
       PROVE  InFlightIsCarried'
  <2>1. Done(s) /\ UNCHANGED inFlight /\ ~Carries(s, "post")
    BY <1>11 DEF DeleteArrives, GetArrives, DropOrphan, page, Carries
  <2>2. calls'[s] = NoCall /\ \A r \in Slots \ {s} : calls'[r] = calls[r]
    BY <2>1 DEF Done, TypeOK
  <2>3. ~Carries(s, "post")'
    BY <2>2 DEF Carries, Busy
  <2>. QED  BY <2>1, <2>2, <2>3, FlightKept DEF Carries, Busy
<1>. QED  BY <1>1, <1>2, <1>3, <1>4, <1>5, <1>6, <1>7, <1>8, <1>9, <1>10, <1>11,
             FlightFlush, FlightServer
          DEF Next, Customer, AnswerStep

\* The deltas of a variant reach the server one at a time: what is in flight is carried by
\* exactly one post of this page, and it stops being in flight when that post is over.
THEOREM OnePostAtATime == Spec => []InFlightIsCarried
<1>1. Init => InFlightIsCarried
  BY DEF Init, InFlightIsCarried, Empty, Carries, Busy
<1>2. TypeOK /\ InFlightIsCarried /\ [Next]_vars => InFlightIsCarried'
  BY FlightNext
<1>. QED  BY <1>1, <1>2, TypeCorrect, PTL DEF Spec

\* A tap on the cart is always either scheduled or carried by exactly one call.
THEOREM AllWishesCarried == Spec => []WishesCarried
  BY TypeCorrect, TapsScheduled, OnePostAtATime, PTL DEF WishesCarried

-----------------------------------------------------------------------------
(* A calm visit *)

Landed == {"written", "answered"}

\* What of the delta in flight has reached the row, and whether a deletion has.
Applied(v) ==
    IF \E s \in Busy : calls[s].kind = "post" /\ calls[s].variant = v /\ calls[s].at \in Landed
    THEN inFlight[v] ELSE 0
Removed(v) ==
    \E s \in Busy : calls[s].kind = "delete" /\ calls[s].variant = v /\ calls[s].at \in Landed

\* One call at a time, none refused, and what it has read is still so.
CalmCalls ==
    /\ \A r, s \in Busy : r = s
    /\ \A s \in Busy :
          /\ calls[s].live /\ calls[s].at # "failed"
          /\ calls[s].at = "read" => calls[s].seen = row[calls[s].variant]
          /\ calls[s].at = "answered" => calls[s].answer = row
          /\ calls[s].kind = "get" => calls[s].at \in {"sent", "answered"}
          /\ calls[s].kind = "delete" => pending[calls[s].variant] = 0
                                         /\ server[calls[s].variant] > 0

\* A row is what the page knew of it and what has reached it since; before the first answer it
\* may be more.  Neither the quantity shown nor the row that a delta leaves is below zero.
CalmRows ==
    \A v \in Variants :
       /\ Known(v) >= 0 /\ server[v] + inFlight[v] >= 0
       /\ Removed(v) => row[v] = 0
       /\ ~Removed(v) => /\ row[v] >= server[v] + Applied(v)
                         /\ loaded = "fetched" => row[v] = server[v] + Applied(v)

CalmInv == calm => CalmCalls /\ CalmRows
CartInv == TypeOK /\ InFlightIsCarried /\ CalmInv

\* What a step of a calm visit leaves of the customer's wishes (WantedKept).
WantedStep ==
    calm => \A v \in Variants :
       \/ Wanted(v)' = Wanted(v)
       \/ taps' # taps
       \/ \E s \in Busy : /\ calls[s].kind = "delete" /\ calls[s].variant = v
                           /\ calls'[s] # NoCall /\ calls'[s].at = "written"

\* With no call under way nothing is in flight, and with one only what it carries.
LEMMA NothingUnderWay ==
  InFlightIsCarried => (Busy = {} => \A v \in Variants :
     inFlight[v] = 0 /\ Applied(v) = 0 /\ Unapplied(v) = 0 /\ ~Removed(v))
  BY DEF InFlightIsCarried, Applied, Unapplied, Removed, Carries

LEMMA OneUnderWay ==
  InFlightIsCarried => (\A s \in Slots : Busy = {s} /\ calls[s].live => \A v \in Variants :
     /\ ~(calls[s].kind = "post" /\ calls[s].variant = v) =>
           inFlight[v] = 0 /\ Applied(v) = 0 /\ Unapplied(v) = 0
     /\ calls[s].kind = "post" /\ calls[s].variant = v =>
           /\ inFlight[v] = calls[s].delta /\ inFlight[v] # 0
           /\ Applied(v) = IF calls[s].at \in Landed THEN inFlight[v] ELSE 0
           /\ Unapplied(v) = IF calls[s].at \in {"sent", "read"} THEN inFlight[v] ELSE 0
     /\ Removed(v) <=> calls[s].kind = "delete" /\ calls[s].variant = v
                       /\ calls[s].at \in Landed)
<1> SUFFICES ASSUME InFlightIsCarried, NEW s \in Slots, Busy = {s}, calls[s].live,
                    NEW v \in Variants
             PROVE  /\ ~(calls[s].kind = "post" /\ calls[s].variant = v) =>
                          inFlight[v] = 0 /\ Applied(v) = 0 /\ Unapplied(v) = 0
                    /\ calls[s].kind = "post" /\ calls[s].variant = v =>
                          /\ inFlight[v] = calls[s].delta /\ inFlight[v] # 0
                          /\ Applied(v) = IF calls[s].at \in Landed THEN inFlight[v] ELSE 0
                          /\ Unapplied(v) = IF calls[s].at \in {"sent", "read"}
                                            THEN inFlight[v] ELSE 0
                    /\ Removed(v) <=> calls[s].kind = "delete" /\ calls[s].variant = v
                                      /\ calls[s].at \in Landed
  OBVIOUS
<1>1. \A r \in Slots : Carries(r, "post") <=> r = s /\ calls[s].kind = "post"
  BY DEF Carries
<1>2. ~(calls[s].kind = "post" /\ calls[s].variant = v) => inFlight[v] = 0
  BY <1>1 DEF InFlightIsCarried
<1>3. calls[s].kind = "post" /\ calls[s].variant = v =>
         inFlight[v] = calls[s].delta /\ inFlight[v] # 0
  BY <1>1 DEF InFlightIsCarried
<1> QED BY <1>2, <1>3 DEF Applied, Unapplied, Removed

\* How the slots change in a calm visit.
LEMMA CalmSend ==
  ASSUME TypeOK, Busy = {}, NEW call \in Call, Send(call)
  PROVE  \E f \in Slots : Busy' = {f} /\ calls'[f] = call
<1>1. PICK f \in Slots : calls' = [calls EXCEPT ![f] = call]
  BY DEF Send
<1>2. calls'[f] = call /\ \A r \in Slots \ {f} : calls'[r] = calls[r]
  BY <1>1 DEF TypeOK
<1> QED BY <1>2, NoCallAssumption DEF Busy

\* The call at work is the only one.
LEMMA CalmAlone ==
  ASSUME CalmCalls, NEW s \in Busy
  PROVE  Busy = {s} /\ s \in Slots
  BY DEF CalmCalls, Busy

\* It goes on in its slot.
LEMMA CalmMoves ==
  ASSUME TypeOK, NEW s \in Slots, Busy = {s}, NEW call \in Call,
         calls' = [calls EXCEPT ![s] = call]
  PROVE  Busy' = {s} /\ calls'[s] = call
<1>1. calls'[s] = call /\ \A r \in Slots \ {s} : calls'[r] = calls[r]
  BY DEF TypeOK
<1> QED BY <1>1, NoCallAssumption DEF Busy

\* When it is over none is left.
LEMMA CalmDone ==
  ASSUME TypeOK, NEW s \in Slots, Busy = {s}, Done(s)
  PROVE  Busy' = {}
<1>1. calls'[s] = NoCall /\ \A r \in Slots \ {s} : calls'[r] = calls[r]
  BY DEF TypeOK, Done
<1> QED BY <1>1 DEF Busy

\* A visit begins without calls and with nothing in flight.
LEMMA CalmInit == Init => CalmInv
<1> SUFFICES ASSUME Init PROVE CalmCalls /\ CalmRows
  BY DEF CalmInv
<1>1. Busy = {}
  BY DEF Init, Busy
<1>2. \A v \in Variants : Known(v) = 0 /\ server[v] = 0 /\ inFlight[v] = 0 /\ row[v] \in Nat
                          /\ loaded # "fetched" /\ Applied(v) = 0 /\ ~Removed(v)
  BY <1>1, CartAssumption DEF Init, Empty, Known, Applied, Removed
<1> QED BY <1>1, <1>2 DEF CalmCalls, CalmRows

\* A tap changes only what is pending, and not of a line that is being deleted.
LEMMA CalmAdjust ==
  ASSUME CartInv, calm, NEW v \in Variants, AdjustCart(v)
  PROVE  CalmInv' /\ WantedStep
<1> USE DEF CartInv
<1>1. PICK d \in Deltas(v), named \in BOOLEAN : IncrementCart(v, d, named)
  BY DEF AdjustCart
<1>2. /\ UNCHANGED <<server, inFlight, loaded, row, calls, calm>>
      /\ pending' = [pending EXCEPT ![v] = @ + SafeDelta(v, d)]
      /\ taps' = taps + 1 /\ ~BeingDeleted(v)
  BY <1>1 DEF AdjustCart, IncrementCart
<1>3. Busy' = Busy /\ CalmCalls /\ CalmRows
  BY <1>2 DEF Busy, CalmInv
<1>4. \A w \in Variants : /\ server[w] \in Int /\ inFlight[w] \in Int /\ pending[w] \in Int
                          /\ pending'[w] = IF w = v THEN pending[w] + SafeDelta(v, d)
                                           ELSE pending[w]
  BY <1>2 DEF TypeOK, Rows
<1>5. d \in Int /\ SafeDelta(v, d) \in Int
  BY DeltaType
<1>6. \A w \in Variants : Known(w)' >= 0
  <2> SUFFICES ASSUME NEW w \in Variants PROVE Known(w)' >= 0
    OBVIOUS
  <2>1. Known(w)' = IF w = v THEN Known(v) + SafeDelta(v, d) ELSE Known(w)
    BY <1>2, <1>4, <1>5 DEF Known
  <2>2. Known(v) \in Int /\ Known(v) >= 0 /\ Known(w) >= 0
    BY <1>3, <1>4 DEF CalmRows, Known
  <2>3. Known(v) + SafeDelta(v, d) >= 0
    BY <2>2, <1>5 DEF SafeDelta
  <2> QED BY <2>1, <2>2, <2>3
<1>7. CalmCalls'
  <2>1. \A s \in Busy : calls[s].kind = "delete" => calls[s].variant # v
                        /\ calls[s].variant \in Variants
    BY <1>2, BusyCall DEF BeingDeleted, Call
  <2> QED BY <1>2, <1>3, <1>4, <2>1 DEF CalmCalls
<1>8. CalmRows'
  <2>1. \A w \in Variants : Applied(w)' = Applied(w) /\ (Removed(w)' <=> Removed(w))
    BY <1>2, <1>3 DEF Applied, Removed
  <2> QED BY <1>2, <1>3, <1>6, <2>1 DEF CalmRows
<1>9. taps' # taps
  BY <1>2 DEF TypeOK
<1> QED BY <1>7, <1>8, <1>9 DEF CalmInv, WantedStep

\* A call is sent when none is under way.
LEMMA CalmSent ==
  ASSUME CartInv, calm, InFlightIsCarried', Busy = {},
         NEW kind \in {"post", "delete", "get"}, NEW v \in Variants, NEW d \in Int,
         Send(NewCall(kind, v, d)),
         UNCHANGED <<server, loaded, row, calm>>,
         kind = "delete" => pending[v] = 0 /\ server[v] > 0,
         \/ kind # "post" /\ UNCHANGED <<pending, inFlight>>
         \/ /\ kind = "post" /\ pending' = [pending EXCEPT ![v] = 0]
            /\ inFlight' = [inFlight EXCEPT ![v] = pending[v]]
  PROVE  CalmInv' /\ WantedStep
<1> USE DEF CartInv
<1>1. PICK f \in Slots : Busy' = {f} /\ calls'[f] = NewCall(kind, v, d)
  BY NewCallType, CalmSend
<1> DEFINE c == calls'[f]
<1>2. c.kind = kind /\ c.variant = v /\ c.delta = d /\ c.at = "sent" /\ c.live
  BY <1>1 DEF NewCall
<1>3. \A w \in Variants : inFlight[w] = 0 /\ Applied(w) = 0 /\ Unapplied(w) = 0 /\ ~Removed(w)
  BY NothingUnderWay
<1>4. \A w \in Variants : Applied(w)' = 0 /\ ~Removed(w)'
  BY <1>1, <1>2 DEF Applied, Removed, Landed
<1>5. \A w \in Variants : Unapplied(w)' = IF kind = "post" /\ w = v THEN inFlight'[w] ELSE 0
  BY <1>1, <1>2 DEF Unapplied
<1>6. \A w \in Variants : /\ server[w] \in Int /\ pending[w] \in Int /\ row[w] \in Int
                          /\ inFlight[w] \in Int
  BY DEF TypeOK, Rows
<1>7. \A w \in Variants : \/ pending'[w] = pending[w] /\ inFlight'[w] = inFlight[w]
                             /\ (kind = "post" => w # v)
                          \/ /\ kind = "post" /\ w = v
                             /\ pending'[w] = 0 /\ inFlight'[w] = pending[w]
  BY DEF TypeOK
<1>8. CalmCalls'
  BY <1>1, <1>2 DEF CalmCalls, TypeOK
<1>9. CalmRows'
  <2> SUFFICES ASSUME NEW w \in Variants
               PROVE  /\ Known(w)' >= 0 /\ (server[w] + inFlight[w] >= 0)'
                      /\ (row[w] >= server[w] + Applied(w))'
                      /\ (loaded = "fetched" => row[w] = server[w] + Applied(w))'
    BY <1>4 DEF CalmRows
  <2>1. /\ Known(w) >= 0 /\ row[w] >= server[w]
        /\ loaded = "fetched" => row[w] = server[w]
    BY <1>3, <1>6 DEF CalmRows, CalmInv
  <2>2. Known(w)' = Known(w) /\ server'[w] + inFlight'[w] >= 0
    BY <1>3, <1>6, <1>7, <2>1 DEF Known, CalmRows, CalmInv
  <2> QED BY <1>4, <1>6, <2>1, <2>2
<1>10. \A w \in Variants : Wanted(w)' = Wanted(w)
  BY <1>3, <1>5, <1>6, <1>7 DEF Wanted
<1> QED BY <1>8, <1>9, <1>10 DEF CalmInv, WantedStep

\* The three steps of the call under way on the server.
LEMMA CalmServer ==
  ASSUME CartInv, calm, TypeOK', InFlightIsCarried', NEW s \in Slots, ServerStep(s)
  PROVE  CalmInv' /\ WantedStep
<1> USE DEF CartInv
<1>1. CalmCalls /\ CalmRows /\ s \in Busy /\ UNCHANGED <<page, calm, budget>>
  BY DEF CalmInv, ServerStep, ReadLine, WriteLine, ReadCart
<1>2. Busy = {s} /\ calls[s] \in Call
  BY <1>1, CalmAlone, BusyCall
<1> DEFINE c == calls[s]
           x == calls[s].variant
<1>3. /\ x \in Variants /\ c.delta \in Int /\ c.seen \in Nat /\ c.live /\ c.at # "failed"
      /\ c.at = "read" => c.seen = row[x]
      /\ c.at = "answered" => c.answer = row
      /\ c.kind = "get" => c.at \in {"sent", "answered"}
      /\ c.kind = "delete" => pending[x] = 0 /\ server[x] > 0
  BY <1>1, <1>2 DEF CalmCalls, Call
<1>4. \A w \in Variants : /\ server[w] \in Nat /\ pending[w] \in Int /\ row[w] \in Nat
                          /\ inFlight[w] \in Int
  BY DEF TypeOK, Rows
<1>5. \A w \in Variants :
         /\ server'[w] = server[w] /\ pending'[w] = pending[w] /\ inFlight'[w] = inFlight[w]
         /\ Known(w)' = Known(w) /\ loaded' = loaded
  BY <1>1 DEF page, Known
<1>6. \A w \in Variants :
         /\ Known(w) >= 0 /\ server[w] + inFlight[w] >= 0
         /\ Removed(w) => row[w] = 0
         /\ ~Removed(w) => /\ row[w] >= server[w] + Applied(w)
                           /\ loaded = "fetched" => row[w] = server[w] + Applied(w)
  BY <1>1 DEF CalmRows
<1>7. \A w \in Variants :
         /\ ~(c.kind = "post" /\ x = w) => inFlight[w] = 0 /\ Applied(w) = 0 /\ Unapplied(w) = 0
         /\ c.kind = "post" /\ x = w =>
               /\ inFlight[w] = c.delta /\ inFlight[w] # 0
               /\ Applied(w) = IF c.at \in Landed THEN inFlight[w] ELSE 0
               /\ Unapplied(w) = IF c.at \in {"sent", "read"} THEN inFlight[w] ELSE 0
         /\ Removed(w) <=> c.kind = "delete" /\ x = w /\ c.at \in Landed
  BY <1>2, <1>3, OneUnderWay
\* The call goes on as n; the row of its line may have been written.
<1>8. ASSUME NEW n \in Call, calls' = [calls EXCEPT ![s] = n],
             n.kind = c.kind, n.variant = x, n.delta = c.delta, n.live,
             \/ c.kind = "get" /\ n.at = "answered" /\ row' = row
             \/ c.kind # "get" /\ n.at = "read" /\ c.at = "sent" /\ row' = row
             \/ c.kind # "get" /\ n.at = "answered" /\ c.at = "written" /\ row' = row
             \/ /\ c.kind # "get" /\ n.at = "written" /\ c.at = "read"
                /\ \A w \in Variants : w # x => row'[w] = row[w]
                /\ c.kind = "post" => row'[x] = row[x] + inFlight[x]
                /\ c.kind = "delete" => row'[x] = 0,
             n.at = "read" => n.seen = row'[x],
             n.at = "answered" => n.answer = row'
      PROVE  CalmInv' /\ WantedStep
  <2>1. Busy' = {s} /\ calls'[s] = n
    BY <1>2, <1>8, CalmMoves
  <2>2. \A w \in Variants :
         /\ ~(c.kind = "post" /\ x = w) => Applied(w)' = 0 /\ Unapplied(w)' = 0
         /\ c.kind = "post" /\ x = w =>
               /\ Applied(w)' = IF n.at \in Landed THEN inFlight[w] ELSE 0
               /\ Unapplied(w)' = IF n.at \in {"sent", "read"} THEN inFlight[w] ELSE 0
         /\ Removed(w)' <=> c.kind = "delete" /\ x = w /\ n.at \in Landed
    <3> SUFFICES ASSUME NEW w \in Variants
                 PROVE  /\ ~(c.kind = "post" /\ x = w) => Applied(w)' = 0 /\ Unapplied(w)' = 0
                        /\ c.kind = "post" /\ x = w =>
                             /\ Applied(w)' = IF n.at \in Landed THEN inFlight[w] ELSE 0
                             /\ Unapplied(w)' = IF n.at \in {"sent", "read"}
                                                THEN inFlight[w] ELSE 0
                        /\ Removed(w)' <=> c.kind = "delete" /\ x = w /\ n.at \in Landed
      OBVIOUS
    <3>1. Applied(w)' = IF c.kind = "post" /\ x = w /\ n.at \in Landed THEN inFlight[w] ELSE 0
      BY <1>5, <1>8, <2>1 DEF Applied, Landed
    <3>2. Unapplied(w)' = IF c.kind = "post" /\ x = w /\ n.at \in {"sent", "read"}
                          THEN inFlight[w] ELSE 0
      BY <1>5, <1>8, <2>1 DEF Unapplied
    <3>3. Removed(w)' <=> c.kind = "delete" /\ x = w /\ n.at \in Landed
      BY <1>8, <2>1 DEF Removed, Landed
    <3> QED BY <3>1, <3>2, <3>3
  <2>3. n.at # "failed" /\ (n.kind = "get" => n.at \in {"sent", "answered"})
    BY <1>3, <1>8 DEF Landed
  <2>4. CalmCalls'
    BY <1>3, <1>5, <1>8, <2>1, <2>3 DEF CalmCalls
  <2>5. CalmRows'
    <3> SUFFICES ASSUME NEW w \in Variants
                 PROVE  /\ Known(w)' >= 0 /\ (server[w] + inFlight[w] >= 0)'
                        /\ Removed(w)' => row'[w] = 0
                        /\ ~Removed(w)' => /\ row'[w] >= server'[w] + Applied(w)'
                                           /\ loaded' = "fetched" =>
                                                 row'[w] = server'[w] + Applied(w)'
      BY DEF CalmRows
    <3>1. CASE ~(c.kind \in {"post", "delete"} /\ x = w)
      <4>1. row'[w] = row[w] /\ ~Removed(w) /\ ~Removed(w)'
            /\ Applied(w) = 0 /\ Applied(w)' = 0
        <5>1. c.kind \in {"post", "delete", "get"}
          BY <1>2 DEF Call
        <5>2. row'[w] = row[w]
          BY <1>8, <3>1, <5>1
        <5> QED BY <1>7, <2>2, <3>1, <5>2
      <4> QED BY <4>1, <1>5, <1>6
    <3>2. CASE c.kind = "post" /\ x = w
      <4>1. ~Removed(w) /\ ~Removed(w)'
        BY <1>7, <2>2, <3>2
      <4>2. row'[w] - Applied(w)' = row[w] - Applied(w)
        <5>1. Applied(w)' = IF n.at \in Landed THEN inFlight[w] ELSE 0
          BY <2>2, <3>2
        <5>2. Applied(w) = IF c.at \in Landed THEN inFlight[w] ELSE 0
          BY <1>7, <3>2
        <5>3. \/ n.at = "read" /\ c.at = "sent" /\ row'[w] = row[w]
              \/ n.at = "answered" /\ c.at = "written" /\ row'[w] = row[w]
              \/ n.at = "written" /\ c.at = "read" /\ row'[w] = row[w] + inFlight[w]
          BY <1>8, <3>2
        <5> HIDE DEF c, x
        <5> QED BY <5>1, <5>2, <5>3, <1>4 DEF Landed
      <4>3. Applied(w) \in Int /\ Applied(w)' \in Int /\ row'[w] \in Int
        BY <1>4, <1>7, <2>2, <3>2 DEF TypeOK, Rows
      <4> HIDE DEF c, x
      <4> QED BY <4>1, <4>2, <4>3, <1>4, <1>5, <1>6
    <3>3. CASE c.kind = "delete" /\ x = w
      <4>1. Applied(w) = 0 /\ Applied(w)' = 0
        BY <1>7, <2>2, <3>3
      <4>2. \/ n.at = "read" /\ c.at = "sent" /\ row'[w] = row[w] /\ ~Removed(w)
            \/ n.at = "answered" /\ c.at = "written" /\ row'[w] = row[w] /\ Removed(w)
            \/ n.at = "written" /\ c.at = "read" /\ row'[w] = 0
        BY <1>7, <1>8, <3>3 DEF Landed
      <4>3. Removed(w)' <=> n.at \in Landed
        BY <2>2, <3>3
      <4> HIDE DEF c, x
      <4> QED BY <4>1, <4>2, <4>3, <1>5, <1>6 DEF Landed
    <3> QED BY <3>1, <3>2, <3>3
  <2>6. WantedStep
    <3> SUFFICES ASSUME NEW w \in Variants
                 PROVE  \/ Wanted(w)' = Wanted(w)
                        \/ \E r \in Busy : /\ calls[r].kind = "delete" /\ calls[r].variant = w
                                           /\ calls'[r] # NoCall /\ calls'[r].at = "written"
      BY DEF WantedStep
    <3>1. CASE c.kind = "delete" /\ x = w /\ n.at = "written"
      BY <1>2, <2>1, <3>1, NoCallAssumption, <1>8
    <3>2. CASE ~(c.kind = "delete" /\ x = w /\ n.at = "written")
      <4>1. row'[w] + Unapplied(w)' = row[w] + Unapplied(w)
        <5>1. CASE c.kind = "post" /\ x = w
          <6>1. /\ Unapplied(w)' = IF n.at \in {"sent", "read"} THEN inFlight[w] ELSE 0
                /\ Unapplied(w) = IF c.at \in {"sent", "read"} THEN inFlight[w] ELSE 0
            BY <1>7, <2>2, <5>1
          <6>2. \/ n.at = "read" /\ c.at = "sent" /\ row'[w] = row[w]
                \/ n.at = "answered" /\ c.at = "written" /\ row'[w] = row[w]
                \/ n.at = "written" /\ c.at = "read" /\ row'[w] = row[w] + inFlight[w]
            BY <1>8, <5>1
          <6> HIDE DEF c, x
          <6> QED BY <6>1, <6>2, <1>4
        <5>2. CASE ~(c.kind = "post" /\ x = w)
          <6>1. Unapplied(w) = 0 /\ Unapplied(w)' = 0
            BY <1>7, <2>2, <5>2
          <6>2. row'[w] = row[w]
            <7>1. c.kind = "delete" /\ x = w => n.at # "written"
              BY <3>2
            <7> QED BY <7>1, <1>6, <1>7, <1>8, <5>2, <1>2 DEF Call
          <6> QED BY <6>1, <6>2
        <5> QED BY <5>1, <5>2
      <4>2. Wanted(w)' = row'[w] + Unapplied(w)' + pending'[w]
        BY DEF Wanted
      <4> QED BY <4>1, <4>2, <1>5 DEF Wanted
    <3> QED BY <3>1, <3>2
  <2> QED BY <2>4, <2>5, <2>6 DEF CalmInv
<1>9. CASE ReadLine(s)
  <2> DEFINE n == [c EXCEPT !.at = "read", !.seen = row[x]]
  <2>1. c.kind # "get" /\ c.at = "sent" /\ row' = row
    BY <1>9 DEF ReadLine
  <2>2. ~(row[x] = 0 /\ ~(c.kind = "post" /\ c.delta > 0))
    <3> HIDE DEF c, x
    <3>1. c.kind \in {"post", "delete"}
      BY <1>2, <2>1 DEF Call, c
    <3>2. row[x] >= server[x] /\ server[x] + inFlight[x] >= 0
      BY <1>3, <1>4, <1>6, <1>7, <2>1 DEF Landed
    <3> QED BY <3>1, <3>2, <1>3, <1>4, <1>7
  <2>3. calls' = [calls EXCEPT ![s] = n]
    BY <1>2, <1>9, <2>2 DEF ReadLine, TypeOK, Call
  <2>4. n \in Call /\ n.kind = c.kind /\ n.variant = x /\ n.delta = c.delta /\ n.live
        /\ n.at = "read" /\ n.seen = row[x]
    BY <1>2, <1>3, <1>4 DEF Call
  <2> QED BY <1>8, <2>1, <2>3, <2>4
<1>10. CASE WriteLine(s)
  <2> DEFINE n == [c EXCEPT !.at = "written"]
  <2>1. c.at = "read" /\ c.seen = row[x] /\ c.kind \in {"post", "delete"}
    BY <1>2, <1>3, <1>10 DEF WriteLine, Call
  <2>2. row' = [row EXCEPT ![x] = Target(c)] /\ Proceed(s, "written")
    BY <1>10, <2>1 DEF WriteLine
  <2>3. calls' = [calls EXCEPT ![s] = n]
    BY <1>2, <2>2 DEF Proceed, TypeOK, Call
  <2>4. n \in Call /\ n.kind = c.kind /\ n.variant = x /\ n.delta = c.delta /\ n.live
        /\ n.at = "written"
    BY <1>2, <1>3 DEF Call
  <2>5. \A w \in Variants : row'[w] = IF w = x THEN Target(c) ELSE row[w]
    BY <2>2 DEF TypeOK, Rows
  <2>6. c.kind = "delete" => Target(c) = 0
    BY DEF Target
  <2>7. c.kind = "post" => Target(c) = row[x] + inFlight[x]
    <3>1. c.kind = "post" => Target(c) = Positive(row[x] + inFlight[x])
      BY <1>3, <1>7, <2>1 DEF Target
    <3>2. row[x] + inFlight[x] >= 0
      <4> HIDE DEF c, x
      <4> QED BY <1>3, <1>4, <1>6, <1>7, <2>1 DEF Landed
    <3> QED BY <3>1, <3>2, <1>3, <1>4 DEF Positive
  <2> QED BY <1>3, <1>8, <2>1, <2>3, <2>4, <2>5, <2>6, <2>7
<1>11. CASE ReadCart(s)
  <2> DEFINE n == [c EXCEPT !.at = "answered", !.answer = row]
  <2>1. c.at = (IF c.kind = "get" THEN "sent" ELSE "written") /\ row' = row
    BY <1>11 DEF ReadCart
  <2>2. calls' = [calls EXCEPT ![s] = n]
    BY <1>2, <1>11 DEF ReadCart, TypeOK, Call
  <2>3. n \in Call /\ n.kind = c.kind /\ n.variant = x /\ n.delta = c.delta /\ n.live
        /\ n.at = "answered" /\ n.answer = row
    BY <1>2, <1>3 DEF Call, TypeOK
  <2> QED BY <1>8, <2>1, <2>2, <2>3 DEF Landed
<1> QED BY <1>9, <1>10, <1>11 DEF ServerStep

\* An answer is taken in, and a post that did not get through is pending again.
LEMMA CalmAnswer ==
  ASSUME CartInv, calm, InFlightIsCarried', NEW s \in Slots, AnswerStep(s)
  PROVE  CalmInv' /\ WantedStep
<1> USE DEF CartInv
<1>1. /\ CalmCalls /\ CalmRows /\ s \in Busy /\ Done(s) /\ row' = row /\ calm' = calm
  BY DEF CalmInv, AnswerStep, PostSucceeds, PostFails, LosePost, DeleteArrives, GetArrives,
         DropOrphan, Carries
<1>2. Busy = {s} /\ calls[s] \in Call
  BY <1>1, CalmAlone, BusyCall
<1>3. Busy' = {}
  BY <1>1, <1>2, CalmDone
<1> DEFINE c == calls[s]
           x == calls[s].variant
<1>4. /\ x \in Variants /\ c.delta \in Int /\ c.live /\ c.at # "failed"
      /\ c.at = "answered" => c.answer = row
      /\ c.kind = "delete" => pending[x] = 0
  BY <1>1, <1>2 DEF CalmCalls, Call
<1>5. \A w \in Variants : /\ server[w] \in Nat /\ pending[w] \in Int /\ row[w] \in Nat
                          /\ inFlight[w] \in Int
  BY DEF TypeOK, Rows
<1>6. \A w \in Variants :
         /\ Known(w) >= 0 /\ server[w] + inFlight[w] >= 0
         /\ Removed(w) => row[w] = 0
         /\ ~Removed(w) => /\ row[w] >= server[w] + Applied(w)
                           /\ loaded = "fetched" => row[w] = server[w] + Applied(w)
  BY <1>1 DEF CalmRows
<1>7. \A w \in Variants :
         /\ ~(c.kind = "post" /\ x = w) => inFlight[w] = 0 /\ Applied(w) = 0 /\ Unapplied(w) = 0
         /\ c.kind = "post" /\ x = w =>
               /\ inFlight[w] = c.delta /\ inFlight[w] # 0
               /\ Applied(w) = IF c.at \in Landed THEN inFlight[w] ELSE 0
               /\ Unapplied(w) = IF c.at \in {"sent", "read"} THEN inFlight[w] ELSE 0
         /\ Removed(w) <=> c.kind = "delete" /\ x = w /\ c.at \in Landed
  BY <1>2, <1>4, OneUnderWay
<1>8. \A w \in Variants : inFlight'[w] = 0 /\ Applied(w)' = 0 /\ Unapplied(w)' = 0 /\ ~Removed(w)'
  <2>1. InFlightIsCarried' => (Busy = {} => \A v \in Variants :
           inFlight[v] = 0 /\ Applied(v) = 0 /\ Unapplied(v) = 0 /\ ~Removed(v))'
    BY NothingUnderWay, PTL
  <2> QED BY <2>1, <1>3
<1>9. CalmCalls'
  BY <1>3 DEF CalmCalls
\* What is left to show of the rows and the wishes.
<1>10. ASSUME \A w \in Variants : /\ server'[w] + pending'[w] >= 0 /\ server'[w] >= 0
                                  /\ row[w] >= server'[w]
                                  /\ loaded' = "fetched" => row[w] = server'[w]
                                  /\ pending'[w] = pending[w] + Unapplied(w)
              PROVE CalmInv' /\ WantedStep
  <2>1. CalmRows'
    <3> SUFFICES ASSUME NEW w \in Variants
                 PROVE  /\ Known(w)' >= 0 /\ (server[w] + inFlight[w] >= 0)'
                        /\ (row[w] >= server[w] + Applied(w))'
                        /\ (loaded = "fetched" => row[w] = server[w] + Applied(w))'
      BY <1>8 DEF CalmRows
    <3>1. server'[w] \in Int /\ pending'[w] \in Int
      BY <1>10, TypeAnswer DEF TypeOK, Rows
    <3>2. Known(w)' = server'[w] + pending'[w]
      BY <1>8, <3>1 DEF Known
    <3> QED BY <1>1, <1>8, <1>10, <3>1, <3>2
  <2>2. \A w \in Variants : Unapplied(w) \in Int
    BY <1>5, <1>7
  <2>3. \A w \in Variants : Wanted(w)' = Wanted(w)
    BY <1>1, <1>5, <1>8, <1>10, <2>2 DEF Wanted
  <2> QED BY <1>9, <2>1, <2>3 DEF CalmInv, WantedStep
\* The page takes over the rows.
<1>11. ASSUME c.at = "answered", ApplySnapshot(c.answer), pending' = pending
       PROVE CalmInv' /\ WantedStep
  <2>1. server' = row
    BY <1>4, <1>11 DEF ApplySnapshot
  <2>2. \A w \in Variants : Unapplied(w) = 0
    BY <1>7, <1>11
  <2>3. \A w \in Variants : row[w] + pending[w] >= 0
    <3> SUFFICES ASSUME NEW w \in Variants PROVE row[w] + pending[w] >= 0
      OBVIOUS
    <3>1. CASE Removed(w)
      BY <1>4, <1>5, <1>7, <3>1
    <3>2. CASE ~Removed(w)
      <4>1. Applied(w) = inFlight[w]
        BY <1>7, <1>11 DEF Landed
      <4>2. row[w] >= server[w] + inFlight[w] /\ server[w] + inFlight[w] + pending[w] >= 0
        BY <1>6, <3>2, <4>1 DEF Known
      <4> QED BY <4>2, <1>5
    <3> QED BY <3>1, <3>2
  <2> QED BY <1>5, <1>10, <1>11, <2>1, <2>2, <2>3
\* The page keeps what it knew.
<1>12. ASSUME c.at = "sent", UNCHANGED <<server, loaded>>,
              \/ c.kind # "post" /\ pending' = pending
              \/ /\ c.kind = "post"
                 /\ \A w \in Variants : pending'[w] = IF w = x THEN pending[w] + c.delta
                                                      ELSE pending[w]
       PROVE CalmInv' /\ WantedStep
  <2>1. \A w \in Variants : Applied(w) = 0 /\ ~Removed(w)
    BY <1>7, <1>12 DEF Landed
  <2>2. \A w \in Variants : Unapplied(w) = inFlight[w]
    BY <1>7, <1>12
  <2>3. \A w \in Variants : pending'[w] = pending[w] + inFlight[w]
    BY <1>5, <1>7, <1>12
  <2>4. \A w \in Variants : /\ row[w] >= server[w]
                            /\ loaded = "fetched" => row[w] = server[w]
    BY <1>5, <1>6, <2>1
  <2>5. \A w \in Variants : server[w] + (pending[w] + inFlight[w]) >= 0
    BY <1>5, <1>6 DEF Known
  <2> QED BY <1>5, <1>10, <1>12, <2>2, <2>3, <2>4, <2>5
<1>13. CASE PostSucceeds(s)
  BY <1>11, <1>13 DEF PostSucceeds
<1>14. CASE PostFails(s)
  BY <1>4, <1>14 DEF PostFails
<1>15. CASE LosePost(s)
  <2>1. c.at = "sent" /\ c.kind = "post" /\ UNCHANGED <<server, loaded>>
        /\ pending' = [pending EXCEPT ![x] = @ + c.delta]
    BY <1>15 DEF LosePost, Restore, Carries
  <2>2. \A w \in Variants : pending'[w] = IF w = x THEN pending[w] + c.delta ELSE pending[w]
    BY <2>1 DEF TypeOK
  <2> QED BY <1>12, <2>1, <2>2
<1>16. CASE DeleteArrives(s)
  <2>1. c.kind = "delete" /\ pending' = pending
    BY <1>16 DEF DeleteArrives, Carries
  <2>2. \/ c.at = "answered" /\ ApplySnapshot(c.answer)
        \/ c.at = "sent" /\ UNCHANGED <<server, loaded>>
    BY <1>4, <1>16 DEF DeleteArrives
  <2> QED BY <1>11, <1>12, <2>1, <2>2
<1>17. CASE GetArrives(s)
  BY <1>11, <1>17 DEF GetArrives
<1>18. CASE DropOrphan(s)
  BY <1>4, <1>18 DEF DropOrphan
<1> QED BY <1>13, <1>14, <1>15, <1>16, <1>17, <1>18 DEF AnswerStep

\* Every step keeps the invariant and the wishes.
LEMMA CalmNext ==
  ASSUME CartInv, [Next]_vars
  PROVE  CartInv' /\ [WantedStep]_vars
<1> USE DEF CartInv
<1>1. TypeOK' /\ InFlightIsCarried'
  BY TypeNext, FlightNext
<1>2. calm' = calm
  BY DEF Next, Customer, AdjustCart, DeleteCartLine, FetchCart, ReloadPage, PlaceOrder, Persist,
         FlushVariant, ServerStep, ReadLine, WriteLine, ReadCart, AnswerStep, PostSucceeds,
         PostFails, LosePost, DeleteArrives, GetArrives, DropOrphan, vars
<1>3. CASE ~calm
  BY <1>1, <1>2, <1>3 DEF CalmInv, WantedStep
<1> SUFFICES ASSUME calm PROVE CalmInv' /\ [WantedStep]_vars
  BY <1>1, <1>3
<1>4. ASSUME UNCHANGED <<server, inFlight, pending, loaded, row, calls, calm>>
      PROVE  CalmInv' /\ WantedStep
  <2>1. Busy' = Busy
    BY <1>4 DEF Busy
  <2>2. \A v \in Variants : /\ Applied(v)' = Applied(v) /\ (Removed(v)' <=> Removed(v))
                            /\ Known(v)' = Known(v) /\ Unapplied(v)' = Unapplied(v)
    BY <1>4, <2>1 DEF Applied, Removed, Known, Unapplied
  <2>3. CalmCalls' /\ CalmRows'
    BY <1>4, <2>1, <2>2 DEF CalmInv, CalmCalls, CalmRows
  <2> QED BY <1>4, <2>2, <2>3 DEF CalmInv, WantedStep, Wanted
<1>5. CASE UNCHANGED vars
  BY <1>4, <1>5 DEF vars, page
<1>6. CASE Persist
  BY <1>4, <1>6 DEF Persist
<1>7. ASSUME NEW v \in Variants, DeleteCartLine(v) PROVE CalmInv' /\ WantedStep
  BY <1>1, <1>7, CalmSent DEF DeleteCartLine, page
<1>8. CASE FetchCart
  BY <1>1, <1>8, CalmSent DEF FetchCart, page
<1>9. ASSUME NEW v \in Variants, FlushVariant(v) PROVE CalmInv' /\ WantedStep
  <2>1. CASE inFlight[v] = 0 /\ pending[v] # 0
    <3>1. /\ Busy = {} /\ Send(NewCall("post", v, pending[v])) /\ pending[v] \in Int
          /\ pending' = [pending EXCEPT ![v] = 0]
          /\ inFlight' = [inFlight EXCEPT ![v] = pending[v]]
          /\ UNCHANGED <<server, loaded, row, calm>>
      BY <1>9, <2>1 DEF FlushVariant, TypeOK
    <3> QED BY <1>1, <3>1, CalmSent
  <2>2. CASE ~(inFlight[v] = 0 /\ pending[v] # 0)
    BY <1>4, <1>9, <2>2 DEF FlushVariant
  <2> QED BY <2>1, <2>2
<1>10. CASE ReloadPage \/ PlaceOrder
  BY <1>10 DEF ReloadPage, PlaceOrder
<1> QED BY <1>1, <1>5, <1>6, <1>7, <1>8, <1>9, <1>10, CalmAdjust, CalmServer, CalmAnswer
        DEF Next, Customer

\* While no line is being deleted, the page that was loaded shows what is wanted.
LEMMA CalmShows == CartInv => ShownIsWanted
<1> SUFFICES ASSUME CartInv, calm, loaded = "fetched", \A s \in Busy : calls[s].kind # "delete",
                    NEW v \in Variants
             PROVE  Quantity(v) = Wanted(v)
  BY DEF ShownIsWanted
<1> USE DEF CartInv
<1>1. server[v] \in Int /\ pending[v] \in Int /\ inFlight[v] \in Int /\ row[v] \in Int
  BY DEF TypeOK, Rows
<1>2. ~Removed(v) /\ CalmCalls
  BY DEF Removed, CalmInv
<1>3. Known(v) >= 0 /\ row[v] = server[v] + Applied(v)
  BY <1>2 DEF CalmInv, CalmRows
<1>4. Applied(v) + Unapplied(v) = inFlight[v] /\ Applied(v) \in Int /\ Unapplied(v) \in Int
  <2>1. CASE Busy = {}
    BY <2>1, <1>1, NothingUnderWay
  <2>2. ASSUME NEW s \in Busy
        PROVE  /\ Applied(v) + Unapplied(v) = inFlight[v]
               /\ Applied(v) \in Int /\ Unapplied(v) \in Int
    <3>1. Busy = {s} /\ s \in Slots /\ calls[s].live /\ calls[s].at # "failed"
          /\ calls[s] \in Call
      BY <1>2, CalmAlone, BusyCall DEF CalmCalls
    <3>2. calls[s].at \in {"sent", "read", "written", "answered"}
      BY <3>1 DEF Call
    <3>3. CASE calls[s].kind = "post" /\ calls[s].variant = v
      <4>1. /\ Applied(v) = IF calls[s].at \in Landed THEN inFlight[v] ELSE 0
            /\ Unapplied(v) = IF calls[s].at \in {"sent", "read"} THEN inFlight[v] ELSE 0
        BY <3>1, <3>3, OneUnderWay
      <4> QED BY <4>1, <3>2, <1>1 DEF Landed
    <3>4. CASE ~(calls[s].kind = "post" /\ calls[s].variant = v)
      BY <3>1, <3>4, <1>1, OneUnderWay
    <3> QED BY <3>3, <3>4
  <2> QED BY <2>1, <2>2
<1>5. Known(v) = Wanted(v)
  BY <1>1, <1>3, <1>4 DEF Known, Wanted
<1> QED BY <1>1, <1>3, <1>5 DEF Quantity, Positive, Known

\* In a calm visit the page shows what the customer asked for, and no flush, lost request,
\* retry or answer changes it: what reaches the cart on the server are the taps
\* (cart-store.ts, cart.service.ts).
THEOREM CalmWishesKept == Spec => WishesKept
<1>1. Init => CartInv
  <2>1. Init => InFlightIsCarried
    BY DEF Init, InFlightIsCarried, Empty, Carries, Busy
  <2> QED BY <2>1, TypeInit, CalmInit DEF CartInv
<1>2. CartInv /\ [Next]_vars => CartInv' /\ [WantedStep]_vars
  BY CalmNext
<1>3. CartInv => ShownIsWanted
  BY CalmShows
<1>4. [WantedStep]_vars <=>
        [calm => \A v \in Variants :
         \/ Wanted(v)' = Wanted(v)
         \/ taps' # taps
         \/ \E s \in Busy : /\ calls[s].kind = "delete" /\ calls[s].variant = v
                             /\ calls'[s] # NoCall /\ calls'[s].at = "written"]_vars
  BY DEF WantedStep
<1> QED BY <1>1, <1>2, <1>3, <1>4, PTL DEF Spec, WishesKept, WantedKept

-----------------------------------------------------------------------------
(* Following an order without an account. *)

PollOf == [step : {"idle", "sent", "answered"}, tab : Tabs \cup {"none"},
           of : Orders \cup {NotTracked}, answer : {"none", "active", "ended"}]

ServerTyped ==
    /\ trackManner \in TrackManners /\ lost \in 0 .. MaxLost
    /\ order \in [Orders -> {"none", "active", "ended"}]
    /\ cachedTrack \in [Orders -> {"none", "active", "ended"}]

\* What the browser follows was placed.
StoreSound ==
    /\ followed \in Seq(Orders) /\ IsInjective(followed)
    /\ history \in Seq(Orders) /\ IsInjective(history) /\ Len(history) <= HistoryMax
    /\ selected \in Orders \cup {NotTracked}
    /\ SelectionStands /\ NoneForgotten
    /\ \A o \in ToSet(followed) : order[o] # "none"

\* So was what a page shows or polls.
ScreensSound ==
    /\ view \in [Tabs -> Orders \cup {NotTracked}]
    /\ polled \in [Tabs -> Orders \cup {NotTracked}]
    /\ mounted \subseteq Tabs
    /\ \A t \in Tabs, o \in Orders : o \in {view[t], polled[t]} => order[o] # "none"

CallsTyped ==
    /\ asked \in [Polls -> PollOf] /\ crossed \subseteq Orders
    /\ \A s \in Polls :
          \/ asked[s] = NoPoll
          \/ /\ asked[s].tab \in Tabs /\ asked[s].of \in Orders
             /\ order[asked[s].of] # "none"
             /\ \/ asked[s].step = "sent" /\ asked[s].answer = "none"
                \/ asked[s].step = "answered" /\ asked[s].answer # "none"

\* Once the server has said that an order has ended, it never says otherwise: the order has
\* ended, and the cache does not hold an older answer.
EndedForGood ==
    /\ \A o \in ToSet(history) : order[o] = "ended" /\ cachedTrack[o] # "active"
    /\ \A o \in Orders : /\ cachedTrack[o] = "active" => order[o] # "none"
                         /\ cachedTrack[o] = "ended" => order[o] = "ended"
    /\ \A s \in Polls : asked[s].answer = "ended" =>
          order[asked[s].of] = "ended" /\ cachedTrack[asked[s].of] # "active"

\* So an older answer that is still on its way overlaps with the one that says so.
Overlapping ==
    /\ \A r, s \in Polls : r # s /\ asked[r].of = asked[s].of =>
          asked[r].of \in crossed \cup {NotTracked}
    /\ \A s \in Polls : asked[s].answer = "active" /\ asked[s].of \in ToSet(history) =>
          asked[s].of \in crossed

TrackInv ==
    /\ ServerTyped /\ StoreSound /\ ScreensSound /\ CallsTyped /\ EndedForGood
    /\ Overlapping /\ ReturnNeedsOverlap

\* The invariant says what the property asks.
LEMMA TrackInvSound == TrackInv => TrackingSound
  BY DEF TrackInv, TrackingSound, TrackTypeOK, ServerTyped, StoreSound, ScreensSound, CallsTyped

\* The facts about the constants.
LEMMA TrackConstants ==
    /\ MaxOrders \in Nat \ {0} /\ HistoryMax \in Nat \ {0} /\ MaxLost \in Nat
    /\ IsFiniteSet(Tabs) /\ Tabs # {} /\ Polls \subseteq Nat
  BY TrackAssumption, Zenon DEF TrackAssumption

\* Orders are numbered from 1, and 0 is none of them.
LEMMA OrdersType ==
    /\ Orders \subseteq Nat /\ NotTracked \notin Orders /\ 1 \in Orders
    /\ IsFiniteSet(Orders) /\ NotTracked = 0
<1>1. MaxOrders \in Nat \ {0} BY TrackConstants
<1>2. IsFiniteSet(1 .. MaxOrders) BY <1>1, FS_Interval
<1> QED BY <1>1, <1>2 DEF Orders, NotTracked

\* The newest and the first of the orders of a list are in it.
LEMMA PicksListed ==
    ASSUME NEW list \in Seq(Orders)
    PROVE /\ list # <<>> => Newest(list) \in ToSet(list) /\ FirstOf(list) \in ToSet(list)
          /\ list = <<>> => Newest(list) = NotTracked /\ FirstOf(list) = NotTracked
          /\ ToSet(list) \subseteq Orders /\ (list = <<>> <=> ToSet(list) = {})
<1>1. /\ DOMAIN list = 1 .. Len(list) /\ Len(list) \in Nat
      /\ list # <<>> => Len(list) > 0 /\ Head(list) = list[1]
      /\ list = <<>> => Len(list) = 0
      /\ \A i \in 1 .. Len(list) : list[i] \in Orders
    OBVIOUS
<1>2. ToSet(list) \subseteq Orders BY <1>1 DEF ToSet
<1>3. list # <<>> => Head(list) \in ToSet(list)
    <2> SUFFICES ASSUME list # <<>> PROVE Head(list) \in ToSet(list) OBVIOUS
    <2>1. 1 \in DOMAIN list BY <1>1
    <2> QED BY <1>1, <2>1 DEF ToSet
<1>4. list = <<>> => ToSet(list) = {}
    <2> SUFFICES ASSUME list = <<>> PROVE ToSet(list) = {} OBVIOUS
    <2>1. DOMAIN list = {} BY <1>1
    <2> QED BY <2>1 DEF ToSet
<1>5. ASSUME list # <<>> PROVE \E o \in ToSet(list) : \A p \in ToSet(list) : p <= o
    <2> DEFINE B == {MaxOrders - o : o \in ToSet(list)}
    <2>1. \A o \in Orders : MaxOrders - o \in Nat /\ o \in Nat
        BY TrackConstants DEF Orders
    <2>2. B \in SUBSET Nat BY <1>2, <2>1
    <2>3. B # {} BY <1>3, <1>5
    <2>4. PICK m \in B : \A k \in B : m <= k
        <3> HIDE DEF B
        <3> QED BY <2>2, <2>3, LeastNatural
    <2>5. PICK o \in ToSet(list) : m = MaxOrders - o OBVIOUS
    <2>6. ASSUME NEW p \in ToSet(list) PROVE p <= o
        <3>1. m <= MaxOrders - p BY <2>4
        <3> QED BY <1>2, <2>1, <2>5, <3>1, TrackConstants
    <2> QED BY <2>6
<1>6. list # <<>> => Newest(list) \in ToSet(list) BY <1>5 DEF Newest
<1> QED BY <1>2, <1>3, <1>4, <1>6 DEF FirstOf, Newest

\* What the store holds with and without an order.
LEMMA FollowedElements ==
    ASSUME NEW o \in Orders, followed \in Seq(Orders), IsInjective(followed)
    PROVE /\ Followed(o) \in Seq(Orders) /\ IsInjective(Followed(o))
          /\ ToSet(Followed(o)) = ToSet(followed) \cup {o}
          /\ Unfollowed(o) \in Seq(Orders) /\ IsInjective(Unfollowed(o))
          /\ ToSet(Unfollowed(o)) = ToSet(followed) \ {o}
<1>1. ToSet(followed) \subseteq Orders BY PicksListed
<1>2. /\ ToSet(Append(followed, o)) = ToSet(followed) \cup {o}
      /\ IsInjective(Append(followed, o)) <=> IsInjective(followed) /\ o \notin ToSet(followed)
    BY AppendElements
<1>3. Append(followed, o) \in Seq(Orders) OBVIOUS
<1>4. /\ Unfollowed(o) \in Seq(Orders) /\ IsInjective(Unfollowed(o))
      /\ ToSet(Unfollowed(o)) = ToSet(followed) \cap (Orders \ {o})
    BY SiftedElements DEF Unfollowed
<1> QED BY <1>1, <1>2, <1>3, <1>4 DEF Followed

\* The history with one more order, which drops one only when it has no room left.
LEMMA HistoryElements ==
    ASSUME NEW o \in Orders,
           history \in Seq(Orders), IsInjective(history), Len(history) <= HistoryMax
    PROVE /\ HistoryWith(o) \in Seq(Orders) /\ IsInjective(HistoryWith(o))
          /\ Len(HistoryWith(o)) <= HistoryMax
          /\ o \in ToSet(HistoryWith(o)) /\ ToSet(HistoryWith(o)) \subseteq ToSet(history) \cup {o}
          /\ \/ ToSet(HistoryWith(o)) = ToSet(history) \cup {o}
             \/ Cardinality(ToSet(history) \cup {o}) > HistoryMax
<1> DEFINE rest == Sifted(history, Orders \ {o})
           one == <<o>>
           all == one \o rest
           m == IF Len(all) < HistoryMax THEN Len(all) ELSE HistoryMax
<1>1. rest \in Seq(Orders) /\ ToSet(rest) = ToSet(history) \cap (Orders \ {o})
      /\ IsInjective(rest)
    BY SiftedElements
<1>2. one \in Seq(Orders) /\ ToSet(one) = {o} /\ IsInjective(one)
    BY DEF ToSet, IsInjective
<1>3. all \in Seq(Orders) /\ all[1] = o
    <2> HIDE DEF rest
    <2> QED BY <1>1
<1> HIDE DEF rest, one
<1>4. ToSet(all) = {o} \cup ToSet(rest) /\ IsInjective(all)
    <2>1. ToSet(one) \cap ToSet(rest) = {} BY <1>1, <1>2
    <2>2. ToSet(one \o rest) = ToSet(one) \cup ToSet(rest) /\ IsInjective(one \o rest)
        BY <1>1, <1>2, <2>1, JoinedElements
    <2> QED BY <1>2, <2>2
<1> HIDE DEF all
<1>5. ToSet(history) \subseteq Orders BY PicksListed
<1>6. ToSet(all) = ToSet(history) \cup {o} BY <1>1, <1>4, <1>5
<1>7. Cardinality(ToSet(all)) = Len(all) BY <1>3, <1>4, ListCardinality
<1>8. Len(all) \in Nat /\ HistoryMax \in Nat \ {0} BY <1>3, TrackConstants
<1>9. m \in 0 .. Len(all) /\ m <= HistoryMax BY <1>8
<1>10. Len(all) > 0
    <2>1. Len(all) # 0 BY <1>3, <1>6, PicksListed
    <2> QED BY <1>8, <2>1
<1>11. m > 0 /\ (m = Len(all) \/ Len(all) > HistoryMax) BY <1>8, <1>10
<1>12. HistoryWith(o) = SubSeq(all, 1, m) BY DEF HistoryWith, all, rest, one
<1> HIDE DEF m
<1>13. /\ SubSeq(all, 1, m) \in Seq(Orders) /\ Len(SubSeq(all, 1, m)) = m
       /\ IsInjective(SubSeq(all, 1, m)) /\ ToSet(SubSeq(all, 1, m)) \subseteq ToSet(all)
       /\ m > 0 => all[1] \in ToSet(SubSeq(all, 1, m))
       /\ m = Len(all) => SubSeq(all, 1, m) = all
    BY <1>3, <1>4, <1>9, BeginningOfList
<1> QED BY <1>3, <1>6, <1>7, <1>9, <1>11, <1>12, <1>13

\* A page that loads the store anew shows and polls what is placed.
LEMMA ReloadKeeps ==
    ASSUME NEW t \in Tabs, ScreensSound, Reloaded(t), mounted' \subseteq Tabs,
           followed' \in Seq(Orders), selected' \in Orders \cup {NotTracked},
           selected' # NotTracked => order'[selected'] # "none",
           \A o \in ToSet(followed)' : order'[o] # "none",
           \A o \in Orders : order[o] # "none" => order'[o] # "none"
    PROVE ScreensSound'
<1> DEFINE shows == IF selected' = NotTracked THEN Newest(followed') ELSE selected'
<1>1. /\ view' = [view EXCEPT ![t] = IF t \in mounted' THEN shows ELSE NotTracked]
      /\ polled' = [polled EXCEPT ![t] = IF t \notin mounted' THEN NotTracked
                                         ELSE IF shows # view[t] THEN selected' ELSE @]
    BY DEF Reloaded
<1>2. /\ followed' # <<>> => Newest(followed') \in ToSet(followed')
      /\ followed' = <<>> => Newest(followed') = NotTracked
      /\ ToSet(followed') \subseteq Orders
    BY PicksListed
<1>3. \A o \in ToSet(followed') : order'[o] # "none" OBVIOUS
<1>4. shows \in Orders \cup {NotTracked} /\ (shows # NotTracked => order'[shows] # "none")
    BY <1>2, <1>3
<1> HIDE DEF shows
<1>5. view' \in [Tabs -> Orders \cup {NotTracked}]
      /\ polled' \in [Tabs -> Orders \cup {NotTracked}]
    BY <1>1, <1>4 DEF ScreensSound
<1>6. ASSUME NEW u \in Tabs, NEW o \in Orders, o \in {view'[u], polled'[u]}
      PROVE order'[o] # "none"
    <2>1. NotTracked \notin Orders BY OrdersType
    <2>2. CASE u = t BY <1>1, <1>4, <1>6, <2>1, <2>2 DEF ScreensSound
    <2>3. CASE u # t BY <1>1, <1>6, <2>3 DEF ScreensSound
    <2> QED BY <2>2, <2>3
<1> QED BY <1>5, <1>6 DEF ScreensSound

\* A request of an order that was placed.
LEMMA SendKeeps ==
    ASSUME NEW s \in Polls, NEW t \in Tabs, NEW o \in Orders, order[o] # "none",
           ServerTyped, CallsTyped, EndedForGood, Overlapping, ReturnNeedsOverlap,
           StoreSound, Sends(s, t, o), UNCHANGED <<order, cachedTrack, followed, history>>
    PROVE /\ CallsTyped' /\ EndedForGood' /\ Overlapping' /\ ReturnNeedsOverlap'
<1> DEFINE new == [step |-> "sent", tab |-> t, of |-> o, answer |-> "none"]
<1>1. asked' = [asked EXCEPT ![s] = new] /\ asked[s] = NoPoll BY DEF Sends
<1>2. crossed' = (IF \E r \in Polls : asked[r].of = o THEN crossed \cup {o} ELSE crossed)
    BY DEF Sends
<1>3. new \in PollOf /\ new.tab = t /\ new.of = o /\ new.step = "sent" /\ new.answer = "none"
    BY DEF PollOf
<1> HIDE DEF new
<1>4. asked'[s] = new /\ \A r \in Polls : r # s => asked'[r] = asked[r]
    BY <1>1 DEF CallsTyped
<1>5. crossed \subseteq crossed' /\ crossed' \subseteq Orders BY <1>2 DEF CallsTyped
<1>6. CallsTyped'
    <2>1. asked' \in [Polls -> PollOf] BY <1>1, <1>3 DEF CallsTyped
    <2> QED BY <1>3, <1>4, <1>5, <2>1 DEF CallsTyped
<1>7. EndedForGood'
    <2>1. ASSUME NEW r \in Polls, asked'[r].answer = "ended"
          PROVE order[asked'[r].of] = "ended" /\ cachedTrack[asked'[r].of] # "active"
        BY <1>3, <1>4, <2>1 DEF EndedForGood
    <2> QED BY <2>1 DEF EndedForGood
<1>8. Overlapping'
    <2>1. ASSUME NEW q \in Polls, NEW r \in Polls, q # r, asked'[q].of = asked'[r].of
          PROVE asked'[q].of \in crossed' \cup {NotTracked}
        <3>1. CASE q = s BY <1>2, <1>3, <1>4, <2>1, <3>1
        <3>2. CASE r = s BY <1>2, <1>3, <1>4, <2>1, <3>2
        <3>3. CASE q # s /\ r # s BY <1>4, <1>5, <2>1, <3>3 DEF Overlapping
        <3> QED BY <3>1, <3>2, <3>3
    <2>2. ASSUME NEW r \in Polls, asked'[r].answer = "active",
                 asked'[r].of \in ToSet(history)
          PROVE asked'[r].of \in crossed'
        BY <1>3, <1>4, <1>5, <2>2 DEF Overlapping
    <2> QED BY <2>1, <2>2 DEF Overlapping
<1>9. ReturnNeedsOverlap' BY <1>5 DEF ReturnNeedsOverlap
<1> QED BY <1>6, <1>7, <1>8, <1>9

\* A step that leaves what the store and its orders say.
LEMMA StoreStays ==
    ASSUME StoreSound, UNCHANGED <<trackManner, order, followed, selected, history>>
    PROVE StoreSound'
  BY DEF StoreSound, SelectionStands, NoneForgotten

\* A tab opens.
LEMMA MountKept == ASSUME NEW t \in Tabs, TrackInv, Mount(t) PROVE TrackInv'
<1> USE DEF TrackInv
<1>1. UNCHANGED <<trackManner, order, cachedTrack, followed, selected, history, lost>>
      /\ mounted' = mounted \cup {t} /\ Reloaded(t)
    BY DEF Mount, store
<1>2. ServerTyped' /\ StoreSound' BY <1>1, StoreStays DEF ServerTyped
<1>3. ScreensSound'
    <2>1. selected # NotTracked => order[selected] # "none"
        BY DEF StoreSound, SelectionStands
    <2> QED BY <1>1, <1>2, <2>1, ReloadKeeps DEF StoreSound, ScreensSound
<1>4. CallsTyped' /\ EndedForGood' /\ Overlapping' /\ ReturnNeedsOverlap'
    <2>1. CASE followed = <<>>
        <3>1. UNCHANGED <<asked, crossed>> BY <2>1 DEF Mount
        <3> QED BY <1>1, <3>1 DEF CallsTyped, EndedForGood, Overlapping, ReturnNeedsOverlap
    <2>2. CASE followed # <<>>
        <3>1. PICK s \in Polls : Sends(s, t, view'[t]) BY <2>2 DEF Mount
        <3>2. view'[t] = IF selected = NotTracked THEN Newest(followed) ELSE selected
            BY <1>1 DEF Reloaded, ScreensSound
        <3>3. view'[t] \in Orders /\ order[view'[t]] # "none"
            BY <2>2, <3>2, PicksListed DEF StoreSound, SelectionStands
        <3> QED BY <1>1, <3>1, <3>3, SendKeeps
    <2> QED BY <2>1, <2>2
<1> QED BY <1>2, <1>3, <1>4

\* A tab closes.
LEMMA UnmountKept == ASSUME NEW t \in Tabs, TrackInv, Unmount(t) PROVE TrackInv'
<1> USE DEF TrackInv
<1>1. UNCHANGED <<trackManner, order, cachedTrack, followed, selected, history, asked, lost,
                  crossed>>
    BY DEF Unmount, store
<1>2. mounted' \subseteq mounted /\ view' = [view EXCEPT ![t] = NotTracked]
      /\ polled' = [polled EXCEPT ![t] = NotTracked]
    BY DEF Unmount
<1>3. ServerTyped' /\ StoreSound' BY <1>1, StoreStays DEF ServerTyped
<1>4. ScreensSound' BY <1>1, <1>2, OrdersType DEF ScreensSound
<1>5. CallsTyped' /\ EndedForGood' /\ Overlapping' /\ ReturnNeedsOverlap'
    BY <1>1 DEF CallsTyped, EndedForGood, Overlapping, ReturnNeedsOverlap
<1> QED BY <1>3, <1>4, <1>5

\* A tab polls what it shows.
LEMMA PollKept ==
    ASSUME NEW s \in Polls, NEW t \in Tabs, NEW o \in Orders, TrackInv, Poll(s, t, o)
    PROVE TrackInv'
<1> USE DEF TrackInv
<1>1. UNCHANGED <<trackManner, order, cachedTrack, followed, selected, history, view, polled,
                  mounted, lost>> /\ Sends(s, t, o)
    BY DEF Poll, store
<1>2. order[o] # "none" BY DEF Poll, ScreensSound
<1>3. ServerTyped' /\ StoreSound' BY <1>1, StoreStays DEF ServerTyped
<1>4. ScreensSound' BY <1>1 DEF ScreensSound
<1>5. CallsTyped' /\ EndedForGood' /\ Overlapping' /\ ReturnNeedsOverlap'
    BY <1>1, <1>2, SendKeeps
<1> QED BY <1>3, <1>4, <1>5

\* The guest picks another order.
LEMMA PickKept ==
    ASSUME NEW s \in Polls, NEW t \in Tabs, NEW o \in Orders, TrackInv, Pick(s, t, o)
    PROVE TrackInv'
<1> USE DEF TrackInv
<1>1. UNCHANGED <<trackManner, order, cachedTrack, followed, history, mounted, lost>>
      /\ Sends(s, t, o) /\ Reloaded(t) /\ order[o] # "none"
      /\ selected' = (IF o \in ToSet(followed) THEN o ELSE selected)
    BY DEF Pick
<1>2. ServerTyped' BY <1>1 DEF ServerTyped
<1>3. StoreSound' BY <1>1, OrdersType DEF StoreSound, SelectionStands, NoneForgotten
<1>4. ScreensSound'
    <2>1. selected' # NotTracked => order[selected'] # "none"
        BY <1>1, <1>3 DEF StoreSound, SelectionStands
    <2> QED BY <1>1, <1>3, <2>1, ReloadKeeps DEF StoreSound, ScreensSound
<1>5. CallsTyped' /\ EndedForGood' /\ Overlapping' /\ ReturnNeedsOverlap'
    BY <1>1, SendKeeps
<1> QED BY <1>2, <1>3, <1>4, <1>5

\* An order is placed and followed.
LEMMA RegisterKept == ASSUME NEW t \in Tabs, TrackInv, Register(t) PROVE TrackInv'
<1> USE DEF TrackInv
<1>1. UNCHANGED <<trackManner, cachedTrack, history, mounted, asked, lost, crossed>>
      /\ Reloaded(t)
    BY DEF Register
<1>2. PICK o \in Orders :
          /\ order[o] = "none" /\ order' = [order EXCEPT ![o] = "active"]
          /\ followed' = Followed(o) /\ selected' = o
    BY DEF Register
<1>3. order' \in [Orders -> {"none", "active", "ended"}]
      /\ \A p \in Orders : order'[p] = IF p = o THEN "active" ELSE order[p]
    BY <1>2 DEF ServerTyped
<1>4. ServerTyped' BY <1>1, <1>3 DEF ServerTyped
<1>5. /\ followed' \in Seq(Orders) /\ IsInjective(followed')
      /\ ToSet(followed') = ToSet(followed) \cup {o}
    BY <1>2, FollowedElements DEF StoreSound
<1>6. ToSet(followed) \subseteq Orders /\ ToSet(history) \subseteq Orders
    BY PicksListed DEF StoreSound
<1>7. StoreSound'
    <2>1. SelectionStands' BY <1>2, <1>5, OrdersType DEF SelectionStands
    <2>2. {p \in Orders : order'[p] = "ended"} = {p \in Orders : order[p] = "ended"}
        BY <1>2, <1>3
    <2>3. NoneForgotten' BY <1>1, <1>3, <1>5, <2>2 DEF StoreSound, NoneForgotten
    <2>4. \A p \in ToSet(followed') : order'[p] # "none"
        BY <1>3, <1>5, <1>6 DEF StoreSound
    <2> QED BY <1>1, <1>2, <1>5, <2>1, <2>3, <2>4 DEF StoreSound
<1>8. ScreensSound'
    <2>1. order'[selected'] # "none" BY <1>2, <1>3
    <2> QED BY <1>1, <1>2, <1>3, <1>7, <2>1, ReloadKeeps DEF StoreSound, ScreensSound
<1>9. CallsTyped' /\ Overlapping' BY <1>1, <1>3 DEF CallsTyped, Overlapping
<1>10. EndedForGood'
    <2>1. \A p \in Orders : order[p] = "ended" => order'[p] = "ended" BY <1>2, <1>3
    <2>2. \A s \in Polls : asked[s].answer = "ended" => asked[s].of \in Orders
        BY DEF CallsTyped, NoPoll
    <2> QED BY <1>1, <1>2, <1>3, <1>6, <2>1, <2>2 DEF EndedForGood
<1>11. ReturnNeedsOverlap'
    <2>1. o \notin ToSet(history) BY <1>2 DEF EndedForGood
    <2> QED BY <1>1, <1>5, <2>1 DEF ReturnNeedsOverlap
<1> QED BY <1>4, <1>7, <1>8, <1>9, <1>10, <1>11

\* An order is delivered or cancelled.
LEMMA EndsKept == ASSUME NEW o \in Orders, TrackInv, Ends(o) PROVE TrackInv'
<1> USE DEF TrackInv
<1>1. UNCHANGED <<trackManner, cachedTrack, followed, selected, history, view, polled, mounted,
                  asked, lost, crossed>>
      /\ order[o] = "active" /\ order' = [order EXCEPT ![o] = "ended"]
    BY DEF Ends, store
<1>2. order' \in [Orders -> {"none", "active", "ended"}]
      /\ \A p \in Orders : order'[p] = IF p = o THEN "ended" ELSE order[p]
    BY <1>1 DEF ServerTyped
<1>3. ToSet(followed) \subseteq Orders /\ ToSet(history) \subseteq Orders
    BY PicksListed DEF StoreSound
<1>4. ServerTyped' BY <1>1, <1>2 DEF ServerTyped
<1>5. StoreSound'
    <2> DEFINE before == {p \in Orders : order[p] = "ended"}
               after == {p \in Orders : order'[p] = "ended"}
    <2>1. SelectionStands' BY <1>1 DEF StoreSound, SelectionStands
    <2>2. NoneForgotten'
        <3>1. before \subseteq after /\ IsFiniteSet(after) /\ IsFiniteSet(before)
            BY <1>2, FS_Subset, OrdersType
        <3>2. Cardinality(before) <= Cardinality(after) BY <3>1, FS_Subset
        <3>3. Cardinality(before) \in Nat /\ Cardinality(after) \in Nat
            BY <3>1, FS_CardinalityType
        <3>4. HistoryMax \in Nat BY TrackConstants
        <3>5. Cardinality(after) <= HistoryMax => Cardinality(before) <= HistoryMax
            BY <3>2, <3>3, <3>4
        <3> HIDE DEF after
        <3>6. Cardinality(after) <= HistoryMax =>
                  \A p \in Orders : order[p] # "none" => p \in ToSet(followed) \cup ToSet(history)
            BY <3>5 DEF StoreSound, NoneForgotten
        <3>7. \A p \in Orders : order'[p] # "none" => order[p] # "none" BY <1>1, <1>2
        <3> QED BY <1>1, <3>6, <3>7 DEF NoneForgotten, after
    <2>3. \A p \in ToSet(followed) : order'[p] # "none" BY <1>2, <1>3 DEF StoreSound
    <2> QED BY <1>1, <2>1, <2>2, <2>3 DEF StoreSound
<1>6. ScreensSound' BY <1>1, <1>2 DEF ScreensSound
<1>7. CallsTyped' /\ Overlapping' /\ ReturnNeedsOverlap'
    BY <1>1, <1>2 DEF CallsTyped, Overlapping, ReturnNeedsOverlap
<1>8. EndedForGood'
    <2>1. \A s \in Polls : asked[s].answer = "ended" => asked[s].of \in Orders
        BY DEF CallsTyped, NoPoll
    <2> QED BY <1>1, <1>2, <1>3, <2>1 DEF EndedForGood
<1> QED BY <1>4, <1>5, <1>6, <1>7, <1>8

\* The server answers, from its cache or from the order.
LEMMA AnswersKept == ASSUME NEW s \in Polls, TrackInv, Answers(s) PROVE TrackInv'
<1> USE DEF TrackInv
<1> DEFINE o == asked[s].of
           says == IF cachedTrack[o] = "none" THEN order[o] ELSE cachedTrack[o]
<1>1. /\ UNCHANGED <<trackManner, order, followed, selected, history, view, polled, mounted,
                     lost, crossed>>
      /\ asked[s].step = "sent" /\ cachedTrack' = [cachedTrack EXCEPT ![o] = says]
      /\ asked' = [asked EXCEPT ![s].step = "answered", ![s].answer = says]
    BY DEF Answers, store
<1>2. /\ asked[s].tab \in Tabs /\ o \in Orders /\ order[o] # "none"
    BY <1>1 DEF CallsTyped, NoPoll
<1>3. says \in {"active", "ended"} /\ (says = "ended" => order[o] = "ended")
    BY <1>2 DEF ServerTyped, EndedForGood
<1>4. o \in ToSet(history) => says = "ended"
    BY <1>2, <1>3 DEF ServerTyped, EndedForGood
<1> HIDE DEF says
<1>5. /\ asked' \in [Polls -> PollOf]
      /\ asked'[s].step = "answered" /\ asked'[s].answer = says
      /\ asked'[s].tab = asked[s].tab /\ asked'[s].of = o
      /\ \A r \in Polls : r # s => asked'[r] = asked[r]
    BY <1>1, <1>3 DEF CallsTyped, PollOf
<1>6. /\ cachedTrack' \in [Orders -> {"none", "active", "ended"}]
      /\ cachedTrack'[o] = says /\ \A p \in Orders : p # o => cachedTrack'[p] = cachedTrack[p]
    BY <1>1, <1>2, <1>3 DEF ServerTyped
<1> HIDE DEF o
<1>7. ServerTyped' /\ StoreSound' /\ ScreensSound'
    BY <1>1, <1>6, StoreStays DEF ServerTyped, ScreensSound
<1>8. CallsTyped'
    <2>1. \A r \in Polls \ {s} : asked'[r] = asked[r] BY <1>5
    <2> QED BY <1>1, <1>2, <1>3, <1>5, <2>1 DEF CallsTyped
<1>9. EndedForGood'
    <2>1. \A p \in ToSet(history) : p \in Orders BY PicksListed DEF StoreSound
    <2>2. \A p \in ToSet(history) : order[p] = "ended" /\ cachedTrack'[p] # "active"
        BY <1>4, <1>6, <2>1 DEF EndedForGood
    <2>3. \A p \in Orders : /\ cachedTrack'[p] = "active" => order[p] # "none"
                            /\ cachedTrack'[p] = "ended" => order[p] = "ended"
        BY <1>2, <1>3, <1>6 DEF EndedForGood
    <2>4. ASSUME NEW r \in Polls, asked'[r].answer = "ended"
          PROVE order[asked'[r].of] = "ended" /\ cachedTrack'[asked'[r].of] # "active"
        <3>1. CASE r = s BY <1>3, <1>5, <1>6, <2>4, <3>1
        <3>2. CASE r # s
            <4>1. asked[r].of \in Orders /\ asked[r].answer = "ended"
                BY <1>5, <2>4, <3>2 DEF CallsTyped, NoPoll
            <4>2. order[asked[r].of] = "ended" /\ cachedTrack[asked[r].of] # "active"
                BY <4>1 DEF EndedForGood
            <4>3. CASE asked[r].of = o
                <5>1. says = "ended"
                    BY <4>2, <4>3, <1>3 DEF ServerTyped, says, o
                <5> QED BY <1>5, <1>6, <3>2, <4>2, <4>3, <5>1
            <4>4. CASE asked[r].of # o BY <1>5, <1>6, <3>2, <4>1, <4>2, <4>4
            <4> QED BY <4>3, <4>4
        <3> QED BY <3>1, <3>2
    <2> QED BY <1>1, <2>2, <2>3, <2>4 DEF EndedForGood
<1>10. Overlapping'
    <2>1. \A r \in Polls : asked'[r].of = asked[r].of BY <1>5 DEF o
    <2>2. \A r \in Polls : asked'[r].answer = "active" /\ asked'[r].of \in ToSet(history) =>
              asked'[r].of \in crossed
        BY <1>4, <1>5 DEF Overlapping
    <2> QED BY <1>1, <2>1, <2>2 DEF Overlapping
<1>11. ReturnNeedsOverlap' BY <1>1 DEF ReturnNeedsOverlap
<1> QED BY <1>7, <1>8, <1>9, <1>10, <1>11

\* The cached answer expires.
LEMMA TrackExpiresKept == ASSUME NEW o \in Orders, TrackInv, TrackExpires(o) PROVE TrackInv'
<1> USE DEF TrackInv
<1>1. UNCHANGED <<trackManner, order, followed, selected, history, view, polled, mounted,
                  asked, lost, crossed>>
      /\ cachedTrack' = [cachedTrack EXCEPT ![o] = "none"]
    BY DEF TrackExpires, store
<1>2. /\ cachedTrack' \in [Orders -> {"none", "active", "ended"}]
      /\ \A p \in Orders : cachedTrack'[p] \in {cachedTrack[p], "none"}
    BY <1>1 DEF ServerTyped
<1>3. ServerTyped' /\ StoreSound' /\ ScreensSound'
    BY <1>1, <1>2, StoreStays DEF ServerTyped, ScreensSound
<1>4. CallsTyped' /\ Overlapping' /\ ReturnNeedsOverlap'
    BY <1>1 DEF CallsTyped, Overlapping, ReturnNeedsOverlap
<1>5. EndedForGood'
    <2>1. \A p \in ToSet(history) : p \in Orders BY PicksListed DEF StoreSound
    <2>2. \A s \in Polls : asked[s].answer = "ended" => asked[s].of \in Orders
        BY DEF CallsTyped, NoPoll
    <2> QED BY <1>1, <1>2, <2>1, <2>2 DEF EndedForGood
<1> QED BY <1>3, <1>4, <1>5

\* A request that is over.
LEMMA OverKeeps ==
    ASSUME NEW s \in Polls, CallsTyped, asked' = [asked EXCEPT ![s] = NoPoll],
           UNCHANGED <<order, crossed>>
    PROVE /\ CallsTyped'
          /\ asked'[s] = NoPoll /\ \A r \in Polls : r # s => asked'[r] = asked[r]
          /\ \A r \in Polls : asked'[r].answer # "none" => r # s
<1>1. NoPoll \in PollOf /\ NoPoll.answer = "none" BY DEF NoPoll, PollOf
<1>2. asked'[s] = NoPoll /\ \A r \in Polls : r # s => asked'[r] = asked[r]
    BY DEF CallsTyped
<1>3. asked' \in [Polls -> PollOf] BY <1>1 DEF CallsTyped
<1>4. CallsTyped'
    <2>1. \A r \in Polls \ {s} : asked'[r] = asked[r] BY <1>2
    <2> QED BY <1>2, <1>3, <2>1 DEF CallsTyped
<1> QED BY <1>1, <1>2, <1>4

\* A poll is lost or fails.
LEMMA PollFailsKept == ASSUME NEW s \in Polls, TrackInv, PollFails(s) PROVE TrackInv'
<1> USE DEF TrackInv
<1>1. UNCHANGED <<trackManner, order, cachedTrack, followed, selected, history, view, polled,
                  mounted, crossed>>
      /\ asked' = [asked EXCEPT ![s] = NoPoll] /\ lost < MaxLost /\ lost' = lost + 1
    BY DEF PollFails, store
<1>2. /\ CallsTyped'
      /\ asked'[s] = NoPoll /\ \A r \in Polls : r # s => asked'[r] = asked[r]
      /\ \A r \in Polls : asked'[r].answer # "none" => r # s
    BY <1>1, OverKeeps
<1>3. ServerTyped' /\ StoreSound' /\ ScreensSound'
    BY <1>1, StoreStays, TrackConstants DEF ServerTyped, ScreensSound
<1>4. EndedForGood' BY <1>1, <1>2 DEF EndedForGood
<1>5. Overlapping'
    <2>1. NoPoll.of = NotTracked BY DEF NoPoll
    <2>2. ASSUME NEW q \in Polls, NEW r \in Polls, q # r, asked'[q].of = asked'[r].of
          PROVE asked'[q].of \in crossed \cup {NotTracked}
        BY <1>2, <2>1, <2>2 DEF Overlapping
    <2>3. \A r \in Polls : asked'[r].answer = "active" /\ asked'[r].of \in ToSet(history) =>
              asked'[r].of \in crossed
        BY <1>2 DEF Overlapping
    <2> QED BY <1>1, <2>2, <2>3 DEF Overlapping
<1>6. ReturnNeedsOverlap' BY <1>1 DEF ReturnNeedsOverlap
<1> QED BY <1>2, <1>3, <1>4, <1>5, <1>6

\* A tab hears that an order is under way.
LEMMA HearsActiveKept == ASSUME NEW s \in Polls, TrackInv, HearsActive(s) PROVE TrackInv'
<1> USE DEF TrackInv
<1> DEFINE o == asked[s].of
           t == asked[s].tab
<1>1. /\ UNCHANGED <<trackManner, order, cachedTrack, history, mounted, lost, crossed>>
      /\ asked[s].answer = "active" /\ asked' = [asked EXCEPT ![s] = NoPoll]
      /\ followed' = Followed(o) /\ selected' = SelectedOr(o)
    BY DEF HearsActive
<1>2. \/ Reloaded(t)
      \/ /\ t \in mounted
         /\ view' = [view EXCEPT ![t] = selected']
         /\ polled' = [polled EXCEPT ![t] = selected']
    BY DEF HearsActive
<1>3. t \in Tabs /\ o \in Orders /\ order[o] # "none"
    BY <1>1 DEF CallsTyped, NoPoll
<1>4. /\ CallsTyped'
      /\ asked'[s] = NoPoll /\ \A r \in Polls : r # s => asked'[r] = asked[r]
      /\ \A r \in Polls : asked'[r].answer # "none" => r # s
    BY <1>1, OverKeeps
<1>5. o \in ToSet(history) => o \in crossed BY <1>1 DEF Overlapping
<1> HIDE DEF o, t
<1>6. /\ followed' \in Seq(Orders) /\ IsInjective(followed')
      /\ ToSet(followed') = ToSet(followed) \cup {o}
    BY <1>1, <1>3, FollowedElements DEF StoreSound
<1>7. ServerTyped' BY <1>1 DEF ServerTyped
<1>8. StoreSound'
    <2>1. selected' \in ToSet(followed')
        BY <1>1, <1>6 DEF StoreSound, SelectionStands, SelectedOr
    <2>2. selected' \in Orders BY <1>6, <2>1, PicksListed
    <2>3. selected' # NotTracked BY <2>2, OrdersType
    <2>4. SelectionStands' BY <2>1, <2>3 DEF SelectionStands
    <2>5. NoneForgotten' BY <1>1, <1>6 DEF StoreSound, NoneForgotten
    <2>6. \A p \in ToSet(followed') : order[p] # "none" BY <1>3, <1>6 DEF StoreSound
    <2> QED BY <1>1, <1>6, <2>2, <2>4, <2>5, <2>6 DEF StoreSound
<1>9. selected' # NotTracked => order[selected'] # "none"
    BY <1>1, <1>8 DEF StoreSound, SelectionStands
<1>10. ScreensSound'
    <2>1. CASE Reloaded(t)
        BY <1>1, <1>3, <1>8, <1>9, <2>1, ReloadKeeps DEF StoreSound, ScreensSound
    <2>2. CASE /\ view' = [view EXCEPT ![t] = selected']
               /\ polled' = [polled EXCEPT ![t] = selected']
        <3>1. selected' \in Orders \cup {NotTracked} /\ NotTracked \notin Orders
            BY <1>8, OrdersType DEF StoreSound
        <3>2. view' \in [Tabs -> Orders \cup {NotTracked}]
              /\ polled' \in [Tabs -> Orders \cup {NotTracked}]
            BY <1>3, <2>2, <3>1 DEF ScreensSound
        <3>3. ASSUME NEW u \in Tabs, NEW p \in Orders, p \in {view'[u], polled'[u]}
              PROVE order[p] # "none"
            BY <1>3, <1>9, <2>2, <3>1, <3>3 DEF ScreensSound
        <3> QED BY <1>1, <3>2, <3>3 DEF ScreensSound
    <2> QED BY <1>2, <2>1, <2>2
<1>11. EndedForGood' BY <1>1, <1>4 DEF EndedForGood
<1>12. Overlapping'
    <2>1. NoPoll.of = NotTracked BY DEF NoPoll
    <2>2. ASSUME NEW q \in Polls, NEW r \in Polls, q # r, asked'[q].of = asked'[r].of
          PROVE asked'[q].of \in crossed \cup {NotTracked}
        BY <1>4, <2>1, <2>2 DEF Overlapping
    <2>3. \A r \in Polls : asked'[r].answer = "active" /\ asked'[r].of \in ToSet(history) =>
              asked'[r].of \in crossed
        BY <1>4 DEF Overlapping
    <2> QED BY <1>1, <2>2, <2>3 DEF Overlapping
<1>13. ReturnNeedsOverlap' BY <1>1, <1>5, <1>6 DEF ReturnNeedsOverlap
<1> QED BY <1>4, <1>7, <1>8, <1>10, <1>11, <1>12, <1>13

\* A tab hears that an order has ended.
LEMMA HearsEndedKept == ASSUME NEW s \in Polls, TrackInv, HearsEnded(s) PROVE TrackInv'
<1> USE DEF TrackInv
<1> DEFINE o == asked[s].of
           t == asked[s].tab
<1>1. /\ UNCHANGED <<trackManner, order, cachedTrack, mounted, lost, crossed>>
      /\ asked[s].answer = "ended" /\ asked' = [asked EXCEPT ![s] = NoPoll]
      /\ followed' = Unfollowed(o) /\ selected' = SelectedWithout(o)
      /\ history' = HistoryWith(o) /\ Reloaded(t)
    BY DEF HearsEnded
<1>2. t \in Tabs /\ o \in Orders /\ order[o] = "ended" /\ cachedTrack[o] # "active"
    BY <1>1 DEF CallsTyped, NoPoll, EndedForGood
<1>3. /\ CallsTyped'
      /\ asked'[s] = NoPoll /\ \A r \in Polls : r # s => asked'[r] = asked[r]
      /\ \A r \in Polls : asked'[r].answer # "none" => r # s
    BY <1>1, OverKeeps
<1>4. \A r \in Polls : r # s /\ asked[r].of = o => o \in crossed
    BY <1>2, OrdersType DEF Overlapping
<1> HIDE DEF o, t
<1>5. /\ followed' \in Seq(Orders) /\ IsInjective(followed')
      /\ ToSet(followed') = ToSet(followed) \ {o}
    BY <1>1, <1>2, FollowedElements DEF StoreSound
<1>6. /\ history' \in Seq(Orders) /\ IsInjective(history') /\ Len(history') <= HistoryMax
      /\ o \in ToSet(history') /\ ToSet(history') \subseteq ToSet(history) \cup {o}
      /\ \/ ToSet(history') = ToSet(history) \cup {o}
         \/ Cardinality(ToSet(history) \cup {o}) > HistoryMax
    BY <1>1, <1>2, HistoryElements DEF StoreSound
<1>7. ServerTyped' BY <1>1 DEF ServerTyped
<1>8. StoreSound'
    <2>1. SelectionStands' /\ selected' \in Orders \cup {NotTracked}
        <3>1. CASE selected = o
            <4>1. selected' = FirstOf(followed') BY <1>1, <3>1 DEF SelectedWithout
            <4>2. /\ followed' # <<>> => FirstOf(followed') \in ToSet(followed')
                  /\ followed' = <<>> => FirstOf(followed') = NotTracked
                  /\ ToSet(followed') \subseteq Orders
                BY <1>5, PicksListed
            <4> QED BY <4>1, <4>2, OrdersType DEF SelectionStands
        <3>2. CASE selected # o
            <4>1. selected' = selected BY <1>1, <3>2 DEF SelectedWithout
            <4>2. followed' # <<>> => followed # <<>>
                BY <1>5, PicksListed DEF StoreSound
            <4> QED BY <1>1, <1>5, <3>2, <4>1, <4>2 DEF StoreSound, SelectionStands
        <3> QED BY <3>1, <3>2
    <2>2. NoneForgotten'
        <3> SUFFICES ASSUME Cardinality({p \in Orders : order[p] = "ended"}) <= HistoryMax,
                            NEW p \in Orders, order[p] # "none"
                     PROVE p \in ToSet(followed') \cup ToSet(history')
            BY <1>1 DEF NoneForgotten
        <3>1. p \in ToSet(followed) \cup ToSet(history) BY DEF StoreSound, NoneForgotten
        <3>2. ToSet(history') = ToSet(history) \cup {o}
            <4> DEFINE ended == {q \in Orders : order[q] = "ended"}
                       some == ToSet(history) \cup {o}
            <4>1. some \subseteq ended
                BY <1>2, PicksListed DEF StoreSound, EndedForGood
            <4>2. IsFiniteSet(ended) BY FS_Subset, OrdersType
            <4> HIDE DEF ended, some
            <4>3. IsFiniteSet(some) /\ Cardinality(some) <= Cardinality(ended)
                BY <4>1, <4>2, FS_Subset
            <4>4. Cardinality(some) \in Nat /\ Cardinality(ended) \in Nat
                BY <4>2, <4>3, FS_CardinalityType
            <4>5. ~(Cardinality(some) > HistoryMax)
                BY <4>3, <4>4, TrackConstants DEF ended
            <4> QED BY <1>6, <4>5 DEF some
        <3> QED BY <1>5, <3>1, <3>2
    <2>3. \A p \in ToSet(followed') : order[p] # "none" BY <1>5 DEF StoreSound
    <2> QED BY <1>1, <1>5, <1>6, <2>1, <2>2, <2>3 DEF StoreSound
<1>9. ScreensSound'
    <2>1. selected' # NotTracked => order[selected'] # "none"
        BY <1>1, <1>8 DEF StoreSound, SelectionStands
    <2> QED BY <1>1, <1>2, <1>8, <2>1, ReloadKeeps DEF StoreSound, ScreensSound
<1>10. EndedForGood' BY <1>1, <1>2, <1>3, <1>6 DEF EndedForGood
<1>11. Overlapping'
    <2>1. NoPoll.of = NotTracked BY DEF NoPoll
    <2>2. ASSUME NEW q \in Polls, NEW r \in Polls, q # r, asked'[q].of = asked'[r].of
          PROVE asked'[q].of \in crossed \cup {NotTracked}
        BY <1>3, <2>1, <2>2 DEF Overlapping
    <2>3. ASSUME NEW r \in Polls, asked'[r].answer = "active",
                 asked'[r].of \in ToSet(history')
          PROVE asked'[r].of \in crossed
        BY <1>3, <1>4, <1>6, <2>3 DEF Overlapping
    <2> QED BY <1>1, <2>2, <2>3 DEF Overlapping
<1>12. ReturnNeedsOverlap' BY <1>1, <1>5, <1>6 DEF ReturnNeedsOverlap
<1> QED BY <1>3, <1>7, <1>8, <1>9, <1>10, <1>11, <1>12

\* A browser that follows no order yet.
LEMMA TrackInitSound == TrackInit => TrackInv
<1> SUFFICES ASSUME TrackInit PROVE TrackInv OBVIOUS
<1>1. ServerTyped BY TrackConstants, OrdersType DEF TrackInit, ServerTyped
<1>2. followed \in Seq(Orders) /\ IsInjective(followed)
      /\ ToSet(followed) = {p \in Orders : order[p] # "none"}
    <2>1. CASE trackManner = "legacy"
        <3>1. followed = <<1>> /\ \A p \in Orders : order[p] # "none" <=> p = 1
            BY <2>1 DEF TrackInit
        <3>2. /\ <<1>> \in Seq(Orders) /\ DOMAIN <<1>> = {1} /\ <<1>>[1] = 1
            BY OrdersType
        <3>3. IsInjective(<<1>>) /\ ToSet(<<1>>) = {1} BY <3>2 DEF ToSet, IsInjective
        <3>4. {p \in Orders : order[p] # "none"} = {1} BY <3>1, OrdersType
        <3> QED BY <3>1, <3>2, <3>3, <3>4
    <2>2. CASE trackManner # "legacy"
        <3>1. followed = <<>> /\ \A p \in Orders : order[p] = "none"
            BY <2>2 DEF TrackInit
        <3> QED BY <3>1 DEF ToSet, IsInjective
    <2> QED BY <2>1, <2>2
<1>3. history = <<>> /\ history \in Seq(Orders) /\ IsInjective(history) /\ ToSet(history) = {}
      /\ Len(history) <= HistoryMax
    BY TrackConstants DEF TrackInit, ToSet, IsInjective
<1>4. StoreSound
    <2>1. selected = NotTracked /\ (trackManner # "legacy" => followed = <<>>)
        BY DEF TrackInit
    <2> QED BY <1>2, <1>3, <2>1 DEF StoreSound, SelectionStands, NoneForgotten
<1>5. ScreensSound BY OrdersType DEF TrackInit, ScreensSound
<1>6. asked = [s \in Polls |-> NoPoll] /\ crossed = {} BY DEF TrackInit
<1>7. CallsTyped BY <1>6 DEF CallsTyped, NoPoll, PollOf
<1>8. EndedForGood BY <1>3, <1>6 DEF TrackInit, EndedForGood, NoPoll
<1>9. Overlapping BY <1>3, <1>6 DEF Overlapping, NoPoll
<1>10. ReturnNeedsOverlap BY <1>3 DEF ReturnNeedsOverlap
<1> QED BY <1>1, <1>4, <1>5, <1>7, <1>8, <1>9, <1>10 DEF TrackInv

\* Every step keeps the invariant.
LEMMA TrackInvKept == TrackInv /\ [TrackNext]_trackVars => TrackInv'
<1> SUFFICES ASSUME TrackInv, [TrackNext]_trackVars PROVE TrackInv' OBVIOUS
<1>1. CASE UNCHANGED trackVars
    BY <1>1 DEF TrackInv, ServerTyped, StoreSound, ScreensSound, CallsTyped, EndedForGood,
                Overlapping, ReturnNeedsOverlap, SelectionStands, NoneForgotten, trackVars,
                store
<1>2. CASE TrackNext
    BY <1>2, MountKept, UnmountKept, RegisterKept, AnswersKept, HearsActiveKept,
       HearsEndedKept, PollFailsKept, PollKept, PickKept, EndsKept, TrackExpiresKept
    DEF TrackNext
<1> QED BY <1>1, <1>2

\* Whatever tabs, late answers and the server's cache do, no order is forgotten, what is
\* selected is followed, and an order that is over comes back only by overlapping requests
\* (guest-order-tracking-storage.ts, use-guest-order-tracking.ts, getTrackByToken).
THEOREM OrdersFollowed == TrackSpec => []TrackingSound
<1>1. TrackSpec => []TrackInv BY TrackInitSound, TrackInvKept, PTL DEF TrackSpec
<1> QED BY <1>1, TrackInvSound, PTL

-----------------------------------------------------------------------------
(* What a product costs. *)

PriceTag == [price : Prices, cut : Prices \cup {None}]
Product == [price : Prices, cut : Prices \cup {None}, window : {"none", "running", "over"},
            rows : Seq(Kinds)]

\* A product as it is, or as a page shows it: variants it has are variants that were made.
Complete(g, t) ==
    /\ g \in Product /\ g.rows # <<>> /\ IsInjective(g.rows)
    /\ t \in [Kinds -> PriceTag \cup {NoTag}]
    /\ \A v \in ToSet(g.rows) : t[v] # NoTag

\* What a page shows may be old, but no variant is unmade.
CopyHeld(c) ==
    \/ c = NoCopy
    \/ /\ c = [good |-> c.good, tags |-> c.tags] /\ Complete(c.good, c.tags)
       /\ \A v \in ToSet(c.good.rows) : tags[v] # NoTag

TagsTyped ==
    /\ tagManner \in TagManners /\ tagSaves \in 0 .. MaxTagSaves[tagManner]
    /\ Complete(good, tags)
    /\ DOMAIN copies = TagAdmins /\ \A a \in TagAdmins : CopyHeld(copies[a])

\* The visitor looks at one of the variants that were there, and of what is still so at one
\* that is there.
LookHeld ==
    /\ look \in [view : {"nowhere", "card", "page", "sheet"}, index : Nat, rows : Seq(Kinds),
                 fresh : BOOLEAN]
    /\ look.rows # <<>> => look.index \in DOMAIN look.rows
    /\ look.fresh => look.rows = good.rows /\ look.view # "nowhere"

BasketHeld ==
    /\ \/ basket = EmptyBasket
       \/ \E v \in ToSet(good.rows) : basket.id = {v}
    /\ TagIsCharge

TagInv == TagsTyped /\ LookHeld /\ BasketHeld /\ FirstCarriesDiscount

\* What is assumed of the constants of the prices.
LEMMA TagConstants ==
    /\ IsFiniteSet(Kinds) /\ None = 0 /\ \A p \in Prices : p \in Nat /\ p # 0
    /\ \A p \in Prices \cup {None} : p \in Nat
<1>1. IsFiniteSet(Kinds) /\ Prices \subseteq Nat \ {0} BY TagAssumption, Zenon DEF TagAssumption
<1>2. \A p \in Prices : p \in Nat /\ p # 0 BY <1>1
<1> QED BY <1>1, <1>2 DEF None

\* Each manner has its bound of saves.
LEMMA TagSavesBound == ASSUME NEW m \in TagManners PROVE MaxTagSaves[m] \in Nat
<1>1. MaxTagSaves \in [TagManners -> Nat] BY TagAssumption, Zenon DEF TagAssumption
<1> QED BY <1>1, Zenon

\* The elements of a list of variants.
LEMMA RowsType ==
    ASSUME NEW s \in Seq(Kinds)
    PROVE /\ ToSet(s) \subseteq Kinds
          /\ \A i \in DOMAIN s : s[i] \in ToSet(s)
          /\ s # <<>> => 1 \in DOMAIN s /\ s[1] \in ToSet(s)
<1>1. Len(s) \in Nat /\ DOMAIN s = 1 .. Len(s) /\ \A i \in 1 .. Len(s) : s[i] \in Kinds
    OBVIOUS
<1>2. s # <<>> => Len(s) # 0 OBVIOUS
<1>3. s # <<>> => 1 \in DOMAIN s BY <1>1, <1>2
<1> QED BY <1>1, <1>3 DEF ToSet

\* A variant that was made has a price.
LEMMA MadeType ==
    ASSUME NEW g, NEW t, Complete(g, t)
    PROVE /\ g.rows \in Seq(Kinds) /\ ToSet(g.rows) \subseteq Kinds
          /\ \A v \in Kinds : /\ t[v].price \in Prices \cup {0}
                              /\ t[v].cut \in Prices \cup {None}
                              /\ t[v] # NoTag <=> t[v].price # 0
          /\ \A v \in ToSet(g.rows) : t[v] \in PriceTag
          /\ g.rows[1] \in ToSet(g.rows)
<1>1. g.rows \in Seq(Kinds) BY DEF Complete, Product
<1>2. ToSet(g.rows) \subseteq Kinds /\ g.rows[1] \in ToSet(g.rows)
    BY <1>1, RowsType DEF Complete
<1>3. \A v \in Kinds : t[v] \in PriceTag \/ t[v] = NoTag BY DEF Complete
<1>4. \A x \in PriceTag : /\ x.price \in Prices /\ x.cut \in Prices \cup {None}
                          /\ x.price # 0
    BY TagConstants DEF PriceTag
<1>5. NoTag.price = 0 /\ NoTag.cut = None BY DEF NoTag
<1> QED BY <1>1, <1>2, <1>3, <1>4, <1>5 DEF Complete

\* A save of rows that the form may hold keeps the invariant.
LEMMA WriteKept ==
    ASSUME TagInv, NEW rows \in Seq(Kinds), NEW price, NEW cuts, NEW product \in Product,
           tagSaves < MaxTagSaves[tagManner], product.rows = rows, rows # <<>>,
           IsInjective(rows),
           \A v \in ToSet(rows) : price[v] \in Prices /\ cuts[v] \in Prices \cup {None},
           tagManner = "serial" =>
              /\ product.cut # None => cuts[rows[1]] = product.cut
              /\ product.cut = None => \A v \in ToSet(rows) : cuts[v] = None,
           Write(rows, price, cuts, product)
    PROVE TagInv'
<1>1. TagsTyped /\ LookHeld BY DEF TagInv
<1>2. /\ tags' = [v \in Kinds |-> IF v \in ToSet(rows)
                                  THEN [price |-> price[v], cut |-> cuts[v]] ELSE tags[v]]
      /\ good' = product /\ tagSaves' = tagSaves + 1
      /\ look' = [look EXCEPT !.fresh = FALSE] /\ basket' = EmptyBasket
      /\ tagManner' = tagManner /\ copies' = copies
    BY DEF Write
<1>3. ToSet(rows) \subseteq Kinds /\ rows[1] \in ToSet(rows) BY RowsType
<1>4. \A v \in ToSet(rows) : tags'[v] = [price |-> price[v], cut |-> cuts[v]]
    BY <1>2, <1>3
<1>5. \A v \in ToSet(rows) : tags'[v] \in PriceTag /\ tags'[v] # NoTag
    <2> SUFFICES ASSUME NEW v \in ToSet(rows) PROVE tags'[v] \in PriceTag /\ tags'[v] # NoTag
        OBVIOUS
    <2>1. price[v] \in Prices /\ cuts[v] \in Prices \cup {None} OBVIOUS
    <2>2. price[v] # 0 BY <2>1, TagConstants
    <2> HIDE DEF TagInv
    <2>3. tags'[v] = [price |-> price[v], cut |-> cuts[v]] BY <1>4
    <2>4. NoTag.price = 0 BY DEF NoTag
    <2> QED BY <2>1, <2>2, <2>3, <2>4 DEF PriceTag
<1>6. \A v \in Kinds : tags[v] \in PriceTag \cup {NoTag} BY <1>1 DEF TagsTyped, Complete
<1>7. tags' \in [Kinds -> PriceTag \cup {NoTag}]
      /\ \A v \in Kinds : tags[v] # NoTag => tags'[v] # NoTag
    <2>1. \A v \in Kinds : v \notin ToSet(rows) => tags'[v] = tags[v] BY <1>2
    <2>2. \A v \in Kinds : tags'[v] \in PriceTag \cup {NoTag} BY <1>5, <1>6, <2>1
    <2>3. tags' = [v \in Kinds |-> tags'[v]] BY <1>2
    <2> QED BY <1>5, <2>1, <2>2, <2>3
<1>8. Complete(good, tags)' BY <1>2, <1>5, <1>7 DEF Complete
<1>9. tagSaves' \in 0 .. MaxTagSaves[tagManner']
    <2>1. MaxTagSaves[tagManner] \in Nat BY <1>1, TagSavesBound DEF TagsTyped
    <2> QED BY <1>1, <1>2, <2>1 DEF TagsTyped
<1>10. \A a \in TagAdmins : CopyHeld(copies[a])'
    <2> SUFFICES ASSUME NEW a \in TagAdmins PROVE CopyHeld(copies[a])' OBVIOUS
    <2>1. CopyHeld(copies[a]) BY <1>1 DEF TagsTyped
    <2>2. CASE copies[a] = NoCopy BY <1>2, <2>2 DEF CopyHeld
    <2>3. CASE copies[a] # NoCopy
        <3>1. ToSet(copies[a].good.rows) \subseteq Kinds BY <2>1, <2>3, MadeType DEF CopyHeld
        <3> QED BY <1>2, <1>7, <2>1, <2>3, <3>1 DEF CopyHeld
    <2> QED BY <2>2, <2>3
<1>11. TagsTyped' BY <1>1, <1>2, <1>8, <1>9, <1>10 DEF TagsTyped
<1>12. LookHeld'
    <2>1. /\ look' \in [view : {"nowhere", "card", "page", "sheet"}, index : Nat,
                        rows : Seq(Kinds), fresh : BOOLEAN]
          /\ look'.rows = look.rows /\ look'.index = look.index /\ look'.fresh = FALSE
        BY <1>1, <1>2 DEF LookHeld
    <2> QED BY <1>1, <2>1 DEF LookHeld
<1>13. BasketHeld' BY <1>2 DEF BasketHeld, TagIsCharge, EmptyBasket
<1>14. FirstCarriesDiscount' BY <1>2, <1>3, <1>4 DEF FirstCarriesDiscount
<1> QED BY <1>11, <1>12, <1>13, <1>14 DEF TagInv

\* A page loads the product as it is.
LEMMA LoadProductsKept == ASSUME NEW a \in TagAdmins, TagInv, LoadProducts(a) PROVE TagInv'
<1>1. TagsTyped /\ LookHeld /\ BasketHeld /\ FirstCarriesDiscount BY DEF TagInv
<1>2. copies' = [copies EXCEPT ![a] = Now]
      /\ UNCHANGED <<tagManner, good, tags, look, basket, tagSaves>>
    BY DEF LoadProducts
<1>3. DOMAIN copies' = TagAdmins /\ \A b \in TagAdmins : copies'[b] \in {copies[b], Now}
    BY <1>1, <1>2 DEF TagsTyped
<1>4. CopyHeld(Now)
    <2>1. Now = [good |-> Now.good, tags |-> Now.tags] /\ Now.good = good /\ Now.tags = tags
        BY DEF Now
    <2> QED BY <1>1, <2>1 DEF CopyHeld, TagsTyped, Complete
<1>5. \A b \in TagAdmins : CopyHeld(copies[b])'
    <2> SUFFICES ASSUME NEW b \in TagAdmins PROVE CopyHeld(copies[b])' OBVIOUS
    <2>1. CopyHeld(copies'[b]) BY <1>1, <1>3, <1>4 DEF TagsTyped
    <2> QED BY <1>2, <2>1 DEF CopyHeld
<1>6. TagsTyped' BY <1>1, <1>2, <1>3, <1>5 DEF TagsTyped
<1>7. LookHeld' BY <1>1, <1>2 DEF LookHeld
<1>8. BasketHeld' BY <1>1, <1>2 DEF BasketHeld, TagIsCharge, Sensible, Charged
<1>9. FirstCarriesDiscount' BY <1>1, <1>2 DEF FirstCarriesDiscount
<1> QED BY <1>6, <1>7, <1>8, <1>9 DEF TagInv

\* A form holds variants once each, and a new one at most is not among those of the page.
LEMMA FormRowsType ==
    ASSUME NEW c, TagsTyped, CopyHeld(c), c # NoCopy, NEW rows \in FormRows(c)
    PROVE rows \in Seq(Kinds) /\ rows # <<>> /\ IsInjective(rows)
<1>1. /\ c.good.rows \in Seq(Kinds) /\ IsInjective(c.good.rows)
      /\ \A v \in ToSet(c.good.rows) : tags[v] # NoTag
    BY MadeType DEF CopyHeld, Complete
<1> DEFINE sifts == {Sifted(c.good.rows, s) : s \in SUBSET ToSet(c.good.rows)}
           fresh == {v \in Kinds : tags[v] = NoTag}
<1>2. rows # <<>> /\ rows \in sifts \cup {Append(k, v) : k \in sifts, v \in fresh}
    BY DEF FormRows
<1>3. \A k \in sifts : /\ k \in Seq(Kinds) /\ IsInjective(k)
                       /\ ToSet(k) \subseteq ToSet(c.good.rows)
    <2> SUFFICES ASSUME NEW s \in SUBSET ToSet(c.good.rows)
                 PROVE LET k == Sifted(c.good.rows, s) IN
                        /\ k \in Seq(Kinds) /\ IsInjective(k)
                        /\ ToSet(k) \subseteq ToSet(c.good.rows)
        OBVIOUS
    <2> QED BY <1>1, SiftedElements
<1>4. CASE rows \in sifts BY <1>2, <1>3, <1>4
<1>5. CASE rows \notin sifts
    <2>1. PICK k \in sifts, v \in fresh : rows = Append(k, v) BY <1>2, <1>5
    <2> HIDE DEF sifts
    <2>2. k \in Seq(Kinds) /\ v \in Kinds /\ v \notin ToSet(k) BY <1>1, <1>3
    <2>3. rows \in Seq(Kinds) BY <2>1, <2>2
    <2> QED BY <1>2, <1>3, <2>1, <2>2, <2>3, AppendElements
<1> QED BY <1>4, <1>5

\* A form is saved.
LEMMA SaveFormKept == ASSUME NEW a \in TagAdmins, TagInv, SaveForm(a) PROVE TagInv'
<1> DEFINE c == copies[a]
<1>1. TagsTyped BY DEF TagInv
<1>2. /\ c # NoCopy /\ tagSaves < MaxTagSaves[tagManner] /\ CopyHeld(c)
    BY <1>1 DEF SaveForm, MayWrite, TagsTyped
<1>3. PICK rows \in FormRows(c), p \in Prices, q \in Prices, cut \in Prices \cup {None},
           window \in {"none", "running", c.good.window} :
          /\ cut < p
          /\ \E typed \in ToSet(rows) :
                LET price == [v \in Kinds |-> IF v = typed THEN q ELSE c.tags[v].price]
                IN /\ \A v \in ToSet(rows) : price[v] # 0
                   /\ Write(rows, price,
                            [v \in Kinds |->
                                FormCut(IF v = rows[1] THEN 1 ELSE 2, cut, tags[v].cut)],
                            [price |-> p, cut |-> cut, window |-> window, rows |-> rows])
    BY DEF SaveForm
<1>4. rows \in Seq(Kinds) /\ rows # <<>> /\ IsInjective(rows) BY <1>1, <1>2, FormRowsType
<1>5. ToSet(rows) \subseteq Kinds /\ rows[1] \in ToSet(rows) BY <1>4, RowsType
<1>6. PICK typed \in ToSet(rows) :
          LET price == [v \in Kinds |-> IF v = typed THEN q ELSE c.tags[v].price]
          IN /\ \A v \in ToSet(rows) : price[v] # 0
             /\ Write(rows, price,
                      [v \in Kinds |->
                          FormCut(IF v = rows[1] THEN 1 ELSE 2, cut, tags[v].cut)],
                      [price |-> p, cut |-> cut, window |-> window, rows |-> rows])
    BY <1>3
<1> DEFINE price == [v \in Kinds |-> IF v = typed THEN q ELSE c.tags[v].price]
           cuts == [v \in Kinds |-> FormCut(IF v = rows[1] THEN 1 ELSE 2, cut, tags[v].cut)]
           product == [price |-> p, cut |-> cut, window |-> window, rows |-> rows]
<1>7. Write(rows, price, cuts, product) /\ \A v \in ToSet(rows) : price[v] # 0 BY <1>6
<1>8. Complete(c.good, c.tags) BY <1>2 DEF CopyHeld
<1>9. \A v \in ToSet(rows) : price[v] \in Prices
    <2>1. \A v \in Kinds : c.tags[v].price \in Prices \cup {0} BY <1>8, MadeType
    <2>2. \A v \in ToSet(rows) : price[v] \in Prices \cup {0} BY <1>5, <2>1
    <2> QED BY <1>7, <2>2
<1>10. \A v \in ToSet(rows) : /\ cuts[v] \in Prices \cup {None}
                              /\ cut = None => cuts[v] = None
                              /\ v = rows[1] => cuts[v] = cut
    <2>1. \A v \in Kinds : tags[v].cut \in Prices \cup {None}
        BY <1>1, MadeType DEF TagsTyped
    <2>2. \A v \in Kinds : cuts[v] = FormCut(IF v = rows[1] THEN 1 ELSE 2, cut, tags[v].cut)
        OBVIOUS
    <2> QED BY <1>5, <2>1, <2>2 DEF FormCut
<1>11. product \in Product /\ product.rows = rows /\ product.cut = cut
    <2>1. c.good.window \in {"none", "running", "over"} BY <1>8 DEF Complete, Product
    <2> QED BY <1>4, <2>1 DEF Product
<1> HIDE DEF price, cuts, product
<1>12. tagManner = "serial" =>
          /\ product.cut # None => cuts[rows[1]] = product.cut
          /\ product.cut = None => \A v \in ToSet(rows) : cuts[v] = None
    BY <1>5, <1>10, <1>11
<1>13. \A v \in ToSet(rows) : price[v] \in Prices /\ cuts[v] \in Prices \cup {None}
    BY <1>9, <1>10
<1> QED BY <1>2, <1>4, <1>7, <1>11, <1>12, <1>13, WriteKept

\* The stock is patched, with prices the page knows.
LEMMA PatchStockKept == ASSUME NEW a \in TagAdmins, TagInv, PatchStock(a) PROVE TagInv'
<1> DEFINE c == copies[a]
           rows == c.good.rows
           price == [v \in Kinds |-> c.tags[v].price]
           cuts == [v \in Kinds |-> IF c.tags[v].cut # None THEN c.tags[v].cut ELSE tags[v].cut]
           product == [good EXCEPT !.price = c.good.price, !.rows = c.good.rows]
<1>1. TagsTyped BY DEF TagInv
<1>2. c # NoCopy /\ tagSaves < MaxTagSaves[tagManner] /\ CopyHeld(c)
    BY <1>1 DEF PatchStock, MayWrite, TagsTyped
<1>3. Write(rows, price, cuts, product) BY DEF PatchStock
<1>4. Complete(c.good, c.tags) BY <1>2 DEF CopyHeld
<1>5. rows \in Seq(Kinds) /\ rows # <<>> /\ IsInjective(rows) /\ ToSet(rows) \subseteq Kinds
      /\ rows[1] \in ToSet(rows)
    BY <1>4, MadeType DEF Complete
<1>6. \A v \in ToSet(rows) : price[v] \in Prices /\ cuts[v] \in Prices \cup {None}
    <2>1. \A v \in ToSet(rows) : c.tags[v].price \in Prices
                                 /\ c.tags[v].cut \in Prices \cup {None}
        BY <1>4, MadeType DEF PriceTag
    <2>2. \A v \in Kinds : tags[v].cut \in Prices \cup {None}
        BY <1>1, MadeType DEF TagsTyped
    <2> QED BY <1>5, <2>1, <2>2
<1>7. product \in Product /\ product.rows = rows /\ product.cut = good.cut
    <2>1. good \in Product /\ c.good \in Product BY <1>1, <1>4 DEF TagsTyped, Complete
    <2> QED BY <2>1 DEF Product
<1>8. tagManner = "serial" =>
          /\ product.cut # None => cuts[rows[1]] = product.cut
          /\ product.cut = None => \A v \in ToSet(rows) : cuts[v] = None
    <2> SUFFICES ASSUME tagManner = "serial"
                 PROVE /\ product.cut # None => cuts[rows[1]] = product.cut
                       /\ product.cut = None => \A v \in ToSet(rows) : cuts[v] = None
        OBVIOUS
    <2>1. c = Now BY DEF PatchStock, MayWrite
    <2>2. c.good = good /\ c.tags = tags BY <2>1 DEF Now
    <2>3. \A v \in ToSet(rows) : cuts[v] = tags[v].cut BY <1>5, <2>2
    <2>4. /\ good.cut # None => tags[good.rows[1]].cut = good.cut
          /\ good.cut = None => \A v \in ToSet(good.rows) : tags[v].cut = None
        BY DEF TagInv, FirstCarriesDiscount
    <2> QED BY <1>5, <1>7, <2>2, <2>3, <2>4
<1> HIDE DEF rows, price, cuts, product
<1> QED BY <1>2, <1>3, <1>5, <1>6, <1>7, <1>8, WriteKept

\* The promotion ends.
LEMMA WindowClosesKept == ASSUME TagInv, WindowCloses PROVE TagInv'
<1>1. TagsTyped /\ LookHeld /\ BasketHeld /\ FirstCarriesDiscount BY DEF TagInv
<1>2. good' = [good EXCEPT !.window = "over"]
      /\ UNCHANGED <<tagManner, tags, copies, look, basket, tagSaves>>
    BY DEF WindowCloses
<1>3. good' \in Product /\ good'.rows = good.rows /\ good'.cut = good.cut
    BY <1>1, <1>2 DEF TagsTyped, Complete, Product
<1>4. TagsTyped' BY <1>1, <1>2, <1>3 DEF TagsTyped, Complete, CopyHeld
<1>5. LookHeld' BY <1>1, <1>2, <1>3 DEF LookHeld
<1>6. BasketHeld' BY <1>1, <1>2, <1>3 DEF BasketHeld, TagIsCharge, Sensible, Charged
<1>7. FirstCarriesDiscount' BY <1>1, <1>2, <1>3 DEF FirstCarriesDiscount
<1> QED BY <1>4, <1>5, <1>6, <1>7 DEF TagInv

\* The visitor looks elsewhere, and nothing else changes.
LEMMA LooksKept ==
    ASSUME TagInv, LookHeld', UNCHANGED <<tagManner, good, tags, copies, basket, tagSaves>>
    PROVE TagInv'
<1>1. TagsTyped /\ BasketHeld /\ FirstCarriesDiscount BY DEF TagInv
<1>2. TagsTyped' BY <1>1 DEF TagsTyped, Complete, CopyHeld
<1>3. BasketHeld' BY <1>1 DEF BasketHeld, TagIsCharge, Sensible, Charged
<1>4. FirstCarriesDiscount' BY <1>1 DEF FirstCarriesDiscount
<1> QED BY <1>2, <1>3, <1>4 DEF TagInv

\* The visitor fetches the product anew.
LEMMA FetchKept == ASSUME NEW where \in {"card", "page"}, TagInv, Fetch(where) PROVE TagInv'
<1> DEFINE n == IF {where, look.view} = {"card"} /\ look.rows = good.rows
                THEN look.index ELSE 1
<1>1. look' = [view |-> where, rows |-> good.rows, fresh |-> TRUE, index |-> n]
      /\ UNCHANGED <<tagManner, good, tags, copies, basket, tagSaves>>
    BY DEF Fetch
<1>2. good.rows \in Seq(Kinds) /\ good.rows # <<>>
    BY DEF TagInv, TagsTyped, Complete, Product
<1>3. n \in DOMAIN good.rows /\ n \in Nat
    <2>1. 1 \in DOMAIN good.rows /\ DOMAIN good.rows \subseteq Nat BY <1>2, RowsType
    <2>2. look.rows # <<>> => look.index \in DOMAIN look.rows BY DEF TagInv, LookHeld
    <2> QED BY <1>2, <2>1, <2>2
<1> HIDE DEF n
<1>4. LookHeld' BY <1>1, <1>2, <1>3 DEF LookHeld
<1> QED BY <1>1, <1>4, LooksKept

\* The visitor turns to another variant.
LEMMA TurnToKept == ASSUME NEW i, TagInv, TurnTo(i) PROVE TagInv'
<1>1. LookHeld BY DEF TagInv
<1>2. look.fresh /\ i \in DOMAIN look.rows /\ look' = [look EXCEPT !.index = i]
      /\ UNCHANGED <<tagManner, good, tags, copies, basket, tagSaves>>
    BY DEF TurnTo
<1>3. i \in Nat BY <1>1, <1>2 DEF LookHeld
<1>4. LookHeld' BY <1>1, <1>2, <1>3 DEF LookHeld
<1> QED BY <1>2, <1>4, LooksKept

\* The sheet opens over the card.
LEMMA OpenSheetKept == ASSUME TagInv, OpenSheet PROVE TagInv'
<1>1. LookHeld /\ good.rows \in Seq(Kinds) /\ good.rows # <<>>
    BY DEF TagInv, TagsTyped, Complete, Product
<1>2. look.fresh /\ look' = [look EXCEPT !.view = "sheet", !.index = 1]
      /\ UNCHANGED <<tagManner, good, tags, copies, basket, tagSaves>>
    BY DEF OpenSheet
<1>3. 1 \in DOMAIN good.rows BY <1>1, RowsType
<1>4. LookHeld' BY <1>1, <1>2, <1>3 DEF LookHeld
<1> QED BY <1>2, <1>4, LooksKept

\* What is shown of a variant is what it is charged, where the discounts make sense.
LEMMA ShownIsCharged ==
    ASSUME TagsTyped, FirstCarriesDiscount, Sensible, NEW v \in ToSet(good.rows)
    PROVE /\ PagePrice(v) = Charged(v)
          /\ tagManner = "serial" /\ v = good.rows[1] => CardPrice(v) = Charged(v)
<1>1. tags[v] \in PriceTag BY MadeType DEF TagsTyped
<1>2. tags[v].price \in Nat /\ tags[v].cut \in Nat /\ None = 0
    BY <1>1, TagConstants DEF PriceTag
<1>3. tags[v].cut # None => tags[v].cut < tags[v].price BY DEF Sensible
<1>4. PagePrice(v) = Charged(v) BY <1>3 DEF PagePrice, Cheaper, Charged
<1>5. ASSUME tagManner = "serial", v = good.rows[1] PROVE CardPrice(v) = PagePrice(v)
    <2>1. good.cut # None => tags[v].cut = good.cut BY <1>5 DEF FirstCarriesDiscount
    <2>2. CASE good.cut = None BY <2>2 DEF CardPrice, Cheaper
    <2>3. CASE good.cut # None
        <3>1. PagePrice(v) = tags[v].cut /\ tags[v].cut # tags[v].price
            BY <1>2, <1>3, <2>1, <2>3 DEF PagePrice, Cheaper
        <3> QED BY <3>1 DEF CardPrice
    <2> QED BY <2>2, <2>3
<1> QED BY <1>4, <1>5

\* A variant is put into the cart, and what was shown for it is remembered.
LEMMA TapKept == ASSUME TagInv, Tap PROVE TagInv'
<1> DEFINE v == Adds
<1>1. TagsTyped /\ LookHeld /\ BasketHeld /\ FirstCarriesDiscount BY DEF TagInv
<1>2. /\ look.fresh /\ v \in ToSet(good.rows)
      /\ basket' = [id |-> {v}, from |-> look,
                    shown |-> Shown(look.view, look.rows[look.index])]
      /\ UNCHANGED <<tagManner, good, tags, copies, look, tagSaves>>
    BY DEF Tap
<1>3. look.rows = good.rows /\ look.view \in {"card", "page", "sheet"}
    BY <1>1, <1>2 DEF LookHeld
<1>4. ASSUME Sensible, look.view = "page" \/ (tagManner = "serial" /\ look.index = 1)
      PROVE Charged(v) = Shown(look.view, look.rows[look.index])
    <2>1. CASE look.view = "page"
        <3>1. v = look.rows[look.index] BY <2>1 DEF Adds
        <3>2. PagePrice(v) = Charged(v) BY <1>1, <1>2, <1>4, ShownIsCharged
        <3> QED BY <2>1, <3>1, <3>2 DEF Shown
    <2>2. CASE look.view # "page"
        <3>1. v = look.rows[1] /\ look.index = 1 /\ tagManner = "serial"
            BY <1>4, <2>2 DEF Adds, SheetAdds
        <3>2. v = good.rows[1] BY <1>3, <3>1
        <3>3. CardPrice(v) = Charged(v) BY <1>1, <1>2, <1>4, <3>1, <3>2, ShownIsCharged
        <3>4. Shown(look.view, v) = CardPrice(v) BY <1>3, <2>2 DEF Shown, SheetPrice
        <3> QED BY <3>1, <3>3, <3>4
    <2> QED BY <2>1, <2>2
<1> HIDE DEF v
<1>5. basket'.id = {v} /\ basket'.from = look
      /\ basket'.shown = Shown(look.view, look.rows[look.index])
    BY <1>2
<1>6. TagIsCharge' BY <1>2, <1>4, <1>5 DEF TagIsCharge, Sensible, Charged
<1>7. BasketHeld' BY <1>2, <1>5, <1>6 DEF BasketHeld
<1>8. TagsTyped' BY <1>1, <1>2 DEF TagsTyped, Complete, CopyHeld
<1>9. LookHeld' BY <1>1, <1>2 DEF LookHeld
<1>10. FirstCarriesDiscount' BY <1>1, <1>2 DEF FirstCarriesDiscount
<1> QED BY <1>7, <1>8, <1>9, <1>10 DEF TagInv

\* One variant without discount, and nobody who looks at it yet.
LEMMA TagBegin == TagInit => TagInv
<1> SUFFICES ASSUME TagInit PROVE TagInv OBVIOUS
<1>1. PICK v \in Kinds, p \in Prices :
          /\ good = [price |-> p, cut |-> None, window |-> "none", rows |-> <<v>>]
          /\ tags = [k \in Kinds |-> IF k = v THEN [price |-> p, cut |-> None] ELSE NoTag]
    BY DEF TagInit
<1>2. /\ tagManner \in TagManners /\ copies = [a \in TagAdmins |-> NoCopy]
      /\ look = Nowhere /\ basket = EmptyBasket /\ tagSaves = 0
    BY DEF TagInit
<1> DEFINE one == <<v>>
<1>3. one \in Seq(Kinds) /\ one # <<>> /\ DOMAIN one = {1} /\ one[1] = v OBVIOUS
<1> HIDE DEF one
<1>4. IsInjective(one) /\ ToSet(one) = {v} BY <1>3 DEF IsInjective, ToSet
<1>5. good \in Product /\ good.rows = one /\ good.cut = None BY <1>1, <1>3 DEF Product, one
<1>6. tags \in [Kinds -> PriceTag \cup {NoTag}] BY <1>1 DEF PriceTag
<1>7. tags[v] # NoTag /\ tags[v].cut = None
    <2>1. tags[v] = [price |-> p, cut |-> None] BY <1>1
    <2> QED BY <2>1, TagConstants DEF NoTag
<1>8. Complete(good, tags) BY <1>3, <1>4, <1>5, <1>6, <1>7 DEF Complete
<1>9. tagSaves \in 0 .. MaxTagSaves[tagManner] BY <1>2, TagSavesBound
<1>10. TagsTyped BY <1>2, <1>8, <1>9 DEF TagsTyped, CopyHeld
<1>11. LookHeld
    <2>1. <<>> \in Seq(Kinds) OBVIOUS
    <2> QED BY <1>2, <2>1 DEF LookHeld, Nowhere
<1>12. BasketHeld BY <1>2 DEF BasketHeld, TagIsCharge, EmptyBasket
<1>13. FirstCarriesDiscount BY <1>4, <1>5, <1>7 DEF FirstCarriesDiscount
<1> QED BY <1>10, <1>11, <1>12, <1>13 DEF TagInv

\* Every step of the admins and the visitor keeps the invariant.
LEMMA TagStep == TagInv /\ [TagNext]_tagVars => TagInv'
<1> SUFFICES ASSUME TagInv, [TagNext]_tagVars PROVE TagInv' OBVIOUS
<1>1. CASE \E a \in TagAdmins : LoadProducts(a) BY <1>1, LoadProductsKept
<1>2. CASE \E a \in TagAdmins : SaveForm(a) BY <1>2, SaveFormKept
<1>3. CASE \E a \in TagAdmins : PatchStock(a) BY <1>3, PatchStockKept
<1>4. CASE WindowCloses BY <1>4, WindowClosesKept
<1>5. CASE \E where \in {"card", "page"} : Fetch(where) BY <1>5, FetchKept
<1>6. CASE \E i \in 1 .. Cardinality(Kinds) : TurnTo(i) BY <1>6, TurnToKept
<1>7. CASE OpenSheet BY <1>7, OpenSheetKept
<1>8. CASE Tap BY <1>8, TapKept
<1>9. CASE UNCHANGED tagVars
    <2>1. UNCHANGED <<tagManner, good, tags, copies, look, basket, tagSaves>>
        BY <1>9 DEF tagVars
    <2>2. LookHeld' BY <2>1 DEF TagInv, LookHeld
    <2> QED BY <2>1, <2>2, LooksKept
<1> QED BY <1>1, <1>2, <1>3, <1>4, <1>5, <1>6, <1>7, <1>8, <1>9 DEF TagNext

\* The lowest of the discounts is one of them.
LEMMA LowestSale == ASSUME TagsTyped, Sales # {} PROVE Effective \in Sales
<1>1. good.cut \in Nat BY TagConstants DEF TagsTyped, Complete, Product
<1>2. \A v \in ToSet(good.rows) : tags[v].cut \in Nat
    BY MadeType, TagConstants DEF TagsTyped, PriceTag
<1>3. Sales \in SUBSET Nat BY <1>1, <1>2 DEF Sales
<1>4. \E m \in Sales : \A k \in Sales : m <= k BY <1>3, LeastNatural
<1> QED BY <1>4 DEF Effective, Min

\* The invariant says what the property asks.
LEMMA TagImplied == TagInv => TagsSound
<1> SUFFICES ASSUME TagInv PROVE TagsSound OBVIOUS
<1>1. TagsTyped /\ BasketHeld /\ FirstCarriesDiscount BY DEF TagInv
<1>2. TagTypeOK
    <2>1. \A v \in Kinds : tags[v] # NoTag =>
              tags[v].price \in Prices /\ tags[v].cut \in Prices \cup {None}
        BY <1>1 DEF TagsTyped, Complete, PriceTag
    <2>2. basket.id \subseteq Kinds /\ Cardinality(basket.id) <= 1
        <3>1. CASE basket = EmptyBasket BY <3>1, FS_EmptySet DEF EmptyBasket
        <3>2. CASE basket # EmptyBasket
            <4>1. PICK v \in ToSet(good.rows) : basket.id = {v} BY <1>1, <3>2 DEF BasketHeld
            <4>2. v \in Kinds BY <1>1, MadeType DEF TagsTyped
            <4>3. Cardinality({v}) = 1 BY FS_Singleton
            <4> QED BY <4>1, <4>2, <4>3
        <3> QED BY <3>1, <3>2
    <2> QED BY <1>1, <2>1, <2>2 DEF TagTypeOK, TagsTyped, Complete, Product
<1>3. AdvertisedIsCharged
    <2> SUFFICES ASSUME tagManner = "serial", Sales # {}
                 PROVE \E v \in ToSet(good.rows) : Charged(v) = Effective
        BY DEF AdvertisedIsCharged
    <2>1. Effective \in Sales BY <1>1, LowestSale
    <2>2. CASE Effective = good.cut /\ good.cut # None
        <3>1. good.rows[1] \in ToSet(good.rows) BY <1>1, MadeType DEF TagsTyped
        <3>2. tags[good.rows[1]].cut = good.cut BY <1>1, <2>2 DEF FirstCarriesDiscount
        <3> QED BY <2>2, <3>1, <3>2 DEF Charged
    <2>3. CASE \E v \in ToSet(good.rows) : Effective = tags[v].cut /\ tags[v].cut # None
        BY <2>3 DEF Charged
    <2> QED BY <2>1, <2>2, <2>3 DEF Sales, Cheaper
<1> QED BY <1>1, <1>2, <1>3 DEF TagsSound, BasketHeld

\* Whatever the admins save, patch and take off, and wherever the visitor looks: a line is
\* charged what was shown where it was put into the cart, and if every save is made from what
\* the product is, what the promotions advertise is charged for one of its variants
\* (products.service.ts, product-card.tsx, product-sheet-content.tsx, orders.service.ts).
THEOREM ShownIsWhatIsCharged == TagSpec => []TagsSound
<1>1. TagInit => TagInv BY TagBegin
<1>2. TagInv /\ [TagNext]_tagVars => TagInv' BY TagStep
<1>3. TagInv => TagsSound BY TagImplied
<1> QED BY <1>1, <1>2, <1>3, PTL DEF TagSpec


-----------------------------------------------------------------------------
(* The editing of products: what is kept *)

Answer == {"yes", "no", "same"}
RowState == [stock : Nat, sale : Answer]
SentRows == UNION {[S -> RowState] : S \in SUBSET Ids}
VariantState == [state : {"none", "active", "inactive"}, stock : Nat, sale : BOOLEAN]
ProductState == [state : {"none", "active", "removed"}, top : BOOLEAN, total : Nat,
                 sale : BOOLEAN]
OneGood == {{p} : p \in Goods}
PatchSteps == {"sent", "read", "written", "weighed"}
PatchState == [step : PatchSteps, kind : {"create", "edit"}, of : OneGood, rows : SentRows,
               new : SUBSET RowState, total : Nat, top : Answer, sale : Answer,
               seen : ProductState, wrote : [Ids -> VariantState]]
BulkState == [step : {"bulk"}, kind : {"bulk"}, of : SUBSET Goods, left : SUBSET Goods,
              top : Answer, seen : SUBSET Goods, wrote : SUBSET Goods]
RemovalState == [step : {"removing"}, of : OneGood]
RequestState == PatchState \cup BulkState \cup RemovalState \cup {NoRequest}

ProductTyped ==
    /\ clerkManner \in ClerkManners
    /\ productRow \in [Goods -> ProductState]
    /\ variantRow \in [Goods -> [Ids -> VariantState]]
    /\ logged \in [Goods -> Int]
    /\ request \in [Clerks -> RequestState]
    /\ requests \in 0 .. MaxRequests[clerkManner]

Out == {c \in Clerks : request[c] # NoRequest}
\* Request r patches p, and holds the variants of p.
Patches(r, p) == r.step \in PatchSteps /\ r.of = {p}
Holding(r, p) == Patches(r, p) /\ r.step \in {"written", "weighed"}
MadeBy(wrote) == {v \in Ids : wrote[v].state # "none"}

\* Whatever overlaps: a variant can still be made by each request that is out; a patch has a
\* variant to offer and makes one at most; it holds the variants of its product alone; and
\* what is to be removed is there.
RoomForVariants == \A p \in Goods : Cardinality(Made(p)) + Cardinality(Out) <= 1 + requests
PatchFits(r) ==
    \A p \in Goods :
        /\ Patches(r, p) =>
              IF Holding(r, p)
              THEN /\ \E v \in Ids : r.wrote[v].state = "active"
                   /\ Made(p) \subseteq MadeBy(r.wrote)
                   /\ \E x \in Ids : MadeBy(r.wrote) \subseteq Made(p) \cup {x}
              ELSE /\ DOMAIN r.rows # {} \/ r.new # {}
                   /\ DOMAIN r.rows \subseteq Made(p)
        /\ r.step = "removing" /\ r.of = {p} => productRow[p].state # "none"
HeldAlone ==
    \A c, d \in Clerks, p \in Goods : Holding(request[c], p) /\ Holding(request[d], p) => c = d

\* Requests in turn: what one has read is still so, ...
SeenIsNow(r) == \A p \in Goods : Patches(r, p) /\ r.step # "sent" => r.seen = productRow[p]
\* ... a product that it puts on top has its place there, ...
PlaceOnTop(r) ==
    /\ \A p \in Goods : Patches(r, p) /\ r.step = "weighed" /\ r.top = "yes" =>
          productRow[p].top \/ Cardinality(Tops) < TopMax
    /\ r.step = "bulk" =>
          /\ r.seen \cup r.left \subseteq r.of
          /\ IF r.top = "yes" THEN r.wrote \subseteq r.of /\ Cardinality(Tops \cup r.of) <= TopMax
             ELSE r.wrote \subseteq Tops
\* ... and its rows have no discount when the product will have none.
RowsWithoutSale(r, p) ==
    (r.kind # "edit" \/ r.sale # "no") =>
        /\ \A v \in DOMAIN r.rows : \/ r.rows[v].sale = "no"
                                    \/ r.rows[v].sale = "same" /\ ~variantRow[p][v].sale
        /\ \A w \in r.new : w.sale = "no"
SaleFits(r) ==
    \A p \in Goods :
        Patches(r, p) /\ ~Flag(r.sale, productRow[p].sale) =>
            IF Holding(r, p)
            THEN \A v \in Ids : r.wrote[v].state = "active" => ~r.wrote[v].sale
            ELSE RowsWithoutSale(r, p)
TurnFits(r) == SeenIsNow(r) /\ PlaceOnTop(r) /\ SaleFits(r)

EditsInTurn ==
    clerkManner = "serial" =>
        (\A c, d \in Out : c = d) /\ \A c \in Clerks : TurnFits(request[c])
ProductInv ==
    /\ ProductTyped /\ RoomForVariants /\ HeldAlone /\ EditsInTurn
    /\ \A c \in Clerks : PatchFits(request[c])
    /\ TopWithinLimit /\ LogIsTotal /\ SaleReachesVariants /\ SomeVariantOffered

-----------------------------------------------------------------------------
(* Sets and sums *)

LEMMA ProductSets ==
    ASSUME ProductTyped
    PROVE /\ IsFiniteSet(Ids) /\ Cardinality(Ids) = MaxVariants
          /\ IsFiniteSet(Out) /\ Cardinality(Out) \in Nat
          /\ IsFiniteSet(Tops) /\ Cardinality(Tops) \in Nat
          /\ \A p \in Goods : IsFiniteSet(Made(p)) /\ Cardinality(Made(p)) \in Nat
                              /\ IsFiniteSet(Offered(p))
          /\ requests \in Nat /\ requests < MaxVariants /\ MaxVariants \in Nat /\ TopMax \in Nat
<1>1. IsFiniteSet(Ids) /\ Cardinality(Ids) = MaxVariants
    <2>1. MaxVariants \in Nat BY ProductAssumption
    <2>2. 1 \in Int /\ MaxVariants \in Int BY <2>1
    <2>3. IsFiniteSet(1 .. MaxVariants) BY <2>2, FS_Interval
    <2>4. Cardinality(1 .. MaxVariants) = IF 1 > MaxVariants THEN 0 ELSE MaxVariants - 1 + 1
        BY <2>2, FS_Interval
    <2>5. Cardinality(1 .. MaxVariants) = MaxVariants BY <2>1, <2>4
    <2> QED BY <2>3, <2>5 DEF Ids
<1>2. IsFiniteSet(Out) /\ Cardinality(Out) \in Nat
    <2>1. IsFiniteSet(Clerks) BY ProductAssumption
    <2>2. Out \subseteq Clerks BY DEF Out
    <2> QED BY <2>1, <2>2, FS_Subset, FS_CardinalityType
<1>3. IsFiniteSet(Tops) /\ Cardinality(Tops) \in Nat
    <2>1. IsFiniteSet(Goods) BY ProductAssumption
    <2>2. Tops \subseteq Goods BY DEF Tops
    <2> QED BY <2>1, <2>2, FS_Subset, FS_CardinalityType
<1>4. ASSUME NEW p \in Goods
      PROVE IsFiniteSet(Made(p)) /\ Cardinality(Made(p)) \in Nat /\ IsFiniteSet(Offered(p))
    <2>1. Made(p) \subseteq Ids /\ Offered(p) \subseteq Ids BY DEF Made, Offered
    <2> QED BY <1>1, <2>1, FS_Subset, FS_CardinalityType
<1>5. requests \in Nat /\ requests < MaxVariants /\ MaxVariants \in Nat /\ TopMax \in Nat
    <2>1. MaxRequests[clerkManner] \in 0 .. MaxVariants - 1 /\ MaxVariants \in Nat /\ TopMax \in Nat
        BY ProductAssumption DEF ProductTyped
    <2>2. requests \in 0 .. MaxRequests[clerkManner] BY DEF ProductTyped
    <2> QED BY <2>1, <2>2
<1> QED BY <1>1, <1>2, <1>3, <1>4, <1>5

LEMMA SumOfNat ==
    ASSUME NEW rows, IsFiniteSet(DOMAIN rows), \A v \in DOMAIN rows : rows[v].stock \in Nat
    PROVE SumOf(rows) \in Nat
<1> DEFINE S == DOMAIN rows
           f == [v \in S |-> rows[v].stock]
           ch == Chooser(S)
           eq(it) == it = [s \in SUBSET S |-> IF s = {} THEN 0
                 ELSE rows[CHOOSE x \in s : TRUE].stock + it[s \ {CHOOSE x \in s : TRUE}]]
           it0 == CHOOSE it : eq(it)
<1>1. \A s \in SUBSET S : s # {} =>
          ch[s] = (CHOOSE x \in s : TRUE) /\ f[ch[s]] = rows[CHOOSE x \in s : TRUE].stock
    BY DEF Chooser
<1>2. ASSUME NEW it PROVE Sums(it, f, ch, S) <=> eq(it)
    <2> HIDE DEF f, ch
    <2> QED BY <1>1 DEF Sums, SumsOver
<1>3. SumOf(rows) = it0[S]
    BY DEF SumOf, MapThenSumSet, MapThenFoldSet
<1>4. \A x \in S : f[x] \in Nat /\ f[x] \in Int OBVIOUS
<1>5. Chooses(ch, S) BY ChooserChooses
<1>f. IsFiniteSet(S) OBVIOUS
<1> HIDE DEF f, ch, eq, S
<1>6. PICK it : Sums(it, f, ch, S) BY <1>4, <1>5, <1>f, SumsExist
<1>7. eq(it0)
    <2>1. eq(it) BY <1>2, <1>6
    <2> QED BY <2>1
<1> HIDE DEF it0
<1>8. Sums(it0, f, ch, S) BY <1>2, <1>7
<1>9. it0[S] = Total(f, S)
    <2>1. S \in SUBSET S OBVIOUS
    <2> QED BY <1>4, <1>5, <1>8, <1>f, <2>1, SumIsTotal
<1>10. Total(f, S) \in Nat BY <1>4, <1>f, TotalNat
<1> QED BY <1>3, <1>9, <1>10

-----------------------------------------------------------------------------
(* What a request is *)

LEMMA RequestTells ==
    ASSUME NEW r \in RequestState
    PROVE /\ r.step \in PatchSteps => r \in PatchState
          /\ r.step = "bulk" => r \in BulkState
          /\ r.step = "removing" => r \in RemovalState
          /\ r.step \in PatchSteps \cup {"bulk", "removing"} => r # NoRequest
  BY DEF RequestState, PatchState, BulkState, RemovalState, NoRequest, PatchSteps

LEMMA OfIsOnly ==
    ASSUME NEW c \in Clerks, request[c].of \in OneGood
    PROVE Only(c) \in Goods /\ request[c].of = {Only(c)}
  BY DEF Only, OneGood

LEMMA IdleFits ==
    ASSUME NEW r, r = NoRequest \/ r \in RemovalState
    PROVE /\ \A p : ~Patches(r, p) /\ ~Holding(r, p)
          /\ TurnFits(r)
          /\ r = NoRequest => PatchFits(r)
<1>1. r.step \notin PatchSteps /\ r.step # "bulk"
    BY DEF NoRequest, RemovalState, PatchSteps
<1>2. r = NoRequest => r.step # "removing" BY DEF NoRequest
<1> QED BY <1>1, <1>2
      DEF Patches, Holding, PatchFits, TurnFits, SeenIsNow, PlaceOnTop, SaleFits

-----------------------------------------------------------------------------
(* A request that comes, goes on or is given up *)

RowsStay == UNCHANGED <<clerkManner, productRow, variantRow, logged>>

LEMMA RequestMoves ==
    ASSUME ProductInv, NEW c \in Clerks, NEW r \in RequestState,
           request' = [request EXCEPT ![c] = r], RowsStay,
           \/ requests' = requests /\ request[c] # NoRequest
           \/ /\ requests' = requests + 1 /\ requests < MaxRequests[clerkManner]
              /\ clerkManner = "serial" => \A d \in Clerks : request[d] = NoRequest,
           PatchFits(r), clerkManner = "serial" => TurnFits(r),
           \A d \in Clerks \ {c}, p \in Goods : ~(Holding(r, p) /\ Holding(request[d], p))
    PROVE ProductInv'
<1>0. ProductTyped BY DEF ProductInv
<1>1. /\ \A d \in Clerks : request'[d] = IF d = c THEN r ELSE request[d]
      /\ request' \in [Clerks -> RequestState]
    BY <1>0 DEF ProductTyped
<1>2. /\ clerkManner' = clerkManner /\ productRow' = productRow /\ variantRow' = variantRow
      /\ logged' = logged
    BY DEF RowsStay
<1>3. ProductTyped'
    <2>1. requests' \in 0 .. MaxRequests[clerkManner]
        <3>1. MaxRequests[clerkManner] \in Nat BY <1>0, ProductAssumption DEF ProductTyped
        <3>2. requests \in 0 .. MaxRequests[clerkManner] BY <1>0 DEF ProductTyped
        <3> QED BY <3>1, <3>2
    <2> QED BY <1>0, <1>1, <1>2, <2>1 DEF ProductTyped
<1>4. RoomForVariants'
    <2>1. Out' \subseteq Out \cup {c} /\ (request[c] # NoRequest => Out' \subseteq Out)
        BY <1>1 DEF Out
    <2>2. Cardinality(Out') <= Cardinality(Out) + (requests' - requests)
        <3>1. requests \in Nat /\ IsFiniteSet(Out) /\ Cardinality(Out) \in Nat BY <1>0, ProductSets
        <3>2. CASE Out' \subseteq Out /\ requests' \in {requests, requests + 1}
            <4>1. Cardinality(Out') <= Cardinality(Out) /\ Cardinality(Out') \in Nat
                BY <3>1, <3>2, FS_Subset, FS_CardinalityType
            <4> QED BY <3>1, <3>2, <4>1
        <3>3. CASE requests' = requests + 1
            <4>0. /\ IsFiniteSet(Out \cup {c})
                  /\ Cardinality(Out \cup {c}) \in {Cardinality(Out), Cardinality(Out) + 1}
                BY <3>1, FS_AddElement
            <4>1. /\ IsFiniteSet(Out \cup {c}) /\ Cardinality(Out \cup {c}) \in Nat
                  /\ Cardinality(Out \cup {c}) <= Cardinality(Out) + 1
                BY <3>1, <4>0
            <4>2. Cardinality(Out') <= Cardinality(Out \cup {c}) /\ Cardinality(Out') \in Nat
                BY <2>1, <4>1, FS_Subset, FS_CardinalityType
            <4> QED BY <3>1, <3>3, <4>1, <4>2
        <3> QED BY <2>1, <3>2, <3>3
    <2>3. Cardinality(Out') \in Nat /\ requests' \in Nat
        <3>1. IsFiniteSet(Out') BY <1>3, ProductAssumption, FS_Subset DEF Out
        <3>2. requests \in Nat BY <1>0, ProductSets
        <3> QED BY <3>1, <3>2, FS_CardinalityType
    <2>4. ASSUME NEW p \in Goods PROVE Cardinality(Made(p)') + Cardinality(Out') <= 1 + requests'
        <3>1. Made(p)' = Made(p) BY <1>2 DEF Made
        <3>2. Cardinality(Made(p)) + Cardinality(Out) <= 1 + requests
            BY DEF ProductInv, RoomForVariants
        <3>3. Cardinality(Made(p)) \in Nat /\ Cardinality(Out) \in Nat /\ requests \in Nat
            BY <1>0, ProductSets
        <3> QED BY <2>2, <2>3, <3>1, <3>2, <3>3
    <2> QED BY <2>4 DEF RoomForVariants
<1>5. HeldAlone'
    <2> SUFFICES ASSUME NEW d \in Clerks, NEW e \in Clerks, NEW p \in Goods,
                        Holding(request'[d], p), Holding(request'[e], p)
                 PROVE d = e
        BY DEF HeldAlone, Holding, Patches
    <2>1. CASE d # c /\ e # c BY <1>1, <2>1 DEF ProductInv, HeldAlone
    <2>2. CASE d = c \/ e = c BY <1>1, <2>2
    <2> QED BY <2>1, <2>2
<1>6. EditsInTurn'
    <2> SUFFICES ASSUME clerkManner = "serial"
                 PROVE /\ \A d, e \in Out' : d = e
                       /\ \A d \in Clerks : TurnFits(request[d])'
        BY <1>2 DEF EditsInTurn
    <2>1. \A d, e \in Out' : d = e
        <3>1. \A d, e \in Out : d = e BY DEF ProductInv, EditsInTurn
        <3>2. request[c] # NoRequest => Out' \subseteq Out /\ c \in Out BY <1>1 DEF Out
        <3>3. (\A d \in Clerks : request[d] = NoRequest) => Out' \subseteq {c} BY <1>1 DEF Out
        <3> QED BY <3>1, <3>2, <3>3
    <2>2. ASSUME NEW d \in Clerks PROVE TurnFits(request[d])'
        <3>1. PICK q : q = request'[d] OBVIOUS
        <3>2. TurnFits(q) BY <1>1, <3>1 DEF ProductInv, EditsInTurn
        <3> QED BY <1>2, <3>1, <3>2
              DEF TurnFits, SeenIsNow, PlaceOnTop, SaleFits, RowsWithoutSale, Tops, Patches,
                  Holding
    <2> QED BY <2>1, <2>2
<1>7. ASSUME NEW d \in Clerks PROVE PatchFits(request[d])'
    <2>1. PICK q : q = request'[d] OBVIOUS
    <2>2. PatchFits(q) BY <1>1, <2>1 DEF ProductInv
    <2> QED BY <1>2, <2>1, <2>2 DEF PatchFits, Made, MadeBy, Patches, Holding
<1>8. (TopWithinLimit /\ LogIsTotal /\ SaleReachesVariants /\ SomeVariantOffered)'
    BY <1>2 DEF ProductInv, TopWithinLimit, LogIsTotal, SaleReachesVariants,
                SomeVariantOffered, Tops, Offered
<1> QED BY <1>3, <1>4, <1>5, <1>6, <1>7, <1>8 DEF ProductInv

\* A request that is given up.
LEMMA RequestEnds ==
    ASSUME ProductInv, NEW c \in Clerks, request[c] # NoRequest, Proceeds(c, NoRequest)
    PROVE ProductInv'
<1>1. NoRequest \in RequestState BY DEF RequestState
<1>2. PatchFits(NoRequest) /\ TurnFits(NoRequest) /\ \A p \in Goods : ~Holding(NoRequest, p)
    BY IdleFits
<1> QED BY <1>1, <1>2, RequestMoves DEF Proceeds, RowsStay

\* A request that comes.
LEMMA RequestComes ==
    ASSUME ProductInv, NEW c \in Clerks, NEW r \in RequestState, MaySend(c), Submits(c, r),
           r.step \in {"sent", "bulk", "removing"},
           PatchFits(r), clerkManner = "serial" => TurnFits(r)
    PROVE ProductInv'
<1>1. \A p \in Goods : ~Holding(r, p) BY DEF Holding
<1>2. /\ requests < MaxRequests[clerkManner]
      /\ clerkManner = "serial" => \A d \in Clerks : request[d] = NoRequest
    BY DEF MaySend
<1>3. request' = [request EXCEPT ![c] = r] /\ requests' = requests + 1 /\ RowsStay
    BY DEF Submits, RowsStay
<1> QED BY <1>1, <1>2, <1>3, RequestMoves

-----------------------------------------------------------------------------
(* What the pages send *)

LEMMA PatchTyped ==
    ASSUME ProductTyped, NEW kind \in {"create", "edit"}, NEW p \in Goods,
           NEW rows \in SentRows, NEW new \in SUBSET RowState, NEW total \in Nat,
           NEW top \in Answer, NEW sale \in Answer
    PROVE /\ Patch(kind, p, rows, new, total, top, sale) \in RequestState
          /\ NoProductRow \in ProductState
<1>1. NoProductRow \in ProductState BY DEF NoProductRow, ProductState
<1>2. variantRow[p] \in [Ids -> VariantState] BY DEF ProductTyped
<1>3. {p} \in OneGood BY DEF OneGood
<1> QED BY <1>1, <1>2, <1>3 DEF Patch, PatchState, PatchSteps, RequestState

\* A patch that is sent fits when it offers some variant of those that there are, and gives
\* no discount behind the product's back.
LEMMA PatchSent ==
    ASSUME ProductInv, NEW c \in Clerks, NEW kind \in {"create", "edit"}, NEW p \in Goods,
           NEW rows \in SentRows, NEW new \in SUBSET RowState, NEW total \in Nat,
           NEW top \in Answer, NEW sale \in Answer,
           MaySend(c), Submits(c, Patch(kind, p, rows, new, total, top, sale)),
           DOMAIN rows # {} \/ new # {}, DOMAIN rows \subseteq Made(p),
           (clerkManner = "serial" /\ ~Flag(sale, productRow[p].sale)
                /\ (kind # "edit" \/ sale # "no")) =>
              /\ \A v \in DOMAIN rows : \/ rows[v].sale = "no"
                                        \/ rows[v].sale = "same" /\ ~variantRow[p][v].sale
              /\ \A w \in new : w.sale = "no"
    PROVE ProductInv'
<1>1. PICK r : r = Patch(kind, p, rows, new, total, top, sale) OBVIOUS
<1>2. r \in RequestState BY <1>1, PatchTyped DEF ProductInv
<1>3. /\ r.step = "sent" /\ r.of = {p} /\ r.rows = rows /\ r.new = new /\ r.kind = kind
      /\ r.sale = sale
    BY <1>1 DEF Patch
<1>4. \A q : ~Holding(r, q) BY <1>3 DEF Holding
<1>5. \A q : Patches(r, q) => q = p BY <1>3 DEF Patches
<1>6. PatchFits(r) BY <1>3, <1>4, <1>5 DEF PatchFits
<1>7. ASSUME clerkManner = "serial" PROVE TurnFits(r)
    <2>1. SeenIsNow(r) /\ PlaceOnTop(r) BY <1>3 DEF SeenIsNow, PlaceOnTop
    <2>2. SaleFits(r) BY <1>3, <1>4, <1>5, <1>7 DEF SaleFits, RowsWithoutSale
    <2> QED BY <2>1, <2>2 DEF TurnFits
<1>8. Submits(c, r) BY <1>1
<1> QED BY <1>2, <1>3, <1>6, <1>7, <1>8, RequestComes

LEMMA SubmitNewKept ==
    ASSUME ProductInv, NEW c \in Clerks, NEW p \in Goods, SubmitNew(c, p)
    PROVE ProductInv'
<1>1. PICK n \in Amounts, top \in {"yes", "no"}, sale \in {"yes", "no"} :
          Submits(c, Patch("create", p, <<>>, {FormRow(n, TRUE, sale)}, n, top, sale))
    BY DEF SubmitNew
<1>2. MaySend(c) BY DEF SubmitNew
<1>3. n \in Nat BY ProductAssumption
<1>4. FormRow(n, TRUE, sale) \in RowState /\ (sale = "no" => FormRow(n, TRUE, sale).sale = "no")
    BY <1>3 DEF FormRow, Row, RowState, Answer
<1>5. <<>> \in SentRows /\ DOMAIN <<>> = {}
    <2>1. <<>> \in [{} -> RowState] /\ DOMAIN <<>> = {} OBVIOUS
    <2>2. {} \in SUBSET Ids OBVIOUS
    <2> QED BY <2>1, <2>2 DEF SentRows
<1>6. sale \in Answer /\ top \in Answer BY DEF Answer
<1>7. ~Flag(sale, productRow[p].sale) => sale = "no" BY DEF Flag
<1>8. PICK w : w = FormRow(n, TRUE, sale) OBVIOUS
<1>9. {w} \in SUBSET RowState /\ {w} # {} BY <1>4, <1>8
<1>10. Submits(c, Patch("create", p, <<>>, {w}, n, top, sale)) BY <1>1, <1>8
<1> QED BY <1>2, <1>3, <1>4, <1>5, <1>6, <1>7, <1>8, <1>9, <1>10, PatchSent

LEMMA SubmitFormKept ==
    ASSUME ProductInv, NEW c \in Clerks, NEW p \in Goods, SubmitForm(c, p)
    PROVE ProductInv'
<1>0. ProductTyped BY DEF ProductInv
<1> DEFINE first(kept, v) == \A w \in kept : v <= w
           rows(kept, typed, n, sale) == [v \in kept |->
               FormRow(IF v = typed THEN n ELSE variantRow[p][v].stock, first(kept, v), sale)]
           new(kept, typed, n, sale) ==
               IF typed = 0 THEN {FormRow(n, kept = {}, sale)} ELSE {}
<1>1. PICK kept \in SUBSET Offered(p), typed \in Offered(p) \cup {0}, n \in Amounts,
           top \in {"yes", "no"}, sale \in {"yes", "no"} :
          /\ typed \in kept \cup {0}
          /\ Submits(c, Patch("edit", p, rows(kept, typed, n, sale), new(kept, typed, n, sale),
                              SumOf(rows(kept, typed, n, sale)) + (IF typed = 0 THEN n ELSE 0),
                              top, sale))
    BY DEF SubmitForm
<1>2. MaySend(c) BY DEF SubmitForm
<1>3. n \in Nat BY ProductAssumption
<1>4. \A stock \in Nat, b \in BOOLEAN : FormRow(stock, b, sale) \in RowState
    BY DEF FormRow, Row, RowState, Answer
<1>5. kept \subseteq Ids /\ kept \subseteq Made(p) /\ 0 \notin kept
    BY <1>1, ProductAssumption DEF Offered, Made, Ids
<1>6. PICK rs : rs = rows(kept, typed, n, sale) OBVIOUS
<1>7. PICK ns : ns = new(kept, typed, n, sale) OBVIOUS
<1>8. rs \in [kept -> RowState]
    <2>1. \A v \in kept : (IF v = typed THEN n ELSE variantRow[p][v].stock) \in Nat
        BY <1>0, <1>3, <1>5 DEF ProductTyped, VariantState
    <2>2. \A v \in kept : first(kept, v) \in BOOLEAN OBVIOUS
    <2> QED BY <1>4, <1>6, <2>1, <2>2
<1>9. ns \in SUBSET RowState /\ (typed = 0 => ns # {}) BY <1>3, <1>4, <1>7
<1> HIDE DEF rows, new
<1>10. rs \in SentRows /\ DOMAIN rs = kept BY <1>5, <1>8 DEF SentRows
<1>11. PICK total \in Nat : total = SumOf(rs) + (IF typed = 0 THEN n ELSE 0)
    <2>1. IsFiniteSet(kept) BY <1>0, ProductSets, FS_Subset
    <2>2. \A v \in DOMAIN rs : rs[v].stock \in Nat BY <1>8 DEF RowState
    <2>3. SumOf(rs) \in Nat BY <1>10, <2>1, <2>2, SumOfNat
    <2> QED BY <1>3, <2>3
<1>12. Submits(c, Patch("edit", p, rs, ns, total, top, sale)) BY <1>1, <1>6, <1>7, <1>11
<1>13. DOMAIN rs # {} \/ ns # {} BY <1>1, <1>9, <1>10
<1>14. sale \in Answer /\ top \in Answer BY DEF Answer
<1>15. ~Flag(sale, productRow[p].sale) => sale = "no" BY DEF Flag
<1> QED BY <1>2, <1>5, <1>9, <1>10, <1>12, <1>13, <1>14, <1>15, PatchSent

LEMMA SubmitStockKept ==
    ASSUME ProductInv, NEW c \in Clerks, NEW p \in Goods, NEW delta \in {-1, 1},
           SubmitStock(c, p, delta)
    PROVE ProductInv'
<1>0. ProductTyped BY DEF ProductInv
<1>1. PICK first : first = CHOOSE v \in Offered(p) : \A w \in Offered(p) : v <= w OBVIOUS
<1>2. PICK others : others = [v \in Offered(p) \ {first} |-> variantRow[p][v]] OBVIOUS
<1>3. SumOf(others) \in Nat
    <2>1. DOMAIN others = Offered(p) \ {first} BY <1>2
    <2>2. IsFiniteSet(DOMAIN others) BY <1>0, <2>1, ProductSets, FS_Subset
    <2>3. \A v \in DOMAIN others : others[v].stock \in Nat
        BY <1>0, <1>2 DEF ProductTyped, VariantState, Offered
    <2> QED BY <2>2, <2>3, SumOfNat
<1>4. PICK rest \in Nat : rest = SumOf(others) BY <1>3
<1>5. PICK total \in Nat : total = NewTotal(p, delta)
    <2>1. productRow[p].total \in Nat BY <1>0 DEF ProductTyped, ProductState
    <2>2. delta \in Int OBVIOUS
    <2> QED BY <2>1, <2>2 DEF NewTotal
<1> DEFINE stock(v) == IF v # first THEN variantRow[p][v].stock
                       ELSE IF total > rest THEN total - rest ELSE 0
<1>6. PICK rows : rows = [v \in Offered(p) |->
                             Row(stock(v), IF variantRow[p][v].sale THEN "yes" ELSE "same")]
    OBVIOUS
<1>7. Submits(c, Patch("edit", p, rows, {}, total, "same", "same"))
    BY <1>1, <1>2, <1>4, <1>5, <1>6 DEF SubmitStock
<1>8. MaySend(c) /\ productRow[p].state # "none" BY DEF SubmitStock
<1>9. Offered(p) \subseteq Ids /\ Offered(p) \subseteq Made(p) BY DEF Offered, Made
<1>10. rows \in [Offered(p) -> RowState]
    <2>1. \A v \in Offered(p) : stock(v) \in Nat
        BY <1>0, <1>9 DEF ProductTyped, VariantState
    <2> HIDE DEF stock
    <2> QED BY <1>6, <2>1 DEF Row, RowState, Answer
<1>11. rows \in SentRows /\ DOMAIN rows = Offered(p) BY <1>9, <1>10 DEF SentRows
<1>12. Offered(p) # {} BY <1>8 DEF ProductInv, SomeVariantOffered
<1>13. ASSUME clerkManner = "serial", ~Flag("same", productRow[p].sale), NEW v \in DOMAIN rows
       PROVE rows[v].sale = "same" /\ ~variantRow[p][v].sale
    <2>1. ~productRow[p].sale BY <1>13 DEF Flag
    <2>2. ~variantRow[p][v].sale BY <1>11, <1>13, <2>1 DEF ProductInv, SaleReachesVariants
    <2> HIDE DEF stock
    <2> QED BY <1>6, <1>11, <2>2 DEF Row
<1>14. "same" \in Answer /\ {} \in SUBSET RowState BY DEF Answer
<1> HIDE DEF stock
<1> QED BY <1>7, <1>8, <1>9, <1>11, <1>12, <1>13, <1>14, PatchSent

LEMMA SubmitTopsKept ==
    ASSUME ProductInv, NEW c \in Clerks, SubmitTops(c)
    PROVE ProductInv'
<1>0. ProductTyped BY DEF ProductInv
<1>1. MaySend(c) BY DEF SubmitTops
<1>2. PICK left \in SUBSET Goods, top \in Answer :
          /\ Submits(c, Bulk(left, top))
          /\ clerkManner = "serial" /\ top = "yes" => Cardinality(Tops \cup left) <= TopMax
    <2>1. CASE Submits(c, Bulk(Tops, "yes"))
        <3>1. Tops \in SUBSET Goods /\ "yes" \in Answer /\ Tops \cup Tops = Tops
            BY DEF Tops, Answer
        <3>2. clerkManner = "serial" => Cardinality(Tops) <= TopMax
            BY DEF ProductInv, TopWithinLimit
        <3> QED BY <2>1, <3>1, <3>2
    <2>2. CASE \E p \in Tops, top \in {"no", "same"} : Submits(c, Bulk({p}, top))
        <3>1. PICK p \in Tops, top \in {"no", "same"} : Submits(c, Bulk({p}, top)) BY <2>2
        <3>2. {p} \in SUBSET Goods /\ top \in Answer /\ top # "yes" BY DEF Tops, Answer
        <3> QED BY <3>1, <3>2
    <2>3. CASE \E p \in Goods : Cardinality(Tops) < TopMax /\ Submits(c, Bulk({p}, "yes"))
        <3>1. PICK p \in Goods : Cardinality(Tops) < TopMax /\ Submits(c, Bulk({p}, "yes"))
            BY <2>3
        <3>2. IsFiniteSet(Tops) /\ Cardinality(Tops) \in Nat /\ TopMax \in Nat
            BY <1>0, ProductSets
        <3>3. Cardinality(Tops \cup {p}) \in {Cardinality(Tops), Cardinality(Tops) + 1}
            BY <3>2, FS_AddElement
        <3>4. Cardinality(Tops \cup {p}) <= TopMax BY <3>1, <3>2, <3>3
        <3>5. {p} \in SUBSET Goods /\ "yes" \in Answer BY DEF Answer
        <3> QED BY <3>1, <3>4, <3>5
    <2> QED BY <2>1, <2>2, <2>3 DEF SubmitTops
<1>3. PICK r : r = Bulk(left, top) OBVIOUS
<1>4. r \in RequestState /\ r.step = "bulk" /\ r.of = left /\ r.left = left /\ r.top = top
      /\ r.seen = {} /\ r.wrote = {}
    BY <1>3 DEF Bulk, BulkState, RequestState
<1>5. \A p : ~Patches(r, p) BY <1>4 DEF Patches, PatchSteps
<1>6. PatchFits(r) BY <1>4, <1>5 DEF PatchFits
<1>7. clerkManner = "serial" => TurnFits(r)
    BY <1>2, <1>4, <1>5 DEF TurnFits, SeenIsNow, PlaceOnTop, SaleFits
<1>8. Submits(c, r) BY <1>2, <1>3
<1> QED BY <1>1, <1>4, <1>6, <1>7, <1>8, RequestComes

LEMMA SubmitRemovalKept ==
    ASSUME ProductInv, NEW c \in Clerks, NEW p \in Goods, SubmitRemoval(c, p)
    PROVE ProductInv'
<1>1. PICK r : r = [step |-> "removing", of |-> {p}] OBVIOUS
<1>2. r \in RemovalState /\ r \in RequestState /\ r.step = "removing"
    BY <1>1 DEF RemovalState, RequestState, OneGood
<1>3. TurnFits(r) /\ \A q : ~Patches(r, q) BY <1>2, IdleFits
<1>5. PatchFits(r)
    <2>1. r.of = {p} /\ productRow[p].state # "none" BY <1>1 DEF SubmitRemoval
    <2>2. \A q : r.of = {q} => q = p BY <2>1
    <2> QED BY <1>3, <2>1, <2>2 DEF PatchFits
<1>4. MaySend(c) /\ Submits(c, r) BY <1>1 DEF SubmitRemoval
<1> QED BY <1>2, <1>3, <1>4, <1>5, RequestComes

-----------------------------------------------------------------------------
(* What the server reads and writes *)

\* A patch that is out, and the product it is of.
LEMMA PatchOut ==
    ASSUME ProductInv, NEW c \in Clerks, request[c].step \in PatchSteps
    PROVE /\ request[c] \in PatchState /\ request[c] # NoRequest
          /\ Only(c) \in Goods /\ Patches(request[c], Only(c))
          /\ \A p \in Goods : Patches(request[c], p) => p = Only(c)
          /\ clerkManner = "serial" => TurnFits(request[c])
          /\ PatchFits(request[c])
<1>1. request[c] \in RequestState BY DEF ProductInv, ProductTyped
<1>2. request[c] \in PatchState /\ request[c] # NoRequest BY <1>1, RequestTells
<1>3. request[c].of \in OneGood BY <1>2 DEF PatchState
<1>4. Only(c) \in Goods /\ request[c].of = {Only(c)} BY <1>3, OfIsOnly
<1> QED BY <1>2, <1>4 DEF ProductInv, EditsInTurn, Patches

LEMMA ReadsProductKept ==
    ASSUME ProductInv, NEW c \in Clerks, ReadsProduct(c)
    PROVE ProductInv'
<1>1. PICK p \in Goods : p = Only(c) BY PatchOut DEF ReadsProduct, PatchSteps
<1>2. PICK o : o = request[c] OBVIOUS
<1>3. o \in PatchState /\ o.step = "sent" /\ o # NoRequest /\ PatchFits(o)
      /\ (clerkManner = "serial" => TurnFits(o)) /\ Patches(o, p)
      /\ (\A q \in Goods : Patches(o, q) => q = p)
    BY <1>1, <1>2, PatchOut DEF ReadsProduct, PatchSteps
<1>4. PICK r : r = [o EXCEPT !.step = "read", !.seen = productRow[p]] OBVIOUS
<1>5. productRow[p] \in ProductState BY DEF ProductInv, ProductTyped
<1>6. /\ r \in PatchState /\ r.step = "read" /\ r.seen = productRow[p] /\ r.of = o.of
      /\ r.rows = o.rows /\ r.new = o.new /\ r.kind = o.kind /\ r.sale = o.sale
    BY <1>3, <1>4, <1>5 DEF PatchState, PatchSteps
<1>7. \A q \in Goods : ~Holding(r, q) /\ ~Holding(o, q) /\ (Patches(r, q) <=> Patches(o, q))
    BY <1>3, <1>6 DEF Holding, Patches, PatchSteps
<1>8. PatchFits(r) BY <1>3, <1>6, <1>7 DEF PatchFits
<1>9. ASSUME clerkManner = "serial" PROVE TurnFits(r)
    <2>1. SeenIsNow(r) BY <1>3, <1>6, <1>7 DEF SeenIsNow
    <2>2. PlaceOnTop(r) BY <1>6 DEF PlaceOnTop
    <2>3. SaleFits(r) BY <1>3, <1>6, <1>7, <1>9 DEF TurnFits, SaleFits, RowsWithoutSale
    <2> QED BY <2>1, <2>2, <2>3 DEF TurnFits
<1>10. r \in RequestState BY <1>6 DEF RequestState
<1>11. Proceeds(c, r) BY <1>1, <1>2, <1>4 DEF ReadsProduct
<1> QED BY <1>2, <1>3, <1>7, <1>8, <1>9, <1>10, <1>11, RequestMoves DEF Proceeds, RowsStay

\* The row a variant gets: its own, or for the one that is made the new one.
Fresh(p) == {v \in Ids \ Made(p) : \A w \in Ids \ Made(p) : v <= w}
RowsOf(r, p, v) == IF v \in DOMAIN r.rows THEN {r.rows[v]}
                   ELSE IF v \in Fresh(p) THEN r.new ELSE {}

LEMMA VariantsWrittenAre ==
    ASSUME ProductTyped, NEW r \in PatchState, NEW p \in Goods, NEW v \in Ids
    PROVE /\ VariantsWritten(r, p)[v] \in VariantState
          /\ RowsOf(r, p, v) = {} =>
                /\ VariantsWritten(r, p)[v].state # "active"
                /\ VariantsWritten(r, p)[v].state = "none" <=> v \notin Made(p)
          /\ RowsOf(r, p, v) # {} => \E w \in RowsOf(r, p, v) :
                VariantsWritten(r, p)[v] = Written(r, p, v, w)
<1> DEFINE left == [variantRow[p][v] EXCEPT !.state = IF @ = "active" THEN "inactive" ELSE @]
<1>1. VariantsWritten(r, p)[v] = IF RowsOf(r, p, v) = {} THEN left
                                 ELSE Written(r, p, v, CHOOSE w \in RowsOf(r, p, v) : TRUE)
    BY DEF VariantsWritten, RowsOf, Fresh
<1>2. variantRow[p][v] \in VariantState BY DEF ProductTyped
<1>3. left \in VariantState /\ left.state # "active"
      /\ (left.state = "none" <=> variantRow[p][v].state = "none")
    BY <1>2 DEF VariantState
<1>4. v \in Made(p) <=> variantRow[p][v].state # "none" BY DEF Made
<1>5. CASE RowsOf(r, p, v) = {} BY <1>1, <1>3, <1>4, <1>5
<1>6. CASE RowsOf(r, p, v) # {}
    <2>1. PICK w \in RowsOf(r, p, v) : VariantsWritten(r, p)[v] = Written(r, p, v, w)
        BY <1>1, <1>6
    <2>2. w \in RowState
        <3>1. r.new \in SUBSET RowState /\ r.rows \in SentRows BY DEF PatchState
        <3>2. \A u \in DOMAIN r.rows : r.rows[u] \in RowState BY <3>1 DEF SentRows
        <3> QED BY <2>1, <3>1, <3>2 DEF RowsOf
    <2>3. w.stock \in Nat BY <2>2 DEF RowState
    <2>4. Flag(w.sale, variantRow[p][v].sale) \in BOOLEAN BY <1>2 DEF Flag, VariantState
    <2>5. Written(r, p, v, w) \in VariantState BY <2>3, <2>4 DEF Written, VariantState
    <2> QED BY <1>6, <2>1, <2>5
<1> QED BY <1>5, <1>6

\* A number is left for the variant that is made.
LEMMA FreshThere ==
    ASSUME ProductInv, NEW p \in Goods, NEW c \in Clerks, request[c] # NoRequest
    PROVE \E v \in Ids : Fresh(p) = {v}
<1>0. ProductTyped BY DEF ProductInv
<1>1. Cardinality(Made(p)) < MaxVariants
    <2>1. Cardinality(Made(p)) + Cardinality(Out) <= 1 + requests
        BY DEF ProductInv, RoomForVariants
    <2>2. IsFiniteSet(Out) /\ Cardinality(Out) \in Nat /\ c \in Out BY <1>0, ProductSets DEF Out
    <2>3. Cardinality(Out) # 0 BY <2>2, FS_EmptySet
    <2>4. Cardinality(Made(p)) \in Nat /\ requests \in Nat /\ requests < MaxVariants
          /\ MaxVariants \in Nat
        BY <1>0, ProductSets
    <2> QED BY <2>1, <2>2, <2>3, <2>4
<1>2. Ids \ Made(p) # {}
    <2>1. Made(p) \subseteq Ids BY DEF Made
    <2>2. Made(p) # Ids
        <3>1. Cardinality(Ids) = MaxVariants BY <1>0, ProductSets
        <3>2. Cardinality(Made(p)) \in Nat BY <1>0, ProductSets
        <3> QED BY <1>1, <3>1, <3>2
    <2> QED BY <2>1, <2>2
<1>3. Ids \ Made(p) \in SUBSET Nat BY ProductAssumption DEF Ids
<1>4. PICK v \in Ids \ Made(p) : \A w \in Ids \ Made(p) : v <= w BY <1>2, <1>3, LeastNatural
<1>5. \A w \in Ids \ Made(p) : v <= w /\ w <= v => w = v BY <1>3
<1> QED BY <1>4, <1>5 DEF Fresh

LEMMA WritesVariantsKept ==
    ASSUME ProductInv, NEW c \in Clerks, WritesVariants(c)
    PROVE ProductInv'
<1>0. ProductTyped BY DEF ProductInv
<1>1. PICK p \in Goods : p = Only(c) BY PatchOut DEF WritesVariants, PatchSteps
<1>2. PICK o : o = request[c] OBVIOUS
<1>3. o \in PatchState /\ o.step = "read" /\ o # NoRequest /\ PatchFits(o)
      /\ (clerkManner = "serial" => TurnFits(o)) /\ Patches(o, p)
      /\ (\A q \in Goods : Patches(o, q) => q = p)
    BY <1>1, <1>2, PatchOut DEF WritesVariants, PatchSteps
<1>4. PICK wrote : wrote = VariantsWritten(o, p) OBVIOUS
<1>5. wrote \in [Ids -> VariantState]
    <2>1. wrote = [v \in Ids |-> wrote[v]] BY <1>4 DEF VariantsWritten
    <2>2. \A v \in Ids : wrote[v] \in VariantState BY <1>0, <1>3, <1>4, VariantsWrittenAre
    <2> QED BY <2>1, <2>2
<1>6. PICK r : r = [o EXCEPT !.step = "written", !.wrote = wrote] OBVIOUS
<1>7. /\ r \in PatchState /\ r.step = "written" /\ r.of = o.of /\ r.wrote = wrote
      /\ r.seen = o.seen /\ r.kind = o.kind /\ r.sale = o.sale
    BY <1>3, <1>5, <1>6 DEF PatchState, PatchSteps
<1>8. \A q \in Goods : (Holding(r, q) <=> q = p) /\ ~Holding(o, q)
                       /\ (Patches(r, q) <=> Patches(o, q))
    BY <1>3, <1>7 DEF Holding, Patches, PatchSteps
<1>9. /\ DOMAIN o.rows # {} \/ o.new # {}
      /\ DOMAIN o.rows \subseteq Made(p)
    BY <1>3, <1>8 DEF PatchFits
<1>10. PICK x \in Ids : Fresh(p) = {x} BY <1>2, <1>3, FreshThere
<1>11. DOMAIN o.rows \subseteq Ids BY <1>3 DEF PatchState, SentRows
<1>12. ASSUME NEW v \in Ids, RowsOf(o, p, v) # {}
       PROVE wrote[v].state = "active" /\ v \in Made(p) \cup {x}
    <2>1. PICK w \in RowsOf(o, p, v) : wrote[v] = Written(o, p, v, w)
        BY <1>0, <1>3, <1>4, <1>12, VariantsWrittenAre
    <2>2. v \in DOMAIN o.rows \/ v \in Fresh(p) BY <1>12 DEF RowsOf
    <2> QED BY <1>9, <1>10, <2>1, <2>2 DEF Written
<1>13. ASSUME NEW v \in Ids, RowsOf(o, p, v) = {}
       PROVE wrote[v].state # "active" /\ (wrote[v].state # "none" <=> v \in Made(p))
    BY <1>0, <1>3, <1>4, <1>13, VariantsWrittenAre
<1>14. PatchFits(r)
    <2>1. \E v \in Ids : wrote[v].state = "active"
        <3>1. \E v \in Ids : RowsOf(o, p, v) # {}
            <4>1. CASE DOMAIN o.rows # {} BY <1>11, <4>1 DEF RowsOf
            <4>2. CASE DOMAIN o.rows = {} BY <1>9, <1>10, <4>2 DEF RowsOf
            <4> QED BY <4>1, <4>2
        <3> QED BY <1>12, <3>1
    <2>2. Made(p) \subseteq MadeBy(wrote)
        <3>1. Made(p) \subseteq Ids BY DEF Made
        <3> QED BY <1>12, <1>13, <3>1 DEF MadeBy
    <2>3. MadeBy(wrote) \subseteq Made(p) \cup {x} BY <1>12, <1>13 DEF MadeBy
    <2> QED BY <1>3, <1>7, <1>8, <2>1, <2>2, <2>3 DEF PatchFits
<1>15. ASSUME clerkManner = "serial" PROVE TurnFits(r)
    <2>1. SeenIsNow(r) BY <1>3, <1>7, <1>8, <1>15 DEF TurnFits, SeenIsNow
    <2>2. PlaceOnTop(r) BY <1>7 DEF PlaceOnTop
    <2>3. SaleFits(r)
        <3> SUFFICES ASSUME ~Flag(o.sale, productRow[p].sale),
                            NEW v \in Ids, wrote[v].state = "active"
                     PROVE ~wrote[v].sale
            BY <1>3, <1>7, <1>8 DEF SaleFits
        <3>1. RowsWithoutSale(o, p) BY <1>3, <1>8, <1>15 DEF TurnFits, SaleFits
        <3>2. RowsOf(o, p, v) # {} BY <1>13
        <3>3. PICK w \in RowsOf(o, p, v) : wrote[v] = Written(o, p, v, w)
            BY <1>0, <1>3, <1>4, <3>2, VariantsWrittenAre
        <3>f. wrote[v].sale = (~(o.kind = "edit" /\ o.sale = "no")
                               /\ Flag(w.sale, variantRow[p][v].sale))
            BY <3>3 DEF Written
        <3>4. CASE o.kind = "edit" /\ o.sale = "no" BY <3>f, <3>4
        <3>5. CASE o.kind # "edit" \/ o.sale # "no"
            <4>1. w.sale = "no" \/ (w.sale = "same" /\ ~variantRow[p][v].sale)
                BY <3>1, <3>3, <3>5 DEF RowsWithoutSale, RowsOf
            <4>2. ~Flag(w.sale, variantRow[p][v].sale) BY <4>1 DEF Flag
            <4> QED BY <3>f, <4>2
        <3> QED BY <3>4, <3>5
    <2> QED BY <2>1, <2>2, <2>3 DEF TurnFits
<1>16. ASSUME NEW d \in Clerks \ {c}, NEW q \in Goods, Holding(r, q), Holding(request[d], q)
       PROVE FALSE
    <2>1. q = p BY <1>8, <1>16
    <2>2. ~HoldsVariants(d, p) BY <1>1 DEF WritesVariants
    <2> QED BY <1>16, <2>1, <2>2 DEF HoldsVariants, Holding, Patches
<1>17. r \in RequestState BY <1>7 DEF RequestState
<1>18. Proceeds(c, r) BY <1>1, <1>2, <1>4, <1>6 DEF WritesVariants
<1> QED BY <1>2, <1>3, <1>14, <1>15, <1>16, <1>17, <1>18, RequestMoves DEF Proceeds, RowsStay

LEMMA WeighsKept ==
    ASSUME ProductInv, NEW c \in Clerks, Weighs(c)
    PROVE ProductInv'
<1>0. ProductTyped BY DEF ProductInv
<1>1. PICK p \in Goods : p = Only(c) BY PatchOut DEF Weighs, PatchSteps
<1>2. PICK o : o = request[c] OBVIOUS
<1>3. o \in PatchState /\ o.step = "written" /\ o # NoRequest /\ PatchFits(o)
      /\ (clerkManner = "serial" => TurnFits(o)) /\ Patches(o, p)
      /\ (\A q \in Goods : Patches(o, q) => q = p)
    BY <1>1, <1>2, PatchOut DEF Weighs, PatchSteps
<1>4. CASE Proceeds(c, NoRequest) BY <1>2, <1>3, <1>4, RequestEnds
<1>5. CASE Proceeds(c, [o EXCEPT !.step = "weighed"]) /\ ~(o.top = "yes" /\ ~o.seen.top /\ IsFull)
    <2>1. PICK r : r = [o EXCEPT !.step = "weighed"] OBVIOUS
    <2>2. /\ r \in PatchState /\ r.step = "weighed" /\ r.of = o.of /\ r.wrote = o.wrote
          /\ r.seen = o.seen /\ r.kind = o.kind /\ r.sale = o.sale /\ r.top = o.top
        BY <1>3, <2>1 DEF PatchState, PatchSteps
    <2>3. \A q \in Goods : (Holding(r, q) <=> Holding(o, q)) /\ (Patches(r, q) <=> Patches(o, q))
        BY <1>3, <2>2 DEF Holding, Patches, PatchSteps
    <2>4. \A q \in Goods : Patches(r, q) => Holding(r, q) BY <2>2 DEF Holding
    <2>5. PatchFits(r) BY <1>3, <2>2, <2>3, <2>4 DEF PatchFits
    <2>6. ASSUME clerkManner = "serial" PROVE TurnFits(r)
        <3>1. SeenIsNow(r) BY <1>3, <2>2, <2>3, <2>6 DEF TurnFits, SeenIsNow
        <3>2. PlaceOnTop(r)
            <4>1. o.top = "yes" => o.seen.top \/ ~IsFull BY <1>5
            <4>2. o.seen = productRow[p] BY <1>3, <2>6 DEF TurnFits, SeenIsNow
            <4>3. ~IsFull => Cardinality(Tops) < TopMax
                <5>1. Cardinality(Tops) \in Nat /\ TopMax \in Nat BY <1>0, ProductSets
                <5> QED BY <5>1 DEF IsFull
            <4> QED BY <1>3, <2>2, <2>3, <4>1, <4>2, <4>3 DEF PlaceOnTop
        <3>3. SaleFits(r) BY <1>3, <2>2, <2>3, <2>4, <2>6 DEF TurnFits, SaleFits
        <3> QED BY <3>1, <3>2, <3>3 DEF TurnFits
    <2>7. \A d \in Clerks \ {c}, q \in Goods : ~(Holding(r, q) /\ Holding(request[d], q))
        BY <1>2, <2>3 DEF ProductInv, HeldAlone
    <2>8. r \in RequestState BY <2>2 DEF RequestState
    <2>9. Proceeds(c, r) BY <1>5, <2>1
    <2> QED BY <1>2, <1>3, <2>5, <2>6, <2>7, <2>8, <2>9, RequestMoves DEF Proceeds, RowsStay
<1> QED BY <1>2, <1>4, <1>5 DEF Weighs

-----------------------------------------------------------------------------
(* The panel of top products *)

LEMMA BulkOut ==
    ASSUME ProductInv, NEW c \in Clerks, request[c].step = "bulk"
    PROVE /\ request[c] \in BulkState /\ request[c] # NoRequest
          /\ clerkManner = "serial" => PlaceOnTop(request[c])
<1>1. request[c] \in RequestState BY DEF ProductInv, ProductTyped
<1> QED BY <1>1, RequestTells DEF ProductInv, EditsInTurn, TurnFits

LEMMA BulkPlaced ==
    ASSUME NEW r, \A q \in Goods : ~Patches(r, q), r.seen \cup r.left \subseteq r.of,
           \/ r.top = "yes" /\ r.wrote \subseteq r.of /\ Cardinality(Tops \cup r.of) <= TopMax
           \/ r.top # "yes" /\ r.wrote \subseteq Tops
    PROVE PlaceOnTop(r)
<1>1. CASE r.top = "yes" BY <1>1 DEF PlaceOnTop
<1>2. CASE r.top # "yes" BY <1>2 DEF PlaceOnTop
<1> QED BY <1>1, <1>2

LEMMA BulkWritesKept ==
    ASSUME ProductInv, NEW c \in Clerks, NEW p \in Goods, BulkWrites(c, p)
    PROVE ProductInv'
<1>1. PICK o : o = request[c] OBVIOUS
<1>2. o \in BulkState /\ o.step = "bulk" /\ o # NoRequest /\ p \in o.left
      /\ (clerkManner = "serial" => PlaceOnTop(o))
    BY <1>1, BulkOut DEF BulkWrites
<1>3. PICK wrote : wrote = IF Flag(o.top, productRow[p].top) THEN o.wrote \cup {p} ELSE o.wrote
    OBVIOUS
<1>4. PICK r : r = [o EXCEPT !.left = o.left \ {p}, !.seen = o.seen \cup {p}, !.wrote = wrote]
    OBVIOUS
<1>5. wrote \in SUBSET Goods /\ wrote \subseteq o.wrote \cup {p} BY <1>2, <1>3 DEF BulkState
<1>6. /\ r \in BulkState /\ r.step = "bulk" /\ r.of = o.of /\ r.left = o.left \ {p}
      /\ r.seen = o.seen \cup {p} /\ r.wrote = wrote /\ r.top = o.top
    BY <1>2, <1>4, <1>5 DEF BulkState
<1>7. \A q : ~Patches(r, q) /\ ~Holding(r, q) BY <1>6 DEF Patches, Holding, PatchSteps
<1>8. PatchFits(r) BY <1>6, <1>7 DEF PatchFits
<1>9. ASSUME clerkManner = "serial" PROVE TurnFits(r)
    <2>1. SeenIsNow(r) /\ SaleFits(r) BY <1>7 DEF SeenIsNow, SaleFits
    <2>2. PlaceOnTop(o) BY <1>2, <1>9
    <2>s. p \in o.of /\ r.seen \cup r.left \subseteq r.of
        <3>1. o.seen \cup o.left \subseteq o.of BY <1>2, <2>2 DEF PlaceOnTop
        <3> QED BY <1>2, <1>6, <3>1
    <2>3. CASE o.top = "yes"
        <3>1. o.wrote \subseteq o.of /\ Cardinality(Tops \cup o.of) <= TopMax
            BY <1>2, <2>2, <2>3 DEF PlaceOnTop
        <3>2. r.wrote \subseteq r.of BY <1>5, <1>6, <2>s, <3>1
        <3>3. Cardinality(Tops \cup r.of) <= TopMax BY <1>6, <3>1
        <3>4. r.top = "yes" /\ \A q \in Goods : ~Patches(r, q) BY <1>6, <1>7, <2>3
        <3> QED BY <2>1, <2>s, <3>2, <3>3, <3>4, BulkPlaced DEF TurnFits
    <2>4. CASE o.top # "yes"
        <3>1. Flag(o.top, productRow[p].top) => p \in Tops BY <2>4 DEF Flag, Tops
        <3>2. wrote \subseteq Tops BY <1>2, <1>3, <2>2, <2>4, <3>1 DEF PlaceOnTop
        <3>3. r.wrote \subseteq Tops /\ r.top # "yes" BY <1>6, <2>4, <3>2
        <3>4. \A q \in Goods : ~Patches(r, q) BY <1>7
        <3> QED BY <2>1, <2>s, <3>3, <3>4, BulkPlaced DEF TurnFits
    <2> QED BY <2>3, <2>4
<1>10. r \in RequestState BY <1>6 DEF RequestState
<1>11. Proceeds(c, r) BY <1>1, <1>3, <1>4 DEF BulkWrites
<1> QED BY <1>1, <1>2, <1>7, <1>8, <1>9, <1>10, <1>11, RequestMoves DEF Proceeds, RowsStay

LEMMA BulkDeadlocksKept ==
    ASSUME ProductInv, NEW c \in Clerks, BulkDeadlocks(c)
    PROVE ProductInv'
<1>1. request[c] # NoRequest BY BulkOut DEF BulkDeadlocks
<1> QED BY <1>1, RequestEnds DEF BulkDeadlocks

-----------------------------------------------------------------------------
(* A request that changes rows, and is over *)

IsOver(c) == request' = [request EXCEPT ![c] = NoRequest] /\ UNCHANGED <<clerkManner, requests>>

\* One that is over leaves room, holds nothing, and in turn leaves no other.
LEMMA RequestOver ==
    ASSUME ProductInv, NEW c \in Clerks, request[c] # NoRequest, IsOver(c)
    PROVE /\ \A d \in Clerks : request'[d] = IF d = c THEN NoRequest ELSE request[d]
          /\ request' \in [Clerks -> RequestState]
          /\ Cardinality(Out') + 1 = Cardinality(Out) /\ Cardinality(Out') \in Nat
          /\ HeldAlone' /\ EditsInTurn'
          /\ clerkManner = "serial" => \A d \in Clerks : request'[d] = NoRequest
<1>0. ProductTyped BY DEF ProductInv
<1>1. /\ \A d \in Clerks : request'[d] = IF d = c THEN NoRequest ELSE request[d]
      /\ request' \in [Clerks -> RequestState]
    BY <1>0 DEF ProductTyped, IsOver, RequestState
<1>2. Out' = Out \ {c} /\ c \in Out BY <1>1 DEF Out
<1>3. Cardinality(Out') + 1 = Cardinality(Out) /\ Cardinality(Out') \in Nat
    <2>1. IsFiniteSet(Out) /\ Cardinality(Out) \in Nat BY <1>0, ProductSets
    <2>2. IsFiniteSet(Out \ {c}) /\ Cardinality(Out \ {c}) = Cardinality(Out) - 1
        BY <1>2, <2>1, FS_RemoveElement
    <2>3. Cardinality(Out') \in Nat BY <1>2, <2>2, FS_CardinalityType
    <2> QED BY <1>2, <2>1, <2>2, <2>3
<1>4. \A p : ~Holding(NoRequest, p) BY IdleFits
<1>5. HeldAlone'
    <2> SUFFICES ASSUME NEW d \in Clerks, NEW e \in Clerks, NEW p \in Goods,
                        Holding(request'[d], p), Holding(request'[e], p)
                 PROVE d = e
        BY DEF HeldAlone, Holding, Patches
    <2> QED BY <1>1, <1>4 DEF ProductInv, HeldAlone
<1>6. ASSUME clerkManner = "serial" PROVE \A d \in Clerks : request'[d] = NoRequest
    <2>1. \A d, e \in Out : d = e BY <1>6 DEF ProductInv, EditsInTurn
    <2> QED BY <1>1, <1>2, <2>1 DEF Out
<1>7. EditsInTurn'
    <2> SUFFICES ASSUME clerkManner = "serial"
                 PROVE /\ \A d, e \in Out' : d = e
                       /\ \A d \in Clerks : TurnFits(request[d])'
        BY DEF EditsInTurn, IsOver
    <2>1. Out' = {} BY <1>6 DEF Out
    <2>2. ASSUME NEW d \in Clerks PROVE TurnFits(request[d])'
        <3>1. request'[d] = NoRequest BY <1>6
        <3>2. request'[d].step \notin PatchSteps /\ request'[d].step # "bulk"
            BY <3>1 DEF NoRequest, PatchSteps
        <3> QED BY <3>2 DEF TurnFits, SeenIsNow, PlaceOnTop, SaleFits, Patches
    <2> QED BY <2>1, <2>2
<1> QED BY <1>1, <1>3, <1>5, <1>6, <1>7

\* One that writes no variant.
LEMMA OverWithoutVariants ==
    ASSUME ProductInv, NEW c \in Clerks, request[c] # NoRequest, IsOver(c),
           productRow' \in [Goods -> ProductState], UNCHANGED <<variantRow, logged>>,
           \A p \in Goods : /\ productRow'[p].total = productRow[p].total
                            /\ productRow'[p].sale = productRow[p].sale
                            /\ productRow'[p].state # "none" <=> productRow[p].state # "none",
           clerkManner = "serial" => Cardinality(Tops') <= TopMax
    PROVE ProductInv'
<1>0. ProductTyped BY DEF ProductInv
<1>1. /\ \A d \in Clerks : request'[d] = IF d = c THEN NoRequest ELSE request[d]
      /\ request' \in [Clerks -> RequestState]
      /\ Cardinality(Out') + 1 = Cardinality(Out) /\ Cardinality(Out') \in Nat
      /\ HeldAlone' /\ EditsInTurn'
    BY RequestOver
<1>2. clerkManner' = clerkManner /\ requests' = requests BY DEF IsOver
<1>3. ProductTyped' BY <1>0, <1>1, <1>2 DEF ProductTyped
<1>4. ASSUME NEW p \in Goods PROVE Cardinality(Made(p)') + Cardinality(Out') <= 1 + requests'
    <2>1. Made(p)' = Made(p) BY DEF Made
    <2>2. Cardinality(Made(p)) + Cardinality(Out) <= 1 + requests
        BY DEF ProductInv, RoomForVariants
    <2>3. Cardinality(Made(p)) \in Nat /\ requests \in Nat BY <1>0, ProductSets
    <2> QED BY <1>1, <1>2, <2>1, <2>2, <2>3
<1>5. ASSUME NEW d \in Clerks PROVE PatchFits(request[d])'
    <2>1. PICK q : q = request'[d] OBVIOUS
    <2>2. PatchFits(q) BY <1>1, <2>1, IdleFits DEF ProductInv
    <2> QED BY <2>1, <2>2 DEF PatchFits, Made, MadeBy, Patches, Holding
<1>6. TopWithinLimit' /\ LogIsTotal'
    BY <1>2 DEF ProductInv, TopWithinLimit, LogIsTotal
<1>7. SaleReachesVariants' /\ SomeVariantOffered'
    BY <1>2 DEF ProductInv, SaleReachesVariants, SomeVariantOffered, Offered
<1>8. RoomForVariants' BY <1>4 DEF RoomForVariants
<1> QED BY <1>1, <1>3, <1>5, <1>6, <1>7, <1>8 DEF ProductInv

LEMMA BulkCommitsKept ==
    ASSUME ProductInv, NEW c \in Clerks, BulkCommits(c)
    PROVE ProductInv'
<1>0. ProductTyped BY DEF ProductInv
<1>1. PICK o : o = request[c] OBVIOUS
<1>2. o \in BulkState /\ o.step = "bulk" /\ o # NoRequest
      /\ (clerkManner = "serial" => PlaceOnTop(o))
    BY <1>1, BulkOut DEF BulkCommits
<1>3. /\ productRow' = [p \in Goods |-> IF p \in o.seen
                                   THEN [productRow[p] EXCEPT !.top = p \in o.wrote]
                                   ELSE productRow[p]]
      /\ IsOver(c) /\ UNCHANGED <<variantRow, logged>>
    BY <1>1 DEF BulkCommits, IsOver
<1>4. ASSUME NEW p \in Goods
      PROVE /\ productRow'[p] \in ProductState
            /\ productRow'[p].total = productRow[p].total
            /\ productRow'[p].sale = productRow[p].sale
            /\ productRow'[p].state = productRow[p].state
            /\ productRow'[p].top <=> IF p \in o.seen THEN p \in o.wrote ELSE productRow[p].top
    <2>1. productRow[p] \in ProductState BY <1>0 DEF ProductTyped
    <2>2. (p \in o.wrote) \in BOOLEAN OBVIOUS
    <2>3. productRow'[p] = IF p \in o.seen THEN [productRow[p] EXCEPT !.top = p \in o.wrote]
                           ELSE productRow[p]
        BY <1>3
    <2> QED BY <2>1, <2>2, <2>3 DEF ProductState
<1>5. productRow' \in [Goods -> ProductState]
    <2>1. productRow' = [p \in Goods |-> productRow'[p]] BY <1>3
    <2> QED BY <1>4, <2>1
<1>6. ASSUME clerkManner = "serial" PROVE Cardinality(Tops') <= TopMax
    <2>1. PlaceOnTop(o) BY <1>2, <1>6
    <2>2. Tops' = {p \in Goods : IF p \in o.seen THEN p \in o.wrote ELSE p \in Tops}
        BY <1>4 DEF Tops
    <2>3. IsFiniteSet(Tops) /\ Cardinality(Tops) \in Nat /\ TopMax \in Nat BY <1>0, ProductSets
    <2>4. CASE o.top = "yes"
        <3>1. o.wrote \subseteq o.of /\ Cardinality(Tops \cup o.of) <= TopMax
            BY <1>2, <2>1, <2>4 DEF PlaceOnTop
        <3>2. Tops' \subseteq Tops \cup o.of BY <2>2, <3>1
        <3>3. Tops \cup o.of \subseteq Goods BY <1>2 DEF BulkState, Tops
        <3>4. IsFiniteSet(Tops \cup o.of) BY <3>3, ProductAssumption, FS_Subset
        <3>5. Cardinality(Tops') <= Cardinality(Tops \cup o.of) /\ IsFiniteSet(Tops')
            BY <3>2, <3>4, FS_Subset
        <3>6. Cardinality(Tops') \in Nat /\ Cardinality(Tops \cup o.of) \in Nat
            BY <3>4, <3>5, FS_CardinalityType
        <3> QED BY <2>3, <3>1, <3>5, <3>6
    <2>5. CASE o.top # "yes"
        <3>1. o.wrote \subseteq Tops BY <1>2, <2>1, <2>5 DEF PlaceOnTop
        <3>2. Tops' \subseteq Tops BY <2>2, <3>1
        <3>3. Cardinality(Tops') <= Cardinality(Tops) /\ IsFiniteSet(Tops')
            BY <2>3, <3>2, FS_Subset
        <3>4. Cardinality(Tops') \in Nat BY <3>3, FS_CardinalityType
        <3>5. Cardinality(Tops) <= TopMax BY <1>6 DEF ProductInv, TopWithinLimit
        <3> QED BY <2>3, <3>3, <3>4, <3>5
    <2> QED BY <2>4, <2>5
<1> QED BY <1>1, <1>2, <1>3, <1>4, <1>5, <1>6, OverWithoutVariants

LEMMA RemovesKept ==
    ASSUME ProductInv, NEW c \in Clerks, Removes(c)
    PROVE ProductInv'
<1>0. ProductTyped BY DEF ProductInv
<1>1. request[c] \in RemovalState /\ request[c] # NoRequest
    BY <1>0, RequestTells DEF Removes, ProductTyped
<1>2. PICK g \in Goods : g = Only(c)
    <2>1. request[c].of \in OneGood BY <1>1 DEF RemovalState
    <2> QED BY <2>1, OfIsOnly
<1>3. /\ productRow' = [productRow EXCEPT ![g].state = "removed"]
      /\ IsOver(c) /\ UNCHANGED <<variantRow, logged>>
    BY <1>2 DEF Removes, IsOver
<1>4. productRow[g].state # "none"
    <2>1. request[c].of = {g} /\ request[c].step = "removing"
        BY <1>1, <1>2, OfIsOnly DEF RemovalState
    <2> QED BY <2>1 DEF ProductInv, PatchFits
<1>5. ASSUME NEW p \in Goods
      PROVE /\ productRow'[p] \in ProductState
            /\ productRow'[p].total = productRow[p].total
            /\ productRow'[p].sale = productRow[p].sale
            /\ productRow'[p].state # "none" <=> productRow[p].state # "none"
            /\ productRow'[p].top = productRow[p].top
    <2>1. productRow[p] \in ProductState BY <1>0 DEF ProductTyped
    <2>2. productRow'[p] = IF p = g THEN [productRow[p] EXCEPT !.state = "removed"]
                           ELSE productRow[p]
        BY <1>0, <1>3 DEF ProductTyped
    <2> QED BY <1>4, <2>1, <2>2 DEF ProductState
<1>6. productRow' \in [Goods -> ProductState]
    <2>1. productRow' = [p \in Goods |-> productRow'[p]] BY <1>0, <1>3 DEF ProductTyped
    <2> QED BY <1>5, <2>1
<1>7. Tops' = Tops BY <1>5 DEF Tops
<1>8. clerkManner = "serial" => Cardinality(Tops') <= TopMax
    BY <1>7 DEF ProductInv, TopWithinLimit
<1> QED BY <1>1, <1>3, <1>5, <1>6, <1>8, OverWithoutVariants

-----------------------------------------------------------------------------
(* A patch that is committed *)

LEMMA CommitsKept ==
    ASSUME ProductInv, NEW c \in Clerks, Commits(c)
    PROVE ProductInv'
<1>0. ProductTyped BY DEF ProductInv
<1>1. PICK g \in Goods : g = Only(c) BY PatchOut DEF Commits, PatchSteps
<1>2. PICK o : o = request[c] OBVIOUS
<1>3. o \in PatchState /\ o.step = "weighed" /\ o # NoRequest /\ PatchFits(o)
      /\ (clerkManner = "serial" => TurnFits(o)) /\ Patches(o, g) /\ Holding(o, g)
    BY <1>1, <1>2, PatchOut DEF Commits, PatchSteps, Holding
<1>4. PICK was \in ProductState : was = productRow[g] BY <1>0 DEF ProductTyped
<1>5. PICK now : now = [state |-> IF o.kind = "create" THEN "active" ELSE was.state,
                        top |-> Flag(o.top, was.top), total |-> o.total,
                        sale |-> Flag(o.sale, was.sale)]
    OBVIOUS
<1>6. /\ productRow' = [productRow EXCEPT ![g] = now]
      /\ variantRow' = [variantRow EXCEPT ![g] = o.wrote]
      /\ logged' = [logged EXCEPT ![g] = @ + Change(o)]
      /\ IsOver(c)
    BY <1>1, <1>2, <1>4, <1>5 DEF Commits, IsOver
<1>7. now \in ProductState
    <2>1. Flag(o.top, was.top) \in BOOLEAN /\ Flag(o.sale, was.sale) \in BOOLEAN
        BY <1>4 DEF Flag, ProductState
    <2>2. o.total \in Nat BY <1>3 DEF PatchState
    <2>3. was.state \in {"none", "active", "removed"} BY <1>4 DEF ProductState
    <2> QED BY <1>5, <2>1, <2>2, <2>3 DEF ProductState
<1>8. /\ \A d \in Clerks : request'[d] = IF d = c THEN NoRequest ELSE request[d]
      /\ request' \in [Clerks -> RequestState]
      /\ Cardinality(Out') + 1 = Cardinality(Out) /\ Cardinality(Out') \in Nat
      /\ HeldAlone' /\ EditsInTurn'
    BY <1>2, <1>3, <1>6, RequestOver
<1>9. clerkManner' = clerkManner /\ requests' = requests BY <1>6 DEF IsOver
<1>10. o.wrote \in [Ids -> VariantState] BY <1>3 DEF PatchState
<1>11. /\ \A p \in Goods : productRow'[p] = IF p = g THEN now ELSE productRow[p]
       /\ \A p \in Goods : variantRow'[p] = IF p = g THEN o.wrote ELSE variantRow[p]
       /\ \A p \in Goods : logged'[p] = IF p = g THEN logged[g] + Change(o) ELSE logged[p]
    BY <1>0, <1>6 DEF ProductTyped
<1>12. ProductTyped'
    <2>1. Change(o) \in Int
        <3>1. o.total \in Int BY <1>3 DEF PatchState
        <3>2. o.seen \in ProductState BY <1>3 DEF PatchState
        <3>3. o.seen.total \in Int BY <3>2 DEF ProductState
        <3> QED BY <3>1, <3>3 DEF Change
    <2>2. logged[g] \in Int BY <1>0 DEF ProductTyped
    <2>3. logged[g] + Change(o) \in Int BY <2>1, <2>2
    <2>4. productRow' \in [Goods -> ProductState] BY <1>0, <1>6, <1>7 DEF ProductTyped
    <2>5. variantRow' \in [Goods -> [Ids -> VariantState]] BY <1>0, <1>6, <1>10 DEF ProductTyped
    <2>6. logged' \in [Goods -> Int] BY <1>0, <1>6, <2>3 DEF ProductTyped
    <2> QED BY <1>0, <1>8, <1>9, <2>4, <2>5, <2>6 DEF ProductTyped
<1>13. /\ \E v \in Ids : o.wrote[v].state = "active"
       /\ Made(g) \subseteq MadeBy(o.wrote)
    BY <1>3 DEF PatchFits
<1>14. PICK x \in Ids : MadeBy(o.wrote) \subseteq Made(g) \cup {x} BY <1>3 DEF PatchFits
<1>15. ASSUME NEW p \in Goods
       PROVE /\ Made(p)' = IF p = g THEN MadeBy(o.wrote) ELSE Made(p)
             /\ Offered(p)' = IF p = g THEN {v \in Ids : o.wrote[v].state = "active"}
                              ELSE Offered(p)
    BY <1>11 DEF Made, MadeBy, Offered
<1>16. RoomForVariants'
    <2>1. ASSUME NEW p \in Goods PROVE Cardinality(Made(p)') + Cardinality(Out') <= 1 + requests'
        <3>1. Cardinality(Made(p)) + Cardinality(Out) <= 1 + requests
            BY DEF ProductInv, RoomForVariants
        <3>2. IsFiniteSet(Made(p)) /\ Cardinality(Made(p)) \in Nat /\ requests \in Nat
              /\ Cardinality(Out) \in Nat
            BY <1>0, ProductSets
        <3>3. Cardinality(Made(p)') <= Cardinality(Made(p)) + 1 /\ Cardinality(Made(p)') \in Nat
            <4>1. Made(p)' \subseteq Made(p) \cup {x} BY <1>14, <1>15
            <4>2. /\ IsFiniteSet(Made(p) \cup {x})
                  /\ Cardinality(Made(p) \cup {x})
                        \in {Cardinality(Made(p)), Cardinality(Made(p)) + 1}
                BY <3>2, FS_AddElement
            <4>3. Cardinality(Made(p)') <= Cardinality(Made(p) \cup {x}) /\ IsFiniteSet(Made(p)')
                BY <4>1, <4>2, FS_Subset
            <4>4. Cardinality(Made(p)') \in Nat BY <4>3, FS_CardinalityType
            <4> QED BY <3>2, <4>2, <4>3, <4>4
        <3> QED BY <1>8, <1>9, <3>1, <3>2, <3>3
    <2> QED BY <2>1 DEF RoomForVariants
<1>17. ASSUME NEW d \in Clerks PROVE PatchFits(request[d])'
    <2>1. PICK q : q = request'[d] OBVIOUS
    <2>2. PatchFits(q) BY <1>8, <2>1, IdleFits DEF ProductInv
    <2>3. ~Holding(q, g)
        <3>1. CASE d = c BY <1>8, <2>1, <3>1, IdleFits
        <3>2. CASE d # c BY <1>2, <1>3, <1>8, <2>1, <3>2 DEF ProductInv, HeldAlone
        <3> QED BY <3>1, <3>2
    <2>4. ASSUME NEW p \in Goods, Patches(q, p)
          PROVE IF Holding(q, p)
                THEN /\ \E v \in Ids : q.wrote[v].state = "active"
                     /\ Made(p)' \subseteq MadeBy(q.wrote)
                     /\ \E y \in Ids : MadeBy(q.wrote) \subseteq Made(p)' \cup {y}
                ELSE /\ DOMAIN q.rows # {} \/ q.new # {}
                     /\ DOMAIN q.rows \subseteq Made(p)'
        <3>1. CASE p # g
            <4>1. Made(p)' = Made(p) BY <1>15, <3>1
            <4> QED BY <2>2, <2>4, <4>1 DEF PatchFits
        <3>2. CASE p = g
            <4>1. DOMAIN q.rows \subseteq Made(p) BY <2>2, <2>3, <2>4, <3>2 DEF PatchFits
            <4>2. DOMAIN q.rows # {} \/ q.new # {} BY <2>2, <2>3, <2>4, <3>2 DEF PatchFits
            <4>3. Made(p) \subseteq Made(p)' BY <1>13, <1>15, <3>2
            <4> QED BY <2>3, <3>2, <4>1, <4>2, <4>3
        <3> QED BY <3>1, <3>2
    <2>5. ASSUME NEW p \in Goods, q.step = "removing", q.of = {p}
          PROVE productRow'[p].state # "none"
        <3>1. productRow[p].state # "none" BY <2>2, <2>5 DEF PatchFits
        <3> QED BY <1>4, <1>5, <1>11, <3>1
    <2> QED BY <2>1, <2>4, <2>5 DEF PatchFits, Patches, Holding, MadeBy
<1>18. TopWithinLimit'
    <2> SUFFICES ASSUME clerkManner = "serial" PROVE Cardinality(Tops') <= TopMax
        BY <1>9 DEF TopWithinLimit
    <2>1. Tops' = {p \in Goods : IF p = g THEN now.top ELSE p \in Tops} BY <1>11 DEF Tops
    <2>2. IsFiniteSet(Tops) /\ Cardinality(Tops) \in Nat /\ TopMax \in Nat BY <1>0, ProductSets
    <2>3. Cardinality(Tops) <= TopMax BY DEF ProductInv, TopWithinLimit
    <2>4. CASE now.top /\ g \notin Tops
        <3>1. o.top = "yes" /\ ~was.top
            <4>1. ~was.top BY <1>4, <2>4 DEF Tops
            <4> QED BY <1>5, <2>4, <4>1 DEF Flag
        <3>2. Cardinality(Tops) < TopMax
            BY <1>3, <1>4, <3>1 DEF TurnFits, PlaceOnTop
        <3>3. Tops' = Tops \cup {g} BY <2>1, <2>4 DEF Tops
        <3>4. Cardinality(Tops \cup {g}) \in {Cardinality(Tops), Cardinality(Tops) + 1}
            BY <2>2, FS_AddElement
        <3> QED BY <2>2, <3>2, <3>3, <3>4
    <2>5. CASE ~now.top \/ g \in Tops
        <3>1. Tops' \subseteq Tops BY <2>1, <2>5
        <3>2. Cardinality(Tops') <= Cardinality(Tops) /\ IsFiniteSet(Tops')
            BY <2>2, <3>1, FS_Subset
        <3>3. Cardinality(Tops') \in Nat BY <3>2, FS_CardinalityType
        <3> QED BY <2>2, <2>3, <3>2, <3>3
    <2> QED BY <2>4, <2>5
<1>19. LogIsTotal'
    <2> SUFFICES ASSUME clerkManner = "serial", NEW p \in Goods
                 PROVE logged'[p] = productRow'[p].total
        BY <1>9 DEF LogIsTotal
    <2>1. logged[p] = productRow[p].total BY DEF ProductInv, LogIsTotal
    <2>2. CASE p = g
        <3>1. o.seen = was BY <1>3, <1>4 DEF TurnFits, SeenIsNow
        <3>2. was.total \in Nat /\ o.total \in Nat /\ now.total = o.total
            BY <1>3, <1>4, <1>5 DEF ProductState, PatchState
        <3>3. Change(o) = o.total - was.total BY <3>1 DEF Change
        <3>4. logged'[p] = was.total + (o.total - was.total) BY <1>4, <1>11, <2>1, <2>2, <3>3
        <3>5. productRow'[p].total = o.total BY <1>11, <2>2, <3>2
        <3> QED BY <3>2, <3>4, <3>5
    <2>3. CASE p # g BY <1>11, <2>1, <2>3
    <2> QED BY <2>2, <2>3
<1>20. SaleReachesVariants'
    <2> SUFFICES ASSUME clerkManner = "serial", NEW p \in Goods, ~productRow'[p].sale,
                        NEW v \in Offered(p)'
                 PROVE ~variantRow'[p][v].sale
        BY <1>9 DEF SaleReachesVariants
    <2>1. CASE p = g
        <3>1. ~Flag(o.sale, was.sale) BY <1>5, <1>11, <2>1
        <3>2. v \in Ids /\ o.wrote[v].state = "active" BY <1>15, <2>1
        <3>3. ~o.wrote[v].sale BY <1>3, <1>4, <3>1, <3>2 DEF TurnFits, SaleFits
        <3> QED BY <1>11, <2>1, <3>3
    <2>2. CASE p # g BY <1>11, <1>15, <2>2 DEF ProductInv, SaleReachesVariants
    <2> QED BY <2>1, <2>2
<1>21. SomeVariantOffered'
    BY <1>11, <1>13, <1>15 DEF ProductInv, SomeVariantOffered
<1> QED BY <1>8, <1>12, <1>16, <1>17, <1>18, <1>19, <1>20, <1>21 DEF ProductInv

-----------------------------------------------------------------------------
(* All steps *)

LEMMA ProductInitKept == ProductInit => ProductInv
<1> SUFFICES ASSUME ProductInit PROVE ProductInv OBVIOUS
<1> DEFINE there == [NoProductRow EXCEPT !.state = "active"]
           active == [NoVariant EXCEPT !.state = "active"]
<1>1. /\ NoProductRow \in ProductState /\ there \in ProductState
      /\ there.state = "active" /\ ~there.top /\ there.total = 0
      /\ NoProductRow.state = "none" /\ ~NoProductRow.top /\ NoProductRow.total = 0
    BY DEF NoProductRow, ProductState
<1>2. /\ NoVariant \in VariantState /\ active \in VariantState
      /\ active.state = "active" /\ ~active.sale
      /\ NoVariant.state = "none"
    BY DEF NoVariant, VariantState
<1> HIDE DEF there, active
<1>3. \A p \in Goods : productRow[p] = (IF p \in Stocked THEN there ELSE NoProductRow)
    BY DEF ProductInit, there
<1>4. \A p \in Goods, v \in Ids : variantRow[p][v] = (IF p \in Stocked /\ v = 1 THEN active
                                                     ELSE NoVariant)
    BY DEF ProductInit, active
<1>5. /\ \A c \in Clerks : request[c] = NoRequest
      /\ requests = 0 /\ \A p \in Goods : logged[p] = 0
    BY DEF ProductInit
<1>6. 1 \in Ids BY ProductAssumption DEF Ids
<1>7. ProductTyped
    <2>1. productRow \in [Goods -> ProductState] BY <1>1 DEF ProductInit, there
    <2>2. variantRow \in [Goods -> [Ids -> VariantState]] BY <1>2 DEF ProductInit, active
    <2>3. requests \in 0 .. MaxRequests[clerkManner] /\ clerkManner \in ClerkManners
        <3>1. clerkManner \in ClerkManners BY DEF ProductInit
        <3>2. MaxRequests[clerkManner] \in Nat BY <3>1, ProductAssumption
        <3> QED BY <1>5, <3>1, <3>2
    <2>4. request \in [Clerks -> RequestState] BY DEF ProductInit, RequestState
    <2>5. logged \in [Goods -> Int] BY DEF ProductInit
    <2> QED BY <2>1, <2>2, <2>3, <2>4, <2>5 DEF ProductTyped
<1>8. Out = {} /\ Tops = {} BY <1>1, <1>3, <1>5 DEF Out, Tops
<1>9. ASSUME NEW p \in Goods PROVE Cardinality(Made(p)) + Cardinality(Out) <= 1 + requests
    <2>1. Made(p) \subseteq {1} BY <1>2, <1>4 DEF Made
    <2>2. IsFiniteSet({1}) /\ Cardinality({1}) = 1 BY FS_Singleton
    <2>3. Cardinality(Made(p)) <= 1 BY <2>1, <2>2, FS_Subset
    <2>4. Cardinality(Made(p)) \in Nat BY <1>7, ProductSets
    <2>5. Cardinality(Out) = 0 BY <1>8, FS_EmptySet
    <2> QED BY <1>5, <2>3, <2>4, <2>5
<1>10. \A c \in Clerks : /\ PatchFits(request[c]) /\ TurnFits(request[c])
                         /\ \A p : ~Holding(request[c], p)
    BY <1>5, IdleFits
<1>11. RoomForVariants /\ HeldAlone /\ EditsInTurn
    BY <1>8, <1>9, <1>10 DEF RoomForVariants, HeldAlone, EditsInTurn
<1>12. TopWithinLimit
    <2>1. Cardinality(Tops) = 0 BY <1>8, FS_EmptySet
    <2> QED BY <2>1, ProductAssumption DEF TopWithinLimit
<1>13. LogIsTotal BY <1>1, <1>3, <1>5 DEF LogIsTotal
<1>14. SaleReachesVariants
    BY <1>2, <1>4 DEF SaleReachesVariants, Offered
<1>15. SomeVariantOffered
    BY <1>1, <1>2, <1>3, <1>4, <1>6 DEF SomeVariantOffered, Offered
<1> QED BY <1>7, <1>10, <1>11, <1>12, <1>13, <1>14, <1>15 DEF ProductInv

LEMMA ProductStutters == ASSUME ProductInv, UNCHANGED productVars PROVE ProductInv'
<1>1. /\ clerkManner' = clerkManner /\ productRow' = productRow /\ variantRow' = variantRow
      /\ logged' = logged /\ request' = request /\ requests' = requests
    BY DEF productVars
<1>2. (RoomForVariants /\ HeldAlone)' /\ ProductTyped'
    BY <1>1 DEF ProductInv, RoomForVariants, HeldAlone, ProductTyped, Made, Out, Holding, Patches
<1>3. EditsInTurn'
    <2>1. ASSUME NEW r PROVE SeenIsNow(r) => SeenIsNow(r)' BY <1>1 DEF SeenIsNow, Patches
    <2>2. ASSUME NEW r PROVE PlaceOnTop(r) => PlaceOnTop(r)'
        <3>1. Tops' = Tops BY <1>1 DEF Tops
        <3> QED BY <1>1, <3>1 DEF PlaceOnTop, Patches
    <2>3. ASSUME NEW r PROVE SaleFits(r) => SaleFits(r)'
        BY <1>1 DEF SaleFits, RowsWithoutSale, Patches, Holding
    <2>4. ASSUME NEW c \in Clerks, TurnFits(request[c]) PROVE TurnFits(request[c])'
        <3>1. PICK r : r = request[c] OBVIOUS
        <3>2. SeenIsNow(r)' /\ PlaceOnTop(r)' /\ SaleFits(r)'
            BY <2>1, <2>2, <2>3, <2>4, <3>1 DEF TurnFits
        <3> QED BY <1>1, <3>1, <3>2
              DEF TurnFits, SeenIsNow, PlaceOnTop, SaleFits, Patches, Holding
    <2>5. Out' = Out BY <1>1 DEF Out
    <2> QED BY <1>1, <2>4, <2>5 DEF ProductInv, EditsInTurn
<1>4. \A c \in Clerks : PatchFits(request[c])'
    BY <1>1 DEF ProductInv, PatchFits, Made, MadeBy, Patches, Holding
<1>5. (TopWithinLimit /\ LogIsTotal /\ SaleReachesVariants /\ SomeVariantOffered)'
    BY <1>1 DEF ProductInv, TopWithinLimit, LogIsTotal, SaleReachesVariants,
                SomeVariantOffered, Tops, Offered
<1> QED BY <1>2, <1>3, <1>4, <1>5 DEF ProductInv

LEMMA ProductStep == ProductInv /\ [ProductNext]_productVars => ProductInv'
<1> SUFFICES ASSUME ProductInv, [ProductNext]_productVars PROVE ProductInv' OBVIOUS
<1>1. CASE UNCHANGED productVars BY <1>1, ProductStutters
<1>2. ASSUME NEW c \in Clerks, NEW p \in Goods,
             \/ SubmitNew(c, p) \/ SubmitForm(c, p) \/ SubmitRemoval(c, p) \/ BulkWrites(c, p)
             \/ \E delta \in {-1, 1} : SubmitStock(c, p, delta)
      PROVE ProductInv'
    BY <1>2, SubmitNewKept, SubmitFormKept, SubmitRemovalKept, BulkWritesKept, SubmitStockKept
<1>3. ASSUME NEW c \in Clerks,
             \/ SubmitTops(c) \/ ReadsProduct(c) \/ WritesVariants(c) \/ Weighs(c) \/ Commits(c)
             \/ BulkCommits(c) \/ BulkDeadlocks(c) \/ Removes(c)
      PROVE ProductInv'
    BY <1>3, SubmitTopsKept, ReadsProductKept, WritesVariantsKept, WeighsKept, CommitsKept,
       BulkCommitsKept, BulkDeadlocksKept, RemovesKept
<1> QED BY <1>1, <1>2, <1>3 DEF ProductNext

\* The edits of products, for any products, forms, stocks and requests: requests that do not
\* overlap keep the top products within their limit (buildTopProductPatch weighs what
\* updateTopProductsBulk counts nothing of), log what the stock is (InventoryLog), and leave
\* no discount on a variant whose product has none; and however they overlap, a product keeps
\* a variant that can be bought (updateByAdmin takes off what has no row, in one transaction).
THEOREM ProductsKept == ProductSpec => []ProductsSound
<1>1. ProductInv => ProductsSound
  <2> SUFFICES ASSUME ProductInv PROVE ProductTypeOK BY DEF ProductInv, ProductsSound
  <2>0. ProductTyped BY DEF ProductInv
  <2>1. ASSUME NEW p \in Goods
        PROVE /\ productRow[p].state \in {"none", "active", "removed"}
              /\ productRow[p].total \in Nat
              /\ {productRow[p].top, productRow[p].sale} \subseteq BOOLEAN
              /\ variantRow[p] \in [Ids -> [state : {"none", "active", "inactive"},
                                          stock : Nat, sale : BOOLEAN]]
    BY <2>0 DEF ProductTyped, ProductState, VariantState
  <2>2. ASSUME NEW c \in Clerks
        PROVE request[c].step \in
                {"idle", "sent", "read", "written", "weighed", "bulk", "removing"}
    <3>1. request[c] \in RequestState BY <2>0 DEF ProductTyped
    <3> QED BY <3>1 DEF RequestState, PatchState, BulkState, RemovalState, NoRequest, PatchSteps
  <2> QED BY <2>0, <2>1, <2>2 DEF ProductTyped, ProductTypeOK
<1> QED BY <1>1, ProductInitKept, ProductStep, PTL DEF ProductSpec
=============================================================================
