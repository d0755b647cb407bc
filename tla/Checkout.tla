------------------------------ MODULE Checkout ------------------------------
(***************************************************************************)
(* createFromCart: a cart becomes an order.  Reads outside the transaction *)
(* (cart, duplicate order, stock plan), then one interactive transaction   *)
(* at READ COMMITTED: a write takes its row's lock until the transaction   *)
(* ends, a read sees what is committed and the transaction's own writes.   *)
(***************************************************************************)
EXTENDS OrderPricing, Sequences, FiniteSetsExt, SequencesExt, Functions

CONSTANTS
    Checkouts,  \* POST /orders requests, retries included
    Users, Items, Phones, Coupons,
    UserOf, PhoneOf, CouponOf, RedeemOf,    \* what each request carries
    Named,          \* the requests that also carry the customer's name
    OpeningCart,    \* lines already in each user's cart
    OpeningStock, OpeningBalance, PriceOf,
    UsageLimit, PerUserLimit, DiscountOf,   \* of each coupon
    MaxLines,   \* bound on the lines of a cart
    Paces,      \* "serial": checkouts and cart edits never overlap; "any": they may
    MaxAdds,    \* bound on the lines added during a behaviour, at each pace
    NoPhone, NoCoupon, NoOrder, Free, Unwritten

Line == [item : Items, quantity : Nat \ {0}]

ASSUME CheckoutAssumption ==
    /\ IsFiniteSet(Checkouts) /\ IsFiniteSet(Items)
    /\ UserOf \in [Checkouts -> Users]
    /\ NoPhone \notin Phones /\ PhoneOf \in [Checkouts -> Phones \cup {NoPhone}]
    /\ NoCoupon \notin Coupons /\ CouponOf \in [Checkouts -> Coupons \cup {NoCoupon}]
    /\ RedeemOf \in [Checkouts -> Nat] /\ Named \subseteq Checkouts
    /\ OpeningCart \in [Users -> Seq(Line)]
    /\ OpeningStock \in [Items -> Nat] /\ PriceOf \in [Items -> Nat]
    /\ OpeningBalance \in [Phones -> Nat]
    /\ UsageLimit \in [Coupons -> Nat] /\ PerUserLimit \in [Coupons -> Nat]
    /\ DiscountOf \in [Coupons -> Nat]
    /\ Paces \subseteq {"serial", "any"}
    /\ MaxLines \in Nat /\ MaxAdds \in [Paces -> Nat]
    /\ Free \notin Checkouts /\ Unwritten \notin Int

VARIABLES
    pace,       \* how requests come in
    pc,         \* the statement each checkout is at
    lines,      \* the cart lines a checkout read
    funds,      \* the balance it read
    line,       \* the line whose stock it is at
    seen,       \* the stock it read for that line
    draft,      \* the order it created, not yet committed
    written,    \* the stock it wrote, not yet committed
    lock,       \* the transaction that holds each row
    cart, stock, balance, used,     \* committed columns
    orders,     \* committed orders
    recent,     \* those younger than the idempotency window
    announced,  \* orders whose creation was announced
    adds
private == <<lines, funds, line, seen, draft, written>>
shop == <<cart, stock, balance, used, orders, recent, announced, adds>>
work == <<pc, private, lock, shop>>
vars == <<pace, work>>

CustomerRow(p) == <<"customer", p>>
CouponRow(k) == <<"coupon", k>>
ItemRow(i) == <<"item", i>>
CartRow(u) == <<"cart", u>>
Rows == {CustomerRow(p) : p \in Phones} \cup {CouponRow(k) : k \in Coupons}
        \cup {ItemRow(i) : i \in Items} \cup {CartRow(u) : u \in Users}

Outside == {"duplicate", "plan"}
Transaction == {"customer", "coupon", "redeem", "order", "read", "write", "clear",
                "commit"}
Ended == {"done", "refused"}
Running == Outside \cup Transaction \cup {"announce"}
Stage == {"idle"} \cup Running \cup Ended

\* An order remembers the request it came from: its user, phone and coupon.
Order == [by : Checkouts, lines : Seq(Line), redeem : Nat, total : Nat]

TypeOK ==
    /\ pace \in Paces
    /\ pc \in [Checkouts -> Stage]
    /\ lines \in [Checkouts -> Seq(Line)] /\ funds \in [Checkouts -> Nat]
    /\ line \in [Checkouts -> Nat]
    /\ seen \in [Checkouts -> Int]
    /\ draft \in [Checkouts -> Order \cup {NoOrder}]
    /\ written \in [Checkouts -> [Items -> Int \cup {Unwritten}]]
    /\ lock \in [Rows -> Checkouts \cup {Free}]
    /\ cart \in [Users -> Seq(Line)]
    /\ stock \in [Items -> Nat]
    /\ balance \in [Phones -> Nat]
    /\ used \in [Coupons -> Nat]
    /\ orders \subseteq Order /\ recent \subseteq orders /\ announced \subseteq orders
    /\ adds \in Nat

NothingWritten == [i \in Items |-> Unwritten]

Init ==
    /\ pace \in Paces
    /\ pc = [c \in Checkouts |-> "idle"]
    /\ lines = [c \in Checkouts |-> <<>>] /\ funds = [c \in Checkouts |-> 0]
    /\ line = [c \in Checkouts |-> 1]
    /\ seen = [c \in Checkouts |-> 0]
    /\ draft = [c \in Checkouts |-> NoOrder]
    /\ written = [c \in Checkouts |-> NothingWritten]
    /\ lock = [r \in Rows |-> Free]
    /\ cart = OpeningCart
    /\ stock = OpeningStock
    /\ balance = OpeningBalance
    /\ used = [k \in Coupons |-> 0]
    /\ orders = {} /\ recent = {} /\ announced = {}
    /\ adds = 0

-----------------------------------------------------------------------------
(* Locks and the end of a transaction *)

Obtainable(c, r) == lock[r] \in {c, Free}
Take(c, r) == Obtainable(c, r) /\ lock' = [lock EXCEPT ![r] = c]
Released(c) == [r \in Rows |-> IF lock[r] = c THEN Free ELSE lock[r]]
Goto(c, stage) == pc' = [pc EXCEPT ![c] = stage]

\* An exception rolls the transaction back, if there is one.
Refuse(c) ==
    /\ Goto(c, "refused")
    /\ lock' = Released(c)
    /\ draft' = [draft EXCEPT ![c] = NoOrder]
    /\ written' = [written EXCEPT ![c] = NothingWritten]
    /\ UNCHANGED <<lines, funds, line, seen, shop>>

-----------------------------------------------------------------------------
(* Before the transaction *)

\* Mutant: one line per item is kept.
ReadCartOnce(c) ==
    /\ pc[c] = "idle"
    /\ pace = "serial" => \A d \in Checkouts : pc[d] \notin Running
    /\ lines' = [lines EXCEPT ![c] = SetToSeq(ToSet(cart[UserOf[c]]))]
    /\ Goto(c, IF cart[UserOf[c]] = <<>> THEN "refused" ELSE "duplicate")
    /\ UNCHANGED <<funds, line, seen, draft, written, lock, shop>>

\* cartService.getCart, "Cart is empty".
ReadCart(c) ==
    /\ pc[c] = "idle"
    /\ pace = "serial" => \A d \in Checkouts : pc[d] \notin Running
    /\ lines' = [lines EXCEPT ![c] = cart[UserOf[c]]]
    /\ Goto(c, IF cart[UserOf[c]] = <<>> THEN "refused" ELSE "duplicate")
    /\ UNCHANGED <<funds, line, seen, draft, written, lock, shop>>

\* The key hashes user, requested cashback, coupon and lines; not the phone.
Key(c, lot) == <<UserOf[c], RedeemOf[c], CouponOf[c], lot>>
KeyOf(order) == Key(order.by, order.lines)

\* Mutant: a retry is recognised by its request, which is new each time.
CheckDuplicateOfRequest(c) ==
    /\ pc[c] = "duplicate"
    /\ IF \E o \in recent : o.by = c THEN Refuse(c)
       ELSE Goto(c, "plan") /\ UNCHANGED <<private, lock, shop>>

CheckDuplicate(c) ==
    /\ pc[c] = "duplicate"
    /\ IF \E o \in recent : KeyOf(o) = Key(c, lines[c]) THEN Refuse(c)
       ELSE Goto(c, "plan") /\ UNCHANGED <<private, lock, shop>>

\* buildStockPlan: refuses early; the quantities it plans are not used.
PlanStock(c) ==
    /\ pc[c] = "plan"
    /\ IF \A n \in DOMAIN lines[c] :
            HasEnoughStockForMode(stock[lines[c][n].item], lines[c][n].quantity, "piece")
       THEN Goto(c, "customer") /\ UNCHANGED <<private, lock, shop>>
       ELSE Refuse(c)

-----------------------------------------------------------------------------
(* The transaction *)

LinkTo(c, phone) ==
    /\ funds' = [funds EXCEPT ![c] = balance[phone]]
    /\ Goto(c, "coupon")
    /\ UNCHANGED <<lines, line, seen, draft, written, shop>>

\* A phone is required to spend cashback.
LinkNobody(c) ==
    IF RedeemOf[c] > 0 THEN Refuse(c)
    ELSE Goto(c, "coupon") /\ UNCHANGED <<private, lock, shop>>

\* Mutant: the customer is looked up, not upserted.
FindCustomer(c) ==
    /\ pc[c] = "customer"
    /\ IF PhoneOf[c] = NoPhone THEN LinkNobody(c)
       ELSE LinkTo(c, PhoneOf[c]) /\ UNCHANGED lock

\* upsertByPhoneOnOrder of a known customer: with a name it updates the row, so
\* it locks it; without one there is nothing to update and nothing to lock.
UpsertCustomer(c) ==
    /\ pc[c] = "customer"
    /\ IF PhoneOf[c] = NoPhone THEN LinkNobody(c)
       ELSE /\ LinkTo(c, PhoneOf[c])
            /\ IF c \in Named THEN Take(c, CustomerRow(PhoneOf[c])) ELSE UNCHANGED lock

Redemptions(k) == {o \in orders : CouponOf[o.by] = k}
RedeemedBy(k, p) == {o \in Redemptions(k) : PhoneOf[o.by] = p}
RedeemedNamed(k, p) == {o \in RedeemedBy(k, p) : o.by \in Named}

\* resolveForOrder up to its update: assertCouponUsable and the user's own limit.
CouponUsable(c) ==
    LET k == CouponOf[c] IN
    \/ k = NoCoupon
    \/ /\ used[k] < UsageLimit[k] /\ DiscountOf[k] > 0
       /\ PhoneOf[c] = NoPhone
          \/ Cardinality(RedeemedBy(k, PhoneOf[c])) < PerUserLimit[k]

ReadCoupon(c) ==
    /\ pc[c] = "coupon"
    /\ IF CouponUsable(c) THEN Goto(c, "redeem") /\ UNCHANGED <<private, lock, shop>>
       ELSE Refuse(c)

\* Mutant: the coupon's count is raised without its condition.
TakeCouponAlways(c) ==
    /\ pc[c] = "redeem"
    /\ IF CouponOf[c] = NoCoupon THEN UNCHANGED lock ELSE Take(c, CouponRow(CouponOf[c]))
    /\ Goto(c, "order") /\ UNCHANGED <<private, shop>>

\* Mutant: the update is tried again until the coupon has a use left.
TakeCouponRetries(c) ==
    LET k == CouponOf[c] IN
    /\ pc[c] = "redeem"
    /\ IF k = NoCoupon THEN Goto(c, "order") /\ UNCHANGED <<private, lock, shop>>
       ELSE /\ used[k] < UsageLimit[k] /\ Take(c, CouponRow(k))
            /\ Goto(c, "order") /\ UNCHANGED <<private, shop>>

\* updateMany where usedCount < usageLimit, increment.
TakeCoupon(c) ==
    LET k == CouponOf[c] IN
    /\ pc[c] = "redeem"
    /\ IF k = NoCoupon THEN Goto(c, "order") /\ UNCHANGED <<private, lock, shop>>
       ELSE /\ Obtainable(c, CouponRow(k))
            /\ IF used[k] < UsageLimit[k]
               THEN /\ Take(c, CouponRow(k))
                    /\ Goto(c, "order") /\ UNCHANGED <<private, shop>>
               ELSE Refuse(c)

Subtotal(lot) == FoldLeft(LAMBDA sum, l : sum + PriceOf[l.item] * l.quantity, 0, lot)

Bill(c) ==
    CalculateOrderTotals(
        Subtotal(lines[c]), 0, IF CouponOf[c] = NoCoupon THEN 0 ELSE DiscountOf[CouponOf[c]],
        IF PhoneOf[c] = NoPhone THEN 0 ELSE funds[c], RedeemOf[c])
Spends(c) == Bill(c).cashbackRedeem > 0

\* The order, the SPENT row and the redemption: nothing of it is visible yet.
Draft(c) ==
    /\ draft' = [draft EXCEPT ![c] =
          [by |-> c, lines |-> lines[c], redeem |-> Bill(c).cashbackRedeem,
           total |-> Bill(c).totalAmount]]
    /\ line' = [line EXCEPT ![c] = 1]
    /\ Goto(c, "read")
    /\ UNCHANGED <<lines, funds, seen, written, shop>>

\* Mutant: the balance is decremented without its condition.
CreateOrderUnchecked(c) ==
    /\ pc[c] = "order"
    /\ IF Spends(c) THEN Take(c, CustomerRow(PhoneOf[c])) ELSE UNCHANGED lock
    /\ Draft(c)

\* The totals for the balance that was read; updateMany where cashbackBalance
\* covers the cashback, decrement; then the order.
CreateOrder(c) ==
    /\ pc[c] = "order"
    /\ IF ~Spends(c) THEN Draft(c) /\ UNCHANGED lock
       ELSE /\ Obtainable(c, CustomerRow(PhoneOf[c]))
            /\ IF balance[PhoneOf[c]] >= Bill(c).cashbackRedeem
               THEN Take(c, CustomerRow(PhoneOf[c])) /\ Draft(c)
               ELSE Refuse(c)

Here(c) == lines[c][line[c]]
\* Mutant: every line is deducted from the stock planned before the transaction.
PlannedStock(c, i) == stock[i]

StockSeenBy(c, i) == IF written[c][i] = Unwritten THEN stock[i] ELSE written[c][i]

ReadStock(c) ==
    /\ pc[c] = "read"
    /\ LET available == StockSeenBy(c, Here(c).item) IN
       IF HasEnoughStockForMode(available, Here(c).quantity, "piece")
       THEN /\ seen' = [seen EXCEPT ![c] = available]
            /\ Goto(c, "write")
            /\ UNCHANGED <<lines, funds, line, draft, written, lock, shop>>
       ELSE Refuse(c)

\* update sets the stock computed from what was read, whoever wrote since.
WriteStock(c) ==
    /\ pc[c] = "write"
    /\ Take(c, ItemRow(Here(c).item))
    /\ written' = [written EXCEPT ![c][Here(c).item] =
                        DeductStockForMode(seen[c], Here(c).quantity, "piece")]
    /\ line' = [line EXCEPT ![c] = @ + 1]
    /\ Goto(c, IF line[c] = Len(lines[c]) THEN "clear" ELSE "read")
    /\ UNCHANGED <<lines, funds, seen, draft, shop>>

\* Mutant: order.created is sent from inside the transaction.
ClearCartAnnounces(c) ==
    /\ pc[c] = "clear"
    /\ Take(c, CartRow(UserOf[c]))
    /\ announced' = announced \cup {draft[c]}
    /\ Goto(c, "commit")
    /\ UNCHANGED <<private, cart, stock, balance, used, orders, recent, adds>>

\* deleteMany by cart: the lines added since the cart was read go as well.
ClearCart(c) ==
    /\ pc[c] = "clear"
    /\ Take(c, CartRow(UserOf[c]))
    /\ Goto(c, "commit")
    /\ UNCHANGED <<private, shop>>

\* Mutant: the balance is reduced by what was asked for.
SpendRequested(c) ==
    [p \in Phones |-> IF p = PhoneOf[c] THEN balance[p] - RedeemOf[c] ELSE balance[p]]

Spend(c) ==
    [p \in Phones |-> IF p = PhoneOf[c] THEN balance[p] - draft[c].redeem ELSE balance[p]]

Commit(c) ==
    /\ pc[c] = "commit"
    /\ stock' = [i \in Items |->
                    IF written[c][i] = Unwritten THEN stock[i] ELSE written[c][i]]
    /\ balance' = Spend(c)
    /\ used' = [k \in Coupons |-> IF k = CouponOf[c] THEN used[k] + 1 ELSE used[k]]
    /\ cart' = [cart EXCEPT ![UserOf[c]] = <<>>]
    /\ orders' = orders \cup {draft[c]}
    /\ recent' = recent \cup {draft[c]}
    /\ lock' = Released(c)
    /\ Goto(c, "announce")
    /\ UNCHANGED <<private, announced, adds>>

\* order.created to the queue, the events and the push notifications.
Announce(c) ==
    /\ pc[c] = "announce"
    /\ announced' = announced \cup {draft[c]}
    /\ Goto(c, "done")
    /\ UNCHANGED <<private, lock, cart, stock, balance, used, orders, recent, adds>>

-----------------------------------------------------------------------------
(* What happens around it *)

\* A crash, a lost connection or the transaction's time limit.
Fails(c) == pc[c] \in Running /\ Refuse(c)

Needs(c) ==
    CASE pc[c] = "customer" /\ PhoneOf[c] # NoPhone /\ c \in Named
            -> {CustomerRow(PhoneOf[c])}
      [] pc[c] = "redeem" /\ CouponOf[c] # NoCoupon -> {CouponRow(CouponOf[c])}
      [] pc[c] = "order" /\ Spends(c) -> {CustomerRow(PhoneOf[c])}
      [] pc[c] = "write" -> {ItemRow(Here(c).item)}
      [] pc[c] = "clear" -> {CartRow(UserOf[c])}
      [] OTHER -> {}
WaitsFor(c) == {lock[r] : r \in Needs(c)} \ {c, Free}
\* A transaction waits for one other, so these are the members of cycles.
Deadlocked(group) == group # {} /\ UNION {WaitsFor(c) : c \in group} = group

\* The database breaks a cycle of waiting transactions at one of them.
DeadlockVictim(c) ==
    /\ \E group \in SUBSET Checkouts : c \in group /\ Deadlocked(group)
    /\ Refuse(c)

\* addItem.  Two that overlap may leave two lines of one product.
AddLine(u, i) ==
    /\ lock[CartRow(u)] = Free
    /\ pace = "serial" => \A c \in Checkouts : pc[c] \notin Running
    /\ adds < MaxAdds[pace] /\ Len(cart[u]) < MaxLines
    /\ adds' = adds + 1
    /\ cart' = [cart EXCEPT ![u] = Append(@, [item |-> i, quantity |-> 1])]
    /\ UNCHANGED <<pc, private, lock, stock, balance, used, orders, recent, announced>>

\* ORDER_IDEMPOTENCY_WINDOW_SECONDS pass after an order.
WindowPasses(o) ==
    /\ recent' = recent \ {o}
    /\ UNCHANGED <<pc, private, lock, cart, stock, balance, used, orders, announced, adds>>

Statement(c) ==
    \/ CheckDuplicate(c) \/ PlanStock(c) \/ UpsertCustomer(c) \/ ReadCoupon(c)
    \/ TakeCoupon(c) \/ CreateOrder(c) \/ ReadStock(c) \/ WriteStock(c)
    \/ ClearCart(c) \/ Commit(c) \/ Announce(c)

Next ==
    /\ UNCHANGED pace
    /\ \/ \E c \in Checkouts : ReadCart(c) \/ Statement(c) \/ Fails(c) \/ DeadlockVictim(c)
       \/ \E u \in Users, i \in Items : AddLine(u, i)
       \/ \E o \in recent : WindowPasses(o)

Spec == Init /\ [][Next]_vars

\* Statements and the database's deadlock detection go on; nothing else must.
FairSpec ==
    /\ Spec
    /\ \A c \in Checkouts : WF_work(Statement(c)) /\ WF_work(DeadlockVictim(c))
-----------------------------------------------------------------------------
(* Properties *)

\* A coupon is used at most usageLimit times and its count is the number of its
\* redemptions, although the limit is read before the count is raised and two
\* checkouts may read it together (resolveForOrder, attachRedemption).
CouponWithinLimit ==
    \A k \in Coupons :
        used[k] <= UsageLimit[k] /\ used[k] = Cardinality(Redemptions(k))

\* One customer's requests that carry a name redeem a coupon at most perUserLimit
\* times.  The count is read and never checked again: what protects it is the
\* row lock the upsert took before (upsertByPhoneOnOrder, resolveForOrder).
OncePerCustomer ==
    \A k \in Coupons, p \in Phones :
        Cardinality(RedeemedNamed(k, p)) <= PerUserLimit[k]

\* The cashback missing from a balance is the cashback redeemed by the orders of
\* that phone, and no more than there was, whatever checkouts read the balance
\* together, failed or were sent again (createFromCart).
BalanceSpent ==
    \A p \in Phones :
        LET spent == MapThenSumSet(LAMBDA o : o.redeem, {o \in orders : PhoneOf[o.by] = p})
        IN  balance[p] = OpeningBalance[p] - spent /\ balance[p] >= 0

\* ... and no half of a transaction can be seen.
BalancesSound == TypeOK /\ BalanceSpent

\* README: "Orders: transaction-safe creation".  The stock missing from a
\* product is what the orders sold of it.
Sold(o, i) ==
    FoldLeft(LAMBDA sum, l : IF l.item = i THEN sum + l.quantity ELSE sum, 0, o.lines)
StockConserved ==
    \A i \in Items :
        stock[i] = OpeningStock[i] - MapThenSumSet(LAMBDA o : Sold(o, i), orders)

\* It holds as long as checkouts come one after the other, whatever lines, failures
\* and retries they have.
SerialStockConserved == pace = "serial" => StockConserved

\* README: "idempotency window".  Within the window no two orders come from the
\* same request, sent again after the first has ended (createFromCart, idempotencyKey).
NoDuplicateOrders ==
    pace = "serial" => \A o, d \in recent : o # d => KeyOf(o) # KeyOf(d)

\* A line leaves a cart only as part of the order placed from it, so that no product
\* the customer chose before or after a checkout is lost (cartItem.deleteMany).
CartOrdered ==
    [][\A u \in Users :
        pace = "serial" /\ Len(cart'[u]) < Len(cart[u]) =>
            \E o \in orders' \ orders : UserOf[o.by] = u /\ o.lines = cart[u]]_vars

\* Checkouts of one user that come one after the other account for all stock, place no
\* order twice, and order exactly the cart.
SerialOrdersSound == [](SerialStockConserved /\ NoDuplicateOrders) /\ CartOrdered

\* Orders, balances and coupon counts change together and within their limits,
\* as if each checkout happened in one step (OrderBook).
Book == INSTANCE OrderBook
PlacesOrders == Book!Spec

\* Every checkout that started ends, with an order or with a refusal, although
\* transactions wait for each other's rows and may wait in a circle.
CheckoutsEnd == \A c \in Checkouts : pc[c] \in Running ~> pc[c] \in Ended
=============================================================================
