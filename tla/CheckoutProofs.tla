--------------------------- MODULE CheckoutProofs ---------------------------
(***************************************************************************)
(* The checkout transaction, for any number of requests, customers,        *)
(* coupons, products and cart lines.  Coupons: a checkout past the         *)
(* coupon's update holds the coupon, one that carries a name holds its     *)
(* customer from the upsert.  Accounts: the cashback on a draft is covered *)
(* because its customer is held until the commit, and the commit is the    *)
(* only step that touches an account, so that the transaction implements   *)
(* OrderBook.  Stock and doubled orders: sound while no two checkouts run  *)
(* together, since the cart, the recent orders and the stock each one read *)
(* are then still what it commits over.                                    *)
(***************************************************************************)
EXTENDS Checkout, OrderPricingProofs, FiniteSums

HasCoupon(c) == CouponOf[c] \in Coupons
HasPhone(c) == PhoneOf[c] \in Phones
Known(c) == HasPhone(c) /\ c \in Named
Created(c) == pc[c] \in {"read", "write", "clear", "commit"}
Counted(c) == pc[c] = "order" \/ Created(c)
Checked(c) == pc[c] = "redeem" \/ Counted(c)
Linked(c) == pc[c] = "coupon" \/ Checked(c)

Shape ==
    /\ pc \in [Checkouts -> Stage]
    /\ lock \in [Rows -> Checkouts \cup {Free}]
    /\ used \in [Coupons -> Nat]
    /\ draft = [c \in Checkouts |-> draft[c]]
    /\ IsFiniteSet(orders)

\* An order belongs to a checkout that has left its transaction.
OrdersCommitted ==
    \A o \in orders : o.by \in Checkouts /\ pc[o.by] \in {"announce", "done", "refused"}

DraftsOwn == \A c \in Checkouts : Created(c) => draft[c].by = c

CouponHeld ==
    \A c \in Checkouts : Counted(c) /\ HasCoupon(c) =>
        lock[CouponRow(CouponOf[c])] = c /\ used[CouponOf[c]] < UsageLimit[CouponOf[c]]

CustomerHeld ==
    \A c \in Checkouts : Linked(c) /\ Known(c) => lock[CustomerRow(PhoneOf[c])] = c

RoomForCustomer ==
    \A c \in Checkouts : Checked(c) /\ HasCoupon(c) /\ Known(c) =>
        Cardinality(RedeemedNamed(CouponOf[c], PhoneOf[c])) < PerUserLimit[CouponOf[c]]

\* The inductive invariant: the limits, and why the next commit respects them.
Inv == /\ Shape /\ OrdersCommitted /\ DraftsOwn /\ CouponHeld /\ CustomerHeld
       /\ RoomForCustomer /\ CouponWithinLimit /\ OncePerCustomer

LEMMA RowsDiffer ==
    /\ \A p \in Phones : CustomerRow(p) \in Rows
    /\ \A k \in Coupons : CouponRow(k) \in Rows
    /\ \A i \in Items : ItemRow(i) \in Rows
    /\ \A u \in Users : CartRow(u) \in Rows
    /\ \A p, q : CustomerRow(p) = CustomerRow(q) => p = q
    /\ \A p, q : CouponRow(p) = CouponRow(q) => p = q
    /\ \A p, q : CustomerRow(p) # CouponRow(q) /\ CustomerRow(p) # ItemRow(q)
                 /\ CustomerRow(p) # CartRow(q) /\ CouponRow(p) # ItemRow(q)
                 /\ CouponRow(p) # CartRow(q)
BY DEF Rows, CustomerRow, CouponRow, ItemRow, CartRow

LEMMA InitInv == Init => Inv
<1> SUFFICES ASSUME Init PROVE Inv OBVIOUS
<1>1. Shape /\ OrdersCommitted
    BY FS_EmptySet, CheckoutAssumption
    DEF Init, Shape, OrdersCommitted, Stage, Rows
<1>2. DraftsOwn /\ CouponHeld /\ CustomerHeld /\ RoomForCustomer
    BY DEF Init, DraftsOwn, CouponHeld, CustomerHeld, RoomForCustomer, Created, Counted,
           Checked, Linked
<1>3. CouponWithinLimit
    <2> SUFFICES ASSUME NEW k \in Coupons
                 PROVE used[k] <= UsageLimit[k] /\ used[k] = Cardinality(Redemptions(k))
        BY DEF CouponWithinLimit
    <2>1. Redemptions(k) = {} BY DEF Init, Redemptions
    <2> QED BY <2>1, FS_EmptySet, CheckoutAssumption DEF Init
<1>4. OncePerCustomer
    <2> SUFFICES ASSUME NEW k \in Coupons, NEW p \in Phones
                 PROVE Cardinality(RedeemedNamed(k, p)) <= PerUserLimit[k]
        BY DEF OncePerCustomer
    <2>1. RedeemedNamed(k, p) = {} BY DEF Init, Redemptions, RedeemedBy, RedeemedNamed
    <2> QED BY <2>1, FS_EmptySet, CheckoutAssumption
<1> QED BY <1>1, <1>2, <1>3, <1>4 DEF Inv

\* What a step must do to keep the invariant when it commits nothing: it moves
\* one checkout c, and lets go of a row only by ending c.
Private(c) ==
    /\ \E stage \in Stage : Goto(c, stage)
    /\ UNCHANGED <<orders, used>>
    /\ draft' = [d \in Checkouts |-> draft'[d]]
    /\ \A d \in Checkouts \ {c} : draft'[d] = draft[d]
    /\ lock' \in [Rows -> Checkouts \cup {Free}]
    /\ \A r \in Rows, d \in Checkouts \ {c} : lock[r] = d <=> lock'[r] = d

LEMMA SetsKept ==
    ASSUME UNCHANGED orders
    PROVE \A k, p : Redemptions(k)' = Redemptions(k) /\ RedeemedNamed(k, p)' = RedeemedNamed(k, p)
BY DEF Redemptions, RedeemedBy, RedeemedNamed

\* Such a step keeps the invariant if it keeps it for c.
LEMMA PrivateStep ==
    ASSUME Inv, NEW c \in Checkouts, Private(c),
           pc[c] \in {"announce", "done", "refused"}
               => pc'[c] \in {"announce", "done", "refused"},
           Created(c)' => draft'[c].by = c,
           Counted(c)' /\ HasCoupon(c) =>
               lock'[CouponRow(CouponOf[c])] = c /\ used[CouponOf[c]] < UsageLimit[CouponOf[c]],
           Linked(c)' /\ Known(c) => lock'[CustomerRow(PhoneOf[c])] = c,
           Checked(c)' /\ HasCoupon(c) /\ Known(c) =>
               Cardinality(RedeemedNamed(CouponOf[c], PhoneOf[c])) < PerUserLimit[CouponOf[c]]
    PROVE Inv'
<1>1. Shape' /\ \A d \in Checkouts \ {c} : pc'[d] = pc[d]
    <2>1. PICK stage \in Stage : pc' = [pc EXCEPT ![c] = stage] BY DEF Private, Goto
    <2>2. pc \in [Checkouts -> Stage] BY DEF Inv, Shape
    <2>3. pc' \in [Checkouts -> Stage] /\ \A d \in Checkouts \ {c} : pc'[d] = pc[d]
        BY <2>1, <2>2
    <2> QED BY <2>3 DEF Inv, Shape, Private
<1>2. OrdersCommitted'
    BY <1>1 DEF Inv, OrdersCommitted, Private
<1>3. \A d \in Checkouts \ {c} :
        /\ Created(d)' = Created(d) /\ Counted(d)' = Counted(d)
        /\ Checked(d)' = Checked(d) /\ Linked(d)' = Linked(d)
        /\ draft'[d] = draft[d]
    BY <1>1 DEF Created, Counted, Checked, Linked, Private
<1>4. DraftsOwn'
    <2> SUFFICES ASSUME NEW d \in Checkouts, Created(d)' PROVE draft'[d].by = d
        BY DEF DraftsOwn
    <2> QED BY <1>3 DEF Inv, DraftsOwn
<1>5. CouponHeld'
    <2> SUFFICES ASSUME NEW d \in Checkouts, Counted(d)', HasCoupon(d)
                 PROVE lock'[CouponRow(CouponOf[d])] = d
                       /\ used'[CouponOf[d]] < UsageLimit[CouponOf[d]]
        BY DEF CouponHeld, HasCoupon
    <2>1. CouponRow(CouponOf[d]) \in Rows /\ used' = used BY RowsDiffer DEF HasCoupon, Private
    <2> QED BY <1>3, <2>1 DEF Inv, CouponHeld, Private
<1>6. CustomerHeld'
    <2> SUFFICES ASSUME NEW d \in Checkouts, Linked(d)', Known(d)
                 PROVE lock'[CustomerRow(PhoneOf[d])] = d
        BY DEF CustomerHeld, Known, HasPhone
    <2>1. CustomerRow(PhoneOf[d]) \in Rows BY RowsDiffer DEF Known, HasPhone
    <2> QED BY <1>3, <2>1 DEF Inv, CustomerHeld, Private
<1>7. \A k, p : Redemptions(k)' = Redemptions(k) /\ RedeemedNamed(k, p)' = RedeemedNamed(k, p)
    BY SetsKept DEF Private
<1>8. RoomForCustomer'
    <2> SUFFICES ASSUME NEW d \in Checkouts, Checked(d)', HasCoupon(d), Known(d)
                 PROVE Cardinality(RedeemedNamed(CouponOf[d], PhoneOf[d])')
                           < PerUserLimit[CouponOf[d]]
        BY DEF RoomForCustomer, HasCoupon, Known, HasPhone
    <2> QED BY <1>3, <1>7 DEF Inv, RoomForCustomer
<1>9. CouponWithinLimit' /\ OncePerCustomer'
    BY <1>7 DEF Inv, CouponWithinLimit, OncePerCustomer, Private
<1> QED BY <1>1, <1>2, <1>4, <1>5, <1>6, <1>8, <1>9 DEF Inv

-----------------------------------------------------------------------------
(* The steps that commit nothing *)

LEMMA RefuseInv == ASSUME Inv, NEW c \in Checkouts, Refuse(c) PROVE Inv'
<1>1. Private(c)
    <2>1. \E stage \in Stage : Goto(c, stage) BY DEF Refuse, Stage, Ended
    <2>2. draft' = [d \in Checkouts |-> draft'[d]]
          /\ \A d \in Checkouts \ {c} : draft'[d] = draft[d]
        BY DEF Inv, Shape, Refuse
    <2>3. /\ lock' \in [Rows -> Checkouts \cup {Free}]
          /\ \A r \in Rows, d \in Checkouts \ {c} : lock[r] = d <=> lock'[r] = d
        BY CheckoutAssumption DEF Inv, Shape, Refuse, Released
    <2> QED BY <2>1, <2>2, <2>3 DEF Private, Refuse, shop
<1>2. pc'[c] = "refused" BY DEF Inv, Shape, Refuse, Goto
<1> QED BY <1>1, <1>2, PrivateStep DEF Created, Counted, Checked, Linked

LEMMA RedemptionsFinite ==
    ASSUME IsFiniteSet(orders)
    PROVE \A k, p :
        /\ IsFiniteSet(Redemptions(k)) /\ IsFiniteSet(RedeemedNamed(k, p))
        /\ Cardinality(RedeemedNamed(k, p)) <= Cardinality(RedeemedBy(k, p))
        /\ Cardinality(RedeemedNamed(k, p)) \in Nat /\ Cardinality(RedeemedBy(k, p)) \in Nat
<1> TAKE k, p
<1>1. /\ Redemptions(k) \subseteq orders /\ RedeemedBy(k, p) \subseteq orders
      /\ RedeemedNamed(k, p) \subseteq RedeemedBy(k, p)
    BY DEF Redemptions, RedeemedBy, RedeemedNamed
<1>2. /\ IsFiniteSet(Redemptions(k)) /\ IsFiniteSet(RedeemedBy(k, p))
      /\ IsFiniteSet(RedeemedNamed(k, p))
    BY <1>1, FS_Subset
<1> QED BY <1>1, <1>2, FS_Subset, FS_CardinalityType

\* A checkout that only moves on keeps what it holds.
LEMMA MoveInv ==
    ASSUME Inv, NEW c \in Checkouts, NEW stage \in Stage, Goto(c, stage),
           UNCHANGED <<draft, lock, orders, used>>,
           stage \in {"read", "write", "clear", "commit"} => Created(c),
           stage = "order" => ~HasCoupon(c) /\ Checked(c),
           stage = "redeem" => CouponUsable(c) /\ Linked(c),
           stage = "coupon" => ~Known(c),
           pc[c] \in {"announce", "done", "refused"}
               => stage \in {"announce", "done", "refused"}
    PROVE Inv'
<1>1. Private(c) BY DEF Inv, Shape, Private
<1>2. pc'[c] = stage BY DEF Inv, Shape, Goto
<1>3. Created(c)' => Created(c) BY <1>2 DEF Created
<1>4. Counted(c)' /\ HasCoupon(c) => Counted(c) BY <1>2, <1>3 DEF Counted, Created
<1>5. Checked(c)' => Checked(c) \/ stage = "redeem"
    BY <1>2, <1>3 DEF Checked, Counted, Created
<1>6. Linked(c)' /\ Known(c) => Linked(c)
    BY <1>2, <1>5 DEF Linked, Checked, Counted, Created
<1>7. Checked(c)' /\ HasCoupon(c) /\ Known(c) =>
          Cardinality(RedeemedNamed(CouponOf[c], PhoneOf[c])) < PerUserLimit[CouponOf[c]]
    <2> SUFFICES ASSUME Checked(c)', HasCoupon(c), Known(c)
                 PROVE Cardinality(RedeemedNamed(CouponOf[c], PhoneOf[c]))
                           < PerUserLimit[CouponOf[c]]
        OBVIOUS
    <2>1. CASE Checked(c) BY <2>1 DEF Inv, RoomForCustomer
    <2>2. CASE stage = "redeem"
        <3>1. Cardinality(RedeemedBy(CouponOf[c], PhoneOf[c])) < PerUserLimit[CouponOf[c]]
            BY <2>2, CheckoutAssumption DEF CouponUsable, HasCoupon, Known, HasPhone
        <3>2. PerUserLimit[CouponOf[c]] \in Nat BY CheckoutAssumption DEF HasCoupon
        <3> QED BY <3>1, <3>2, RedemptionsFinite DEF Inv, Shape
    <2> QED BY <1>5, <2>1, <2>2
<1>8. Created(c)' => draft'[c].by = c BY <1>3 DEF Inv, DraftsOwn
<1>9. Counted(c)' /\ HasCoupon(c) =>
          lock'[CouponRow(CouponOf[c])] = c /\ used[CouponOf[c]] < UsageLimit[CouponOf[c]]
    BY <1>4 DEF Inv, CouponHeld
<1>10. Linked(c)' /\ Known(c) => lock'[CustomerRow(PhoneOf[c])] = c
    BY <1>6 DEF Inv, CustomerHeld
<1> QED BY <1>1, <1>2, <1>7, <1>8, <1>9, <1>10, PrivateStep

LEMMA OutsideInv ==
    ASSUME Inv, NEW c \in Checkouts, ReadCart(c) \/ CheckDuplicate(c) \/ PlanStock(c)
    PROVE Inv'
<1> USE DEF Stage, Running, Outside, Transaction, Ended, private, shop
<1>1. CASE ReadCart(c)
    <2>1. PICK stage \in {"refused", "duplicate"} : Goto(c, stage) BY <1>1 DEF ReadCart
    <2> QED BY <1>1, <2>1, MoveInv DEF ReadCart
<1>2. CASE CheckDuplicate(c)
    <2>1. CASE Refuse(c) BY <2>1, RefuseInv
    <2>2. CASE Goto(c, "plan") /\ UNCHANGED <<private, lock, shop>>
        BY <1>2, <2>2, MoveInv DEF CheckDuplicate
    <2> QED BY <1>2, <2>1, <2>2 DEF CheckDuplicate
<1>3. CASE PlanStock(c)
    <2>1. CASE Refuse(c) BY <2>1, RefuseInv
    <2>2. CASE Goto(c, "customer") /\ UNCHANGED <<private, lock, shop>>
        BY <1>3, <2>2, MoveInv DEF PlanStock
    <2> QED BY <1>3, <2>1, <2>2 DEF PlanStock
<1> QED BY <1>1, <1>2, <1>3

LEMMA UpsertInv == ASSUME Inv, NEW c \in Checkouts, UpsertCustomer(c) PROVE Inv'
<1> USE DEF Stage, Running, Outside, Transaction, Ended
<1>1. CASE PhoneOf[c] = NoPhone
    <2>1. CASE Refuse(c) BY <2>1, RefuseInv
    <2>2. CASE Goto(c, "coupon") /\ UNCHANGED <<private, lock, shop>>
        <3>1. ~Known(c) /\ pc[c] = "customer"
            BY <1>1, CheckoutAssumption DEF Known, HasPhone, UpsertCustomer
        <3> QED BY <2>2, <3>1, MoveInv DEF private, shop
    <2> QED BY <1>1, <2>1, <2>2 DEF UpsertCustomer, LinkNobody
<1>2. CASE PhoneOf[c] # NoPhone
    <2>1. /\ pc[c] = "customer" /\ HasPhone(c) /\ Goto(c, "coupon")
          /\ UNCHANGED <<draft, orders, used>>
        BY <1>2, CheckoutAssumption DEF UpsertCustomer, HasPhone, LinkTo, shop
    <2>2. CASE c \in Named
        <3>1. Take(c, CustomerRow(PhoneOf[c])) BY <1>2, <2>2 DEF UpsertCustomer
        <3>2. Private(c)
            <4>1. Free \notin Checkouts BY CheckoutAssumption
            <4>2. CustomerRow(PhoneOf[c]) \in Rows BY <2>1, RowsDiffer DEF HasPhone
            <4> QED BY <2>1, <3>1, <4>1, <4>2 DEF Inv, Shape, Private, Take, Obtainable
        <3>3. pc'[c] = "coupon" BY <2>1 DEF Inv, Shape, Goto
        <3>4. lock'[CustomerRow(PhoneOf[c])] = c
            BY <2>1, <3>1, RowsDiffer DEF Take, Inv, Shape, HasPhone
        <3> QED BY <2>1, <3>2, <3>3, <3>4, PrivateStep DEF Created, Counted, Checked, Linked
    <2>3. CASE c \notin Named
        <3>1. UNCHANGED lock BY <1>2, <2>3 DEF UpsertCustomer
        <3> QED BY <2>1, <2>3, <3>1, MoveInv DEF Known
    <2> QED BY <2>2, <2>3
<1> QED BY <1>1, <1>2

LEMMA TakeCouponInv == ASSUME Inv, NEW c \in Checkouts, TakeCoupon(c) PROVE Inv'
<1> USE DEF Stage, Running, Outside, Transaction, Ended
<1> DEFINE k == CouponOf[c]
<1>1. CASE Refuse(c) BY <1>1, RefuseInv
<1>2. CASE k = NoCoupon /\ Goto(c, "order") /\ UNCHANGED <<private, lock, shop>>
    <2>1. ~HasCoupon(c) /\ Checked(c)
        BY <1>2, CheckoutAssumption DEF HasCoupon, TakeCoupon, Checked
    <2>2. pc[c] = "redeem" BY DEF TakeCoupon
    <2> QED BY <1>2, <2>1, <2>2, MoveInv DEF private, shop
<1>3. CASE /\ k # NoCoupon /\ used[k] < UsageLimit[k] /\ Take(c, CouponRow(k))
           /\ Goto(c, "order") /\ UNCHANGED <<private, shop>>
    <2>1. /\ k \in Coupons /\ pc[c] = "redeem" /\ UNCHANGED <<draft, orders, used>>
          /\ lock[CouponRow(k)] \in {c, Free}
          /\ lock' = [lock EXCEPT ![CouponRow(k)] = c]
        BY <1>3, CheckoutAssumption DEF TakeCoupon, Take, Obtainable, private, shop
    <2>2. pc'[c] = "order" BY <1>3 DEF Inv, Shape, Goto
    <2>3. /\ lock'[CouponRow(k)] = c /\ lock' \in [Rows -> Checkouts \cup {Free}]
          /\ \A r \in Rows, d \in Checkouts \ {c} : lock[r] = d <=> lock'[r] = d
          /\ \A p \in Phones : lock'[CustomerRow(p)] = lock[CustomerRow(p)]
        BY <2>1, RowsDiffer, CheckoutAssumption DEF Inv, Shape
    <2>4. Private(c) BY <1>3, <2>1, <2>3 DEF Inv, Shape, Private
    <2>5. Known(c) => lock'[CustomerRow(PhoneOf[c])] = c
        BY <2>1, <2>3 DEF Inv, CustomerHeld, Linked, Checked, Known, HasPhone
    <2>6. HasCoupon(c) /\ Known(c) =>
              Cardinality(RedeemedNamed(k, PhoneOf[c])) < PerUserLimit[k]
        BY <2>1 DEF Inv, RoomForCustomer, Checked
    <2> QED BY <1>3, <2>1, <2>2, <2>3, <2>4, <2>5, <2>6, PrivateStep DEF Created
<1> QED BY <1>1, <1>2, <1>3 DEF TakeCoupon

LEMMA CreateInv == ASSUME Inv, NEW c \in Checkouts, CreateOrder(c) PROVE Inv'
<1> USE DEF Stage, Running, Outside, Transaction, Ended
<1> DEFINE row == CustomerRow(PhoneOf[c])
<1>1. CASE Refuse(c) BY <1>1, RefuseInv
<1>2. CASE Draft(c) /\ (UNCHANGED lock \/ (Spends(c) /\ Take(c, row)))
    <2>1. pc[c] = "order" /\ Goto(c, "read") /\ UNCHANGED <<orders, used>>
        BY <1>2 DEF CreateOrder, Draft, shop
    <2>2. pc'[c] = "read" BY <2>1 DEF Inv, Shape, Goto
    <2>3. draft' = [draft EXCEPT ![c] =
                [by |-> c, lines |-> lines[c], redeem |-> Bill(c).cashbackRedeem,
                 total |-> Bill(c).totalAmount]]
        BY <1>2 DEF Draft
    <2>4. draft'[c].by = c /\ draft' = [d \in Checkouts |-> draft'[d]]
          /\ \A d \in Checkouts \ {c} : draft'[d] = draft[d]
        BY <2>3 DEF Inv, Shape
    <2>5. /\ lock' \in [Rows -> Checkouts \cup {Free}]
          /\ \A r \in Rows, d \in Checkouts \ {c} : lock[r] = d <=> lock'[r] = d
          /\ \A r \in Rows : lock[r] = c => lock'[r] = c
        <3>1. CASE UNCHANGED lock BY <3>1 DEF Inv, Shape
        <3>2. CASE Take(c, row)
            <4>1. Free \notin Checkouts BY CheckoutAssumption
            <4> QED BY <3>2, <4>1 DEF Take, Obtainable, Inv, Shape
        <3> QED BY <1>2, <3>1, <3>2
    <2>6. Private(c) BY <2>1, <2>4, <2>5 DEF Private
    <2>7. HasCoupon(c) => lock'[CouponRow(CouponOf[c])] = c
                          /\ used[CouponOf[c]] < UsageLimit[CouponOf[c]]
        BY <2>1, <2>5, RowsDiffer DEF Inv, CouponHeld, Counted, HasCoupon
    <2>8. Known(c) => lock'[row] = c
        BY <2>1, <2>5, RowsDiffer
        DEF Inv, CustomerHeld, Linked, Checked, Counted, Known, HasPhone
    <2>9. HasCoupon(c) /\ Known(c) =>
              Cardinality(RedeemedNamed(CouponOf[c], PhoneOf[c])) < PerUserLimit[CouponOf[c]]
        BY <2>1 DEF Inv, RoomForCustomer, Checked, Counted
    <2> QED BY <2>1, <2>2, <2>4, <2>6, <2>7, <2>8, <2>9, PrivateStep
<1> QED BY <1>1, <1>2 DEF CreateOrder

\* Taking a stock or cart row disturbs nobody's coupon or customer.
LEMMA TakeInv ==
    ASSUME Inv, NEW c \in Checkouts, NEW row, Take(c, row), Created(c),
           NEW stage \in {"read", "write", "clear", "commit"}, Goto(c, stage),
           UNCHANGED <<draft, orders, used>>,
           \A k \in Coupons : row # CouponRow(k), \A p \in Phones : row # CustomerRow(p)
    PROVE Inv'
<1> USE DEF Stage, Running, Outside, Transaction, Ended
<1>1. /\ lock' \in [Rows -> Checkouts \cup {Free}]
      /\ \A r \in Rows, d \in Checkouts \ {c} : lock[r] = d <=> lock'[r] = d
      /\ \A r \in Rows \ {row} : lock'[r] = lock[r]
    BY CheckoutAssumption DEF Take, Obtainable, Inv, Shape
<1>2. Private(c) BY <1>1 DEF Private, Inv, Shape
<1>3. pc'[c] = stage BY DEF Goto, Inv, Shape
<1>4. HasCoupon(c) =>
          lock'[CouponRow(CouponOf[c])] = c /\ used[CouponOf[c]] < UsageLimit[CouponOf[c]]
    BY <1>1, RowsDiffer DEF Inv, CouponHeld, Counted, HasCoupon
<1>5. Known(c) => lock'[CustomerRow(PhoneOf[c])] = c
    BY <1>1, RowsDiffer DEF Inv, CustomerHeld, Known, HasPhone, Linked, Checked, Counted
<1>6. HasCoupon(c) /\ Known(c) =>
          Cardinality(RedeemedNamed(CouponOf[c], PhoneOf[c])) < PerUserLimit[CouponOf[c]]
    BY DEF Inv, RoomForCustomer, Checked, Counted
<1>7. draft'[c].by = c BY DEF Inv, DraftsOwn
<1> QED BY <1>2, <1>3, <1>4, <1>5, <1>6, <1>7, PrivateStep DEF Created

LEMMA StockInv ==
    ASSUME Inv, NEW c \in Checkouts, ReadStock(c) \/ WriteStock(c) \/ ClearCart(c)
    PROVE Inv'
<1> USE DEF Stage, Running, Outside, Transaction, Ended, private, shop
<1>1. CASE ReadStock(c)
    <2>1. CASE Refuse(c) BY <2>1, RefuseInv
    <2>2. CASE Goto(c, "write") /\ UNCHANGED <<lines, line, draft, written, lock, shop>>
        <3>1. Created(c) BY <1>1 DEF ReadStock, Created
        <3> QED BY <2>2, <3>1, MoveInv DEF Created
    <2> QED BY <1>1, <2>1, <2>2 DEF ReadStock
<1>2. CASE WriteStock(c)
    <2>1. PICK stage \in {"read", "clear"} : Goto(c, stage) BY <1>2 DEF WriteStock
    <2>2. Created(c) /\ Take(c, ItemRow(Here(c).item)) /\ UNCHANGED <<draft, orders, used>>
        BY <1>2 DEF WriteStock, Created
    <2> QED BY <2>1, <2>2, RowsDiffer, TakeInv
<1>3. CASE ClearCart(c)
    <2>1. /\ Created(c) /\ Take(c, CartRow(UserOf[c])) /\ Goto(c, "commit")
          /\ UNCHANGED <<draft, orders, used>>
        BY <1>3 DEF ClearCart, Created
    <2> QED BY <2>1, RowsDiffer, TakeInv
<1> QED BY <1>1, <1>2, <1>3

-----------------------------------------------------------------------------
(* The commit *)

LEMMA CommitInv == ASSUME Inv, NEW c \in Checkouts, Commit(c) PROVE Inv'
<1> USE DEF Stage, Running, Outside, Transaction, Ended
<1> DEFINE o == draft[c]
<1>1. /\ pc[c] = "commit" /\ Created(c) /\ Goto(c, "announce")
      /\ lock' = Released(c) /\ draft' = draft /\ orders' = orders \cup {o}
      /\ used' = [k \in Coupons |-> IF k = CouponOf[c] THEN used[k] + 1 ELSE used[k]]
    BY DEF Commit, Created, private
<1>2. o.by = c /\ o \notin orders /\ \A d \in orders : d.by # c
    BY <1>1 DEF Inv, DraftsOwn, OrdersCommitted
<1>3. pc' = [pc EXCEPT ![c] = "announce"] BY <1>1 DEF Goto
<1>4. \A d \in Checkouts \ {c} :
        /\ Created(d)' = Created(d) /\ Counted(d)' = Counted(d)
        /\ Checked(d)' = Checked(d) /\ Linked(d)' = Linked(d)
    BY <1>3 DEF Created, Counted, Checked, Linked, Inv, Shape
<1>5. ~Created(c)' /\ ~Counted(c)' /\ ~Checked(c)' /\ ~Linked(c)'
    BY <1>3 DEF Created, Counted, Checked, Linked, Inv, Shape
<1>6. Shape'
    <2>1. IsFiniteSet(orders') BY <1>1, FS_AddElement DEF Inv, Shape
    <2>2. used' \in [Coupons -> Nat] BY <1>1 DEF Inv, Shape
    <2>3. lock' \in [Rows -> Checkouts \cup {Free}] BY <1>1 DEF Inv, Shape, Released
    <2> QED BY <1>1, <1>3, <2>1, <2>2, <2>3 DEF Inv, Shape
<1>7. OrdersCommitted'
    BY <1>1, <1>2, <1>3 DEF Inv, Shape, OrdersCommitted
<1>8. DraftsOwn' BY <1>1, <1>4, <1>5 DEF Inv, DraftsOwn
<1>9. \A r \in Rows, d \in Checkouts \ {c} : lock[r] = d => lock'[r] = d
    BY <1>1 DEF Released
<1>10. CouponHeld'
    <2> SUFFICES ASSUME NEW d \in Checkouts, Counted(d)', HasCoupon(d)
                 PROVE lock'[CouponRow(CouponOf[d])] = d
                       /\ used'[CouponOf[d]] < UsageLimit[CouponOf[d]]
        BY DEF CouponHeld, HasCoupon
    <2>1. d # c /\ Counted(d) BY <1>4, <1>5
    <2>2. lock[CouponRow(CouponOf[d])] = d /\ used[CouponOf[d]] < UsageLimit[CouponOf[d]]
        BY <2>1 DEF Inv, CouponHeld
    <2>3. CouponOf[d] # CouponOf[c]
        BY <1>1, <2>1, <2>2 DEF Inv, CouponHeld, Counted, HasCoupon
    <2> QED BY <1>1, <1>9, <2>1, <2>2, <2>3, RowsDiffer DEF HasCoupon
<1>11. CustomerHeld'
    <2> SUFFICES ASSUME NEW d \in Checkouts, Linked(d)', Known(d)
                 PROVE lock'[CustomerRow(PhoneOf[d])] = d
        BY DEF CustomerHeld, Known, HasPhone
    <2>1. d # c /\ Linked(d) BY <1>4, <1>5
    <2>2. lock[CustomerRow(PhoneOf[d])] = d BY <2>1 DEF Inv, CustomerHeld
    <2> QED BY <1>9, <2>1, <2>2, RowsDiffer DEF Known, HasPhone
<1>12. \A k \in Coupons :
        /\ k # CouponOf[c] => Redemptions(k)' = Redemptions(k)
        /\ k = CouponOf[c] => Redemptions(k)' = Redemptions(k) \cup {o}
                              /\ o \notin Redemptions(k)
    BY <1>1, <1>2 DEF Redemptions
<1>13. \A k \in Coupons, p \in Phones :
        /\ k # CouponOf[c] \/ p # PhoneOf[c] \/ c \notin Named =>
               RedeemedNamed(k, p)' = RedeemedNamed(k, p)
        /\ k = CouponOf[c] /\ p = PhoneOf[c] /\ c \in Named =>
               RedeemedNamed(k, p)' = RedeemedNamed(k, p) \cup {o}
               /\ o \notin RedeemedNamed(k, p)
    BY <1>2, <1>12 DEF RedeemedBy, RedeemedNamed
<1>14. \A k, p : IsFiniteSet(Redemptions(k)) /\ IsFiniteSet(RedeemedNamed(k, p))
    BY RedemptionsFinite DEF Inv, Shape
<1>15. CouponWithinLimit'
    <2> SUFFICES ASSUME NEW k \in Coupons
                 PROVE used'[k] <= UsageLimit[k] /\ used'[k] = Cardinality(Redemptions(k)')
        BY DEF CouponWithinLimit
    <2>1. /\ used[k] \in Nat /\ UsageLimit[k] \in Nat
          /\ used[k] <= UsageLimit[k] /\ used[k] = Cardinality(Redemptions(k))
        BY CheckoutAssumption DEF Inv, Shape, CouponWithinLimit
    <2>2. CASE k # CouponOf[c] BY <1>1, <1>12, <2>1, <2>2
    <2>3. CASE k = CouponOf[c]
        <3>1. used[k] < UsageLimit[k] BY <1>1, <2>3 DEF Inv, CouponHeld, Counted, HasCoupon
        <3>2. Cardinality(Redemptions(k)') = Cardinality(Redemptions(k)) + 1
            <4>1. Redemptions(k)' = Redemptions(k) \cup {o} /\ o \notin Redemptions(k)
                BY <1>12, <2>3
            <4>2. IsFiniteSet(Redemptions(k)) BY <1>14
            <4> QED BY <4>1, <4>2, FS_AddElement
        <3> QED BY <1>1, <2>1, <2>3, <3>1, <3>2
    <2> QED BY <2>2, <2>3
<1>16. OncePerCustomer'
    <2> SUFFICES ASSUME NEW k \in Coupons, NEW p \in Phones
                 PROVE Cardinality(RedeemedNamed(k, p)') <= PerUserLimit[k]
        BY DEF OncePerCustomer
    <2>1. Cardinality(RedeemedNamed(k, p)) <= PerUserLimit[k] BY DEF Inv, OncePerCustomer
    <2>2. CASE k # CouponOf[c] \/ p # PhoneOf[c] \/ c \notin Named
        BY <1>13, <2>1, <2>2
    <2>3. CASE k = CouponOf[c] /\ p = PhoneOf[c] /\ c \in Named
        <3>1. Cardinality(RedeemedNamed(k, p)) < PerUserLimit[k]
            BY <1>1, <2>3
            DEF Inv, RoomForCustomer, Checked, Counted, HasCoupon, Known, HasPhone
        <3>2. Cardinality(RedeemedNamed(k, p)') = Cardinality(RedeemedNamed(k, p)) + 1
            <4>1. RedeemedNamed(k, p)' = RedeemedNamed(k, p) \cup {o}
                  /\ o \notin RedeemedNamed(k, p)
                BY <1>13, <2>3
            <4>2. IsFiniteSet(RedeemedNamed(k, p)) BY <1>14
            <4> QED BY <4>1, <4>2, FS_AddElement
        <3>3. Cardinality(RedeemedNamed(k, p)) \in Nat /\ PerUserLimit[k] \in Nat
            BY <1>14, FS_CardinalityType, CheckoutAssumption
        <3> QED BY <3>1, <3>2, <3>3
    <2> QED BY <2>2, <2>3
<1>17. RoomForCustomer'
    <2> SUFFICES ASSUME NEW d \in Checkouts, Checked(d)', HasCoupon(d), Known(d)
                 PROVE Cardinality(RedeemedNamed(CouponOf[d], PhoneOf[d])')
                           < PerUserLimit[CouponOf[d]]
        BY DEF RoomForCustomer, HasCoupon, Known, HasPhone
    <2>1. d # c /\ Checked(d) BY <1>4, <1>5
    <2>2. PhoneOf[d] # PhoneOf[c] \/ c \notin Named
        BY <1>1, <2>1
        DEF Inv, CustomerHeld, Linked, Checked, Counted, Known, HasPhone
    <2> QED BY <1>13, <2>1, <2>2 DEF Inv, RoomForCustomer, HasCoupon, Known, HasPhone
<1> QED BY <1>6, <1>7, <1>8, <1>10, <1>11, <1>15, <1>16, <1>17 DEF Inv

-----------------------------------------------------------------------------
LEMMA NextInv == Inv /\ [Next]_vars => Inv'
<1> SUFFICES ASSUME Inv, [Next]_vars PROVE Inv' OBVIOUS
<1>1. ASSUME NEW c \in Checkouts, ReadCart(c) \/ CheckDuplicate(c) \/ PlanStock(c)
      PROVE Inv'
    BY <1>1, OutsideInv
<1>2. ASSUME NEW c \in Checkouts, UpsertCustomer(c) PROVE Inv' BY <1>2, UpsertInv
<1>3. ASSUME NEW c \in Checkouts, ReadCoupon(c) PROVE Inv'
    <2>1. CASE Refuse(c) BY <2>1, RefuseInv
    <2>2. CASE ~Refuse(c)
        <3>1. /\ CouponUsable(c) /\ Goto(c, "redeem") /\ UNCHANGED <<private, lock, shop>>
              /\ pc[c] = "coupon"
            BY <1>3, <2>2 DEF ReadCoupon
        <3> QED BY <3>1, MoveInv DEF Linked, Stage, Running, Transaction, private, shop
    <2> QED BY <2>1, <2>2
<1>4. ASSUME NEW c \in Checkouts, TakeCoupon(c) \/ CreateOrder(c) PROVE Inv'
    BY <1>4, TakeCouponInv, CreateInv
<1>5. ASSUME NEW c \in Checkouts, ReadStock(c) \/ WriteStock(c) \/ ClearCart(c)
      PROVE Inv'
    BY <1>5, StockInv
<1>6. ASSUME NEW c \in Checkouts, Commit(c) PROVE Inv' BY <1>6, CommitInv
<1>7. ASSUME NEW c \in Checkouts, Announce(c) PROVE Inv'
    BY <1>7, MoveInv DEF Announce, Stage, Ended, private
<1>8. ASSUME NEW c \in Checkouts, Fails(c) \/ DeadlockVictim(c) PROVE Inv'
    BY <1>8, RefuseInv DEF Fails, DeadlockVictim
<1>9. ASSUME UNCHANGED <<pc, draft, lock, used, orders>> PROVE Inv'
    <2>1. \A k, p : Redemptions(k)' = Redemptions(k) /\ RedeemedNamed(k, p)' = RedeemedNamed(k, p)
        BY <1>9, SetsKept
    <2>2. Shape' /\ OrdersCommitted' /\ DraftsOwn' /\ CouponHeld' /\ CustomerHeld'
        BY <1>9 DEF Inv, Shape, OrdersCommitted, DraftsOwn, CouponHeld, CustomerHeld,
            Created, Counted, Linked, Checked, HasCoupon, Known, HasPhone
    <2>3. RoomForCustomer'
        BY <1>9, <2>1 DEF Inv, RoomForCustomer, Created, Counted, Checked, HasCoupon,
            Known, HasPhone
    <2>4. CouponWithinLimit' /\ OncePerCustomer'
        BY <1>9, <2>1 DEF Inv, CouponWithinLimit, OncePerCustomer
    <2> QED BY <2>2, <2>3, <2>4 DEF Inv
<1>10. CASE \E u \in Users, i \in Items : AddLine(u, i)
    BY <1>9, <1>10 DEF AddLine, private
<1>11. CASE \E o \in recent : WindowPasses(o)
    BY <1>9, <1>11 DEF WindowPasses, private
<1>12. CASE UNCHANGED vars BY <1>9, <1>12 DEF vars, work, private, shop
<1> QED BY <1>1, <1>2, <1>3, <1>4, <1>5, <1>6, <1>7, <1>8, <1>10, <1>11, <1>12
        DEF Next, Statement

LEMMA Invariant == Spec => []Inv
BY InitInv, NextInv, PTL DEF Spec

\* Whatever checkouts overlap, fail or wait for each other, no coupon is used
\* more often than usageLimit, and its usedCount is the number of redemptions
\* (resolveForOrder, attachRedemption).
THEOREM CouponsWithinLimit == Spec => []CouponWithinLimit
<1>1. Inv => CouponWithinLimit BY DEF Inv
<1> QED BY <1>1, Invariant, PTL

\* No customer redeems a coupon more than perUserLimit times in requests that
\* carry a name, from however many accounts at once, because the upsert holds the
\* row from before the count until the commit (upsertByPhoneOnOrder).
THEOREM CustomersRedeemOnce == Spec => []OncePerCustomer
<1>1. Inv => OncePerCustomer BY DEF Inv
<1> QED BY <1>1, Invariant, PTL

-----------------------------------------------------------------------------
(* Sums over lines and orders *)

Price(lot) == [n \in 1..Len(lot) |-> PriceOf[lot[n].item] * lot[n].quantity]

LEMMA SubtotalTotal ==
    ASSUME NEW lot \in Seq(Line)
    PROVE Subtotal(lot) = Total(Price(lot), 1..Len(lot)) /\ Subtotal(lot) \in Int
<1> DEFINE S == 1..Len(lot)
           f == Price(lot)
           eq(it) == it = [s \in SUBSET S |-> IF s = {} THEN 0
                ELSE it[s \ {Max(s)}] + PriceOf[lot[Max(s)].item] * lot[Max(s)].quantity]
           it0 == CHOOSE it : eq(it)
<1>1. DOMAIN lot = S /\ Len(lot) \in Nat OBVIOUS
<1>2. Subtotal(lot) = it0[S]
    BY <1>1 DEF Subtotal, FoldLeft, MapThenFoldSet
<1>3. \A n \in S : f[n] \in Int
    <2> SUFFICES ASSUME NEW n \in S PROVE PriceOf[lot[n].item] * lot[n].quantity \in Int
        BY DEF Price
    <2>1. lot[n] \in Line BY <1>1
    <2> QED BY <2>1, CheckoutAssumption DEF Line
<1>4. \A s \in SUBSET S : s # {} =>
          f[Greatest(Len(lot))[s]] = PriceOf[lot[Max(s)].item] * lot[Max(s)].quantity
    <2> SUFFICES ASSUME NEW s \in SUBSET S, s # {}
                 PROVE f[Max(s)] = PriceOf[lot[Max(s)].item] * lot[Max(s)].quantity
        BY DEF Greatest
    <2>1. Max(s) \in S BY <1>1, GreatestChooses DEF Chooses, Greatest
    <2> QED BY <2>1 DEF Price
<1>5. \A it : LeftSums(it, f, Greatest(Len(lot)), S) <=> eq(it)
    BY <1>4 DEF LeftSums, Greatest
<1> HIDE DEF f, eq
<1>6. PICK it : LeftSums(it, f, Greatest(Len(lot)), S) BY <1>1, <1>3, FoldExists
<1>7. eq(it0) BY <1>5, <1>6
<1> HIDE DEF it0
<1>8. LeftSums(it0, f, Greatest(Len(lot)), S) BY <1>5, <1>7
<1> QED BY <1>1, <1>2, <1>3, <1>8, FoldTotal DEF f

\* The cashback on the bill is covered by the balance read, and there is none
\* without a phone.
LEMMA BillFacts ==
    ASSUME NEW c \in Checkouts, lines[c] \in Seq(Line), funds[c] \in Nat
    PROVE /\ Bill(c).cashbackRedeem \in Nat /\ Bill(c).totalAmount \in Nat
          /\ Spends(c) => HasPhone(c)
<1> DEFINE discount == IF CouponOf[c] = NoCoupon THEN 0 ELSE DiscountOf[CouponOf[c]]
           purse == IF PhoneOf[c] = NoPhone THEN 0 ELSE funds[c]
<1>1. /\ Subtotal(lines[c]) \in Int /\ discount \in Int /\ purse \in Nat /\ 0 \in Int
      /\ RedeemOf[c] \in Int
    BY SubtotalTotal, CheckoutAssumption
<1>2. Bill(c) = CalculateOrderTotals(Subtotal(lines[c]), 0, discount, purse, RedeemOf[c])
    BY DEF Bill
<1>3. PhoneOf[c] = NoPhone => purse = 0 OBVIOUS
<1> HIDE DEF discount, purse
<1>4. AddsUp(Bill(c), purse) BY <1>1, <1>2, TotalsAddUp
<1>5. Bill(c).cashbackRedeem \in 0..purse BY <1>1, <1>4 DEF AddsUp, Positive
<1>6. Bill(c).totalAmount \in Int
    BY <1>1, <1>2 DEF CalculateOrderTotals, Totals, Positive, Smaller
<1>7. Bill(c).totalAmount >= 0 BY <1>4 DEF AddsUp
<1>8. Spends(c) => PhoneOf[c] # NoPhone BY <1>1, <1>3, <1>5 DEF Spends
<1> QED BY <1>1, <1>5, <1>6, <1>7, <1>8, CheckoutAssumption DEF HasPhone

-----------------------------------------------------------------------------
(* Accounts: the rest of the inductive invariant *)

Shopping(c) == pc[c] \in Running \ {"announce"}

\* A checkout past its cart has lines, and is at one of them.
AtLine ==
    \A c \in Checkouts :
        /\ Shopping(c) => lines[c] # <<>>
        /\ pc[c] \in {"read", "write"} => line[c] \in 1..Len(lines[c])

StockWritten == written \in [Checkouts -> [Items -> Nat \cup {Unwritten}]]

DraftsOrdered ==
    \A c \in Checkouts :
        /\ Created(c) => draft[c] \in Order /\ draft[c].lines = lines[c]
        /\ pc[c] = "announce" => draft[c] \in orders

\* Until it commits, a checkout holds the customer whose cashback it spends, so
\* that the balance still covers it.
CashbackHeld ==
    \A c \in Checkouts : Created(c) /\ draft[c].redeem > 0 =>
        /\ HasPhone(c) /\ lock[CustomerRow(PhoneOf[c])] = c
        /\ draft[c].redeem <= balance[PhoneOf[c]]

Typed == TypeOK /\ AtLine /\ StockWritten /\ DraftsOrdered /\ CashbackHeld

LEMMA InitTyped == Init => Typed
<1> SUFFICES ASSUME Init PROVE Typed OBVIOUS
<1>1. TypeOK
    BY CheckoutAssumption DEF Init, TypeOK, Stage, Rows, NothingWritten, Order
<1>2. AtLine /\ StockWritten /\ DraftsOrdered /\ CashbackHeld
    BY DEF Init, AtLine, StockWritten, DraftsOrdered, CashbackHeld, Shopping, Running,
           Outside, Transaction, Created, NothingWritten
<1> QED BY <1>1, <1>2 DEF Typed

LEMMA RefuseTyped == ASSUME Typed, NEW c \in Checkouts, Refuse(c), UNCHANGED pace PROVE Typed'
<1> USE DEF Refuse, Goto, shop, Typed
<1>1. TypeOK' /\ StockWritten'
    <2>1. pc' \in [Checkouts -> Stage] BY DEF TypeOK, Stage, Ended
    <2>2. draft' \in [Checkouts -> Order \cup {NoOrder}] BY DEF TypeOK
    <2>3. NothingWritten \in [Items -> Nat \cup {Unwritten}] BY DEF NothingWritten
    <2>4. StockWritten' BY <2>3 DEF StockWritten
    <2>5. written' \in [Checkouts -> [Items -> Int \cup {Unwritten}]]
        BY <2>3 DEF TypeOK, NothingWritten
    <2>6. lock' \in [Rows -> Checkouts \cup {Free}] BY DEF TypeOK, Released
    <2> QED BY <2>1, <2>2, <2>4, <2>5, <2>6 DEF TypeOK
<1>2. pc'[c] = "refused" /\ \A d \in Checkouts \ {c} : pc'[d] = pc[d] /\ draft'[d] = draft[d]
    BY DEF TypeOK
<1>3. AtLine' BY <1>2 DEF AtLine, Shopping, Running, Outside, Transaction
<1>4. DraftsOrdered' BY <1>2 DEF DraftsOrdered, Created
<1>5. CashbackHeld'
    BY <1>2, RowsDiffer, CheckoutAssumption DEF CashbackHeld, Created, HasPhone, Released
<1> QED BY <1>1, <1>3, <1>4, <1>5

\* What holds of one checkout, to be shown again for the one that moves.
TypedOne(c) ==
    /\ Shopping(c) => lines[c] # <<>>
    /\ pc[c] \in {"read", "write"} => line[c] \in 1..Len(lines[c])
    /\ Created(c) => draft[c] \in Order /\ draft[c].lines = lines[c]
    /\ pc[c] = "announce" => draft[c] \in orders
    /\ Created(c) /\ draft[c].redeem > 0 =>
        /\ HasPhone(c) /\ lock[CustomerRow(PhoneOf[c])] = c
        /\ draft[c].redeem <= balance[PhoneOf[c]]

\* A step of one checkout that commits nothing leaves the others as they were.
LEMMA PrivateTyped ==
    ASSUME Typed, NEW c \in Checkouts, NEW stage \in Stage, Goto(c, stage),
           UNCHANGED <<orders, recent, announced, balance>>,
           TypeOK', StockWritten', TypedOne(c)',
           \A d \in Checkouts \ {c} :
               lines'[d] = lines[d] /\ line'[d] = line[d] /\ draft'[d] = draft[d],
           \A r \in Rows, d \in Checkouts \ {c} : lock[r] = d => lock'[r] = d
    PROVE Typed'
<1>1. \A d \in Checkouts \ {c} : pc'[d] = pc[d] BY DEF Goto, Typed, TypeOK
<1>2. ASSUME NEW d \in Checkouts PROVE TypedOne(d)'
    <2>1. CASE d = c BY <2>1
    <2>2. CASE d # c
        <3>1. TypedOne(d)
            BY DEF Typed, AtLine, DraftsOrdered, CashbackHeld, TypedOne
        <3>2. HasPhone(d) => CustomerRow(PhoneOf[d]) \in Rows BY RowsDiffer DEF HasPhone
        <3>3. /\ pc'[d] = pc[d] /\ lines'[d] = lines[d] /\ line'[d] = line[d]
              /\ draft'[d] = draft[d]
            BY <1>1, <2>2
        <3>4. HasPhone(d) /\ lock[CustomerRow(PhoneOf[d])] = d
                => lock'[CustomerRow(PhoneOf[d])] = d
            BY <2>2, <3>2
        <3> QED BY <3>1, <3>3, <3>4 DEF TypedOne, Shopping, Created, HasPhone
    <2> QED BY <2>1, <2>2
<1> QED BY <1>2 DEF Typed, AtLine, DraftsOrdered, CashbackHeld, TypedOne

\* A checkout that only moves on, without an order or within it.
LEMMA MoveTyped ==
    ASSUME Typed, NEW c \in Checkouts, NEW stage \in Stage, Goto(c, stage),
           UNCHANGED <<pace, lines, funds, line, seen, draft, written, shop>>,
           lock' = lock \/ \E row \in Rows : Take(c, row),
           stage \in Running \ {"announce"} => Shopping(c),
           stage \in {"read", "write", "clear", "commit"} => Created(c),
           stage = "write" => pc[c] = "read",
           stage \notin {"read", "announce"}
    PROVE Typed'
<1>1. pc' = [pc EXCEPT ![c] = stage] /\ pc'[c] = stage BY DEF Goto, Typed, TypeOK
<1>2. /\ lock' \in [Rows -> Checkouts \cup {Free}]
      /\ \A r \in Rows, d \in Checkouts \ {c} : lock[r] = d => lock'[r] = d
      /\ \A r \in Rows : lock[r] = c => lock'[r] = c
    BY CheckoutAssumption DEF Take, Obtainable, Typed, TypeOK
<1>3. TypeOK' /\ StockWritten'
    BY <1>1, <1>2 DEF Typed, TypeOK, StockWritten, shop
<1>4. TypedOne(c)'
    <2>1. HasPhone(c) => CustomerRow(PhoneOf[c]) \in Rows BY RowsDiffer DEF HasPhone
    <2>2. Shopping(c)' => Shopping(c) BY <1>1 DEF Shopping
    <2>3. Created(c)' => Created(c) BY <1>1 DEF Created
    <2> QED BY <1>1, <1>2, <2>1, <2>2, <2>3
            DEF TypedOne, Typed, AtLine, DraftsOrdered, CashbackHeld, HasPhone, shop
<1> QED BY <1>2, <1>3, <1>4, PrivateTyped DEF shop

LEMMA OutsideTyped ==
    ASSUME Typed, NEW c \in Checkouts, UNCHANGED pace,
           ReadCart(c) \/ CheckDuplicate(c) \/ PlanStock(c) \/ ReadCoupon(c)
    PROVE Typed'
<1> USE DEF Stage, Running, Outside, Transaction, Ended
<1>1. CASE ReadCart(c)
    <2>1. PICK stage \in {"refused", "duplicate"} :
              /\ Goto(c, stage)
              /\ stage = "duplicate" => cart[UserOf[c]] # <<>>
        BY <1>1 DEF ReadCart
    <2>2. /\ pc[c] = "idle" /\ lines' = [lines EXCEPT ![c] = cart[UserOf[c]]]
          /\ UNCHANGED <<funds, line, seen, draft, written, lock, shop>>
        BY <1>1 DEF ReadCart
    <2>3. lines'[c] = cart[UserOf[c]] /\ cart[UserOf[c]] \in Seq(Line)
        BY <2>2, CheckoutAssumption DEF Typed, TypeOK
    <2>4. pc' = [pc EXCEPT ![c] = stage] /\ pc'[c] = stage BY <2>1 DEF Goto, Typed, TypeOK
    <2>5. TypeOK' /\ StockWritten' BY <2>2, <2>3, <2>4 DEF Typed, TypeOK, StockWritten, shop
    <2>6. TypedOne(c)' BY <2>1, <2>3, <2>4 DEF TypedOne, Shopping, Created
    <2> QED BY <2>1, <2>2, <2>5, <2>6, PrivateTyped DEF shop, Typed, TypeOK
<1>2. CASE CheckDuplicate(c)
    <2>1. CASE Refuse(c) BY <2>1, RefuseTyped
    <2>2. CASE Goto(c, "plan") /\ UNCHANGED <<private, lock, shop>>
        BY <1>2, <2>2, MoveTyped DEF CheckDuplicate, private, Shopping
    <2> QED BY <1>2, <2>1, <2>2 DEF CheckDuplicate
<1>3. CASE PlanStock(c)
    <2>1. CASE Refuse(c) BY <2>1, RefuseTyped
    <2>2. CASE Goto(c, "customer") /\ UNCHANGED <<private, lock, shop>>
        BY <1>3, <2>2, MoveTyped DEF PlanStock, private, Shopping
    <2> QED BY <1>3, <2>1, <2>2 DEF PlanStock
<1>4. CASE ReadCoupon(c)
    <2>1. CASE Refuse(c) BY <2>1, RefuseTyped
    <2>2. CASE Goto(c, "redeem") /\ UNCHANGED <<private, lock, shop>>
        BY <1>4, <2>2, MoveTyped DEF ReadCoupon, private, Shopping
    <2> QED BY <1>4, <2>1, <2>2 DEF ReadCoupon
<1> QED BY <1>1, <1>2, <1>3, <1>4

LEMMA UpsertTyped ==
    ASSUME Typed, NEW c \in Checkouts, UNCHANGED pace, UpsertCustomer(c)
    PROVE Typed'
<1> USE DEF Stage, Running, Outside, Transaction, Ended
<1>1. pc[c] = "customer" BY DEF UpsertCustomer
<1>2. CASE PhoneOf[c] = NoPhone
    <2>1. CASE Refuse(c) BY <2>1, RefuseTyped
    <2>2. CASE Goto(c, "coupon") /\ UNCHANGED <<private, lock, shop>>
        BY <1>1, <2>2, MoveTyped DEF private, Shopping
    <2> QED BY <1>2, <2>1, <2>2 DEF UpsertCustomer, LinkNobody
<1>3. CASE PhoneOf[c] # NoPhone
    <2>1. /\ HasPhone(c) /\ funds' = [funds EXCEPT ![c] = balance[PhoneOf[c]]]
          /\ Goto(c, "coupon") /\ UNCHANGED <<lines, line, seen, draft, written, shop>>
        BY <1>3, CheckoutAssumption DEF UpsertCustomer, LinkTo, HasPhone
    <2>2. lock' = lock \/ Take(c, CustomerRow(PhoneOf[c])) BY <1>3 DEF UpsertCustomer
    <2>3. CustomerRow(PhoneOf[c]) \in Rows BY <2>1, RowsDiffer DEF HasPhone
    <2>4. /\ lock' \in [Rows -> Checkouts \cup {Free}]
          /\ \A r \in Rows, d \in Checkouts \ {c} : lock[r] = d => lock'[r] = d
        BY <2>2, <2>3, CheckoutAssumption DEF Take, Obtainable, Typed, TypeOK
    <2>5. pc' = [pc EXCEPT ![c] = "coupon"] /\ pc'[c] = "coupon"
        BY <2>1 DEF Goto, Typed, TypeOK
    <2>6. funds' \in [Checkouts -> Nat] BY <2>1 DEF Typed, TypeOK, HasPhone
    <2>7. TypeOK' /\ StockWritten'
        <3> UNCHANGED <<pace, lines, line, seen, draft, written, cart, stock, balance, used,
                        orders, recent, announced, adds>>
            BY <2>1 DEF shop
        <3>1. pc' \in [Checkouts -> Stage] BY <2>5 DEF Typed, TypeOK
        <3> QED BY <2>4, <2>6, <3>1 DEF Typed, TypeOK, StockWritten
    <2>8. TypedOne(c)'
        BY <1>1, <2>1, <2>5 DEF TypedOne, Shopping, Created, Typed, AtLine
    <2> QED BY <2>1, <2>4, <2>7, <2>8, PrivateTyped DEF shop
<1> QED BY <1>2, <1>3

LEMMA TakeCouponTyped ==
    ASSUME Typed, NEW c \in Checkouts, UNCHANGED pace, TakeCoupon(c)
    PROVE Typed'
<1> USE DEF Stage, Running, Outside, Transaction, Ended
<1>1. CASE Refuse(c) BY <1>1, RefuseTyped
<1>2. CASE ~Refuse(c)
    <2>1. /\ pc[c] = "redeem" /\ Goto(c, "order") /\ UNCHANGED <<private, shop>>
          /\ \/ lock' = lock
             \/ CouponOf[c] # NoCoupon /\ Take(c, CouponRow(CouponOf[c]))
        BY <1>2 DEF TakeCoupon, private, shop
    <2>2. CouponOf[c] # NoCoupon => CouponRow(CouponOf[c]) \in Rows
        BY RowsDiffer, CheckoutAssumption
    <2>3. lock' = lock \/ \E row \in Rows : Take(c, row) BY <2>1, <2>2
    <2> QED BY <2>1, <2>3, MoveTyped DEF private, Shopping
<1> QED BY <1>1, <1>2

LEMMA CreateTyped ==
    ASSUME Typed, NEW c \in Checkouts, UNCHANGED pace, CreateOrder(c)
    PROVE Typed'
<1> USE DEF Stage, Running, Outside, Transaction, Ended
<1> DEFINE row == CustomerRow(PhoneOf[c])
           o == [by |-> c, lines |-> lines[c], redeem |-> Bill(c).cashbackRedeem,
                 total |-> Bill(c).totalAmount]
<1>1. CASE Refuse(c) BY <1>1, RefuseTyped
<1>2. CASE ~Refuse(c)
    <2>1. /\ pc[c] = "order" /\ Draft(c)
          /\ \/ ~Spends(c) /\ lock' = lock
             \/ /\ Spends(c) /\ Take(c, row)
                /\ balance[PhoneOf[c]] >= Bill(c).cashbackRedeem
        BY <1>2 DEF CreateOrder
    <2>2. lines[c] \in Seq(Line) /\ funds[c] \in Nat /\ lines[c] # <<>>
        BY <2>1 DEF Typed, TypeOK, AtLine, Shopping
    <2>3. /\ Bill(c).cashbackRedeem \in Nat /\ Bill(c).totalAmount \in Nat
          /\ Spends(c) => HasPhone(c)
        BY <2>2, BillFacts
    <2>4. o \in Order BY <2>2, <2>3 DEF Order
    <2>5. /\ draft' = [draft EXCEPT ![c] = o] /\ line' = [line EXCEPT ![c] = 1]
          /\ Goto(c, "read") /\ UNCHANGED <<lines, funds, seen, written, shop>>
        BY <2>1 DEF Draft
    <2>6. Spends(c) => row \in Rows BY <2>3, RowsDiffer DEF HasPhone
    <2>7. /\ lock' \in [Rows -> Checkouts \cup {Free}]
          /\ \A r \in Rows, d \in Checkouts \ {c} : lock[r] = d => lock'[r] = d
          /\ Spends(c) => lock'[row] = c
        BY <2>1, <2>6, CheckoutAssumption DEF Take, Obtainable, Typed, TypeOK
    <2>8. /\ pc' = [pc EXCEPT ![c] = "read"] /\ pc'[c] = "read"
          /\ draft'[c] = o /\ line'[c] = 1
        BY <2>5 DEF Goto, Typed, TypeOK
    <2> HIDE DEF o
    <2>9. TypeOK' /\ StockWritten'
        BY <2>4, <2>5, <2>7, <2>8 DEF Typed, TypeOK, StockWritten, shop
    <2>10. 1 \in 1..Len(lines[c]) BY <2>2
    <2>11. o.redeem > 0 => Spends(c) /\ balance[PhoneOf[c]] >= o.redeem
        BY <2>1 DEF o, Spends
    <2>12. o.lines = lines[c] BY DEF o
    <2>13. TypedOne(c)'
        BY <2>2, <2>3, <2>4, <2>5, <2>7, <2>8, <2>10, <2>11, <2>12
        DEF TypedOne, Shopping, Created, shop, HasPhone
    <2> QED BY <2>5, <2>7, <2>9, <2>13, PrivateTyped DEF shop, Typed, TypeOK
<1> QED BY <1>1, <1>2

LEMMA StockTyped ==
    ASSUME Typed, NEW c \in Checkouts, UNCHANGED pace,
           ReadStock(c) \/ WriteStock(c) \/ ClearCart(c)
    PROVE Typed'
<1> USE DEF Stage, Running, Outside, Transaction, Ended
<1> DEFINE i == Here(c).item
           q == Here(c).quantity
<1>1. pc[c] \in {"read", "write"} => Here(c) \in Line /\ i \in Items /\ q \in Nat
    <2> SUFFICES ASSUME pc[c] \in {"read", "write"} PROVE Here(c) \in Line
        BY DEF Line
    <2>1. line[c] \in 1..Len(lines[c]) /\ lines[c] \in Seq(Line)
        BY DEF Typed, TypeOK, AtLine
    <2> QED BY <2>1 DEF Here
<1>2. TypedOne(c) BY DEF Typed, AtLine, DraftsOrdered, CashbackHeld, TypedOne
<1>3. CASE ReadStock(c)
    <2>1. CASE Refuse(c) BY <2>1, RefuseTyped
    <2>2. CASE ~Refuse(c)
        <3>1. /\ pc[c] = "read" /\ seen' = [seen EXCEPT ![c] = StockSeenBy(c, i)]
              /\ Goto(c, "write")
              /\ UNCHANGED <<lines, funds, line, draft, written, lock, shop>>
            BY <1>3, <2>2 DEF ReadStock
        <3>2. StockSeenBy(c, i) \in Int
            BY <1>1, <3>1 DEF StockSeenBy, Typed, TypeOK, StockWritten
        <3>3. pc' = [pc EXCEPT ![c] = "write"] /\ pc'[c] = "write"
            BY <3>1 DEF Goto, Typed, TypeOK
        <3>4. TypeOK' /\ StockWritten'
            <4> UNCHANGED <<pace, lines, funds, line, draft, written, lock, cart, stock,
                            balance, used, orders, recent, announced, adds>>
                BY <3>1 DEF shop
            <4>1. pc' \in [Checkouts -> Stage] BY <3>3 DEF Typed, TypeOK
            <4>2. seen' \in [Checkouts -> Int] BY <3>1, <3>2 DEF Typed, TypeOK
            <4> QED BY <4>1, <4>2 DEF Typed, TypeOK, StockWritten
        <3>5. TypedOne(c)'
            BY <1>2, <3>1, <3>3 DEF TypedOne, Shopping, Created, shop, HasPhone
        <3> QED BY <3>1, <3>4, <3>5, PrivateTyped DEF shop
    <2> QED BY <2>1, <2>2
<1>4. CASE WriteStock(c)
    <2> DEFINE left == DeductStockForMode(seen[c], q, "piece")
    <2>1. PICK stage \in {"read", "clear"} :
              Goto(c, stage) /\ (stage = "read" => line[c] # Len(lines[c]))
        BY <1>4 DEF WriteStock
    <2>2. /\ pc[c] = "write" /\ Take(c, ItemRow(i))
          /\ written' = [written EXCEPT ![c][i] = left]
          /\ line' = [line EXCEPT ![c] = @ + 1]
          /\ UNCHANGED <<lines, funds, seen, draft, shop>>
        BY <1>4 DEF WriteStock
    <2>3. left \in Nat
        BY <1>1, <2>2 DEF DeductStockForMode, Positive, Typed, TypeOK
    <2> HIDE DEF left
    <2>4. /\ lock' \in [Rows -> Checkouts \cup {Free}]
          /\ \A r \in Rows, d \in Checkouts \ {c} : lock[r] = d => lock'[r] = d
          /\ \A r \in Rows : lock[r] = c => lock'[r] = c
        BY <2>2, CheckoutAssumption DEF Take, Obtainable, Typed, TypeOK
    <2>5. pc' = [pc EXCEPT ![c] = stage] /\ pc'[c] = stage
        BY <2>1 DEF Goto, Typed, TypeOK
    <2>6. line[c] \in 1..Len(lines[c]) /\ lines[c] \in Seq(Line) /\ line'[c] = line[c] + 1
        BY <2>2 DEF Typed, TypeOK, AtLine
    <2>7. StockWritten' BY <1>1, <2>2, <2>3 DEF Typed, StockWritten
    <2>8. TypeOK'
        <3> UNCHANGED <<pace, lines, funds, seen, draft, cart, stock, balance, used, orders,
                        recent, announced, adds>>
            BY <2>2 DEF shop
        <3>1. pc' \in [Checkouts -> Stage] BY <2>5 DEF Typed, TypeOK
        <3>2. line' \in [Checkouts -> Nat] BY <2>2 DEF Typed, TypeOK
        <3>3. written' \in [Checkouts -> [Items -> Int \cup {Unwritten}]]
            BY <2>7 DEF StockWritten
        <3> QED BY <2>4, <3>1, <3>2, <3>3 DEF Typed, TypeOK
    <2>9. TypedOne(c)'
        <3>1. stage = "read" => line[c] + 1 \in 1..Len(lines[c]) BY <2>1, <2>6
        <3>2. HasPhone(c) => CustomerRow(PhoneOf[c]) \in Rows BY RowsDiffer DEF HasPhone
        <3>3. UNCHANGED <<lines, draft, orders, balance>> BY <2>2 DEF shop
        <3>4. /\ Shopping(c) /\ Created(c) /\ pc'[c] # "write" /\ pc'[c] # "announce"
              /\ (pc'[c] = "read") = (stage = "read")
            BY <2>2, <2>5 DEF Shopping, Created
        <3> QED BY <1>2, <2>4, <2>6, <3>1, <3>2, <3>3, <3>4
                DEF TypedOne, Shopping, Created, HasPhone
    <2> QED BY <2>1, <2>2, <2>4, <2>7, <2>8, <2>9, PrivateTyped DEF shop, Typed, TypeOK
<1>5. CASE ClearCart(c)
    <2>1. /\ pc[c] = "clear" /\ Take(c, CartRow(UserOf[c])) /\ Goto(c, "commit")
          /\ UNCHANGED <<private, shop>>
        BY <1>5 DEF ClearCart
    <2>2. CartRow(UserOf[c]) \in Rows BY RowsDiffer, CheckoutAssumption
    <2> QED BY <2>1, <2>2, MoveTyped DEF private, Shopping, Created
<1> QED BY <1>3, <1>4, <1>5

LEMMA AnnounceTyped ==
    ASSUME Typed, NEW c \in Checkouts, UNCHANGED pace, Announce(c)
    PROVE Typed'
<1> USE DEF Stage, Running, Outside, Transaction, Ended
<1>1. /\ pc[c] = "announce" /\ pc' = [pc EXCEPT ![c] = "done"]
      /\ announced' = announced \cup {draft[c]} /\ draft[c] \in orders
      /\ UNCHANGED <<pace, lines, funds, line, seen, draft, written, lock, cart, stock,
                     balance, used, orders, recent, adds>>
    BY DEF Announce, Goto, private, Typed, DraftsOrdered
<1>2. TypeOK' /\ StockWritten'
    <2>1. pc' \in [Checkouts -> Stage] BY <1>1 DEF Typed, TypeOK
    <2>2. announced' \subseteq orders' BY <1>1 DEF Typed, TypeOK
    <2> QED BY <1>1, <2>1, <2>2 DEF Typed, TypeOK, StockWritten
<1>3. /\ \A d \in Checkouts \ {c} : pc'[d] = pc[d]
      /\ pc'[c] = "done"
    BY <1>1 DEF Typed, TypeOK
<1>4. AtLine' /\ DraftsOrdered' /\ CashbackHeld'
    BY <1>1, <1>3 DEF Typed, AtLine, DraftsOrdered, CashbackHeld, Shopping, Created, HasPhone
<1> QED BY <1>2, <1>4 DEF Typed

LEMMA CommitTyped ==
    ASSUME Typed, NEW c \in Checkouts, UNCHANGED pace, Commit(c)
    PROVE Typed'
<1> USE DEF Stage, Running, Outside, Transaction, Ended
<1> DEFINE o == draft[c]
<1>1. /\ pc[c] = "commit" /\ pc' = [pc EXCEPT ![c] = "announce"]
      /\ stock' = [i \in Items |->
                      IF written[c][i] = Unwritten THEN stock[i] ELSE written[c][i]]
      /\ balance' = [p \in Phones |-> IF p = PhoneOf[c] THEN balance[p] - o.redeem
                                                        ELSE balance[p]]
      /\ used' = [k \in Coupons |-> IF k = CouponOf[c] THEN used[k] + 1 ELSE used[k]]
      /\ cart' = [cart EXCEPT ![UserOf[c]] = <<>>]
      /\ orders' = orders \cup {o} /\ recent' = recent \cup {o}
      /\ lock' = Released(c)
      /\ UNCHANGED <<pace, lines, funds, line, seen, draft, written, announced, adds>>
    BY DEF Commit, Goto, private, Spend
<1>2. /\ o \in Order /\ o.redeem \in Nat
      /\ o.redeem > 0 => HasPhone(c) /\ lock[CustomerRow(PhoneOf[c])] = c
                         /\ o.redeem <= balance[PhoneOf[c]]
    BY <1>1 DEF Typed, DraftsOrdered, CashbackHeld, Created, Order
<1>3. balance' \in [Phones -> Nat]
    <2> SUFFICES ASSUME NEW p \in Phones, p = PhoneOf[c] PROVE balance[p] - o.redeem \in Nat
        BY <1>1 DEF Typed, TypeOK
    <2>1. balance[p] \in Nat BY DEF Typed, TypeOK
    <2>2. CASE o.redeem > 0 BY <1>2, <2>1, <2>2
    <2>3. CASE ~(o.redeem > 0) BY <1>2, <2>1, <2>3
    <2> QED BY <2>2, <2>3
<1>4. TypeOK' /\ StockWritten'
    <2>1. pc' \in [Checkouts -> Stage] BY <1>1 DEF Typed, TypeOK
    <2>2. stock' \in [Items -> Nat] BY <1>1 DEF Typed, TypeOK, StockWritten
    <2>3. used' \in [Coupons -> Nat] BY <1>1 DEF Typed, TypeOK
    <2>4. cart' \in [Users -> Seq(Line)]
        <3>1. <<>> \in Seq(Line) OBVIOUS
        <3>2. cart \in [Users -> Seq(Line)] BY DEF Typed, TypeOK
        <3> QED BY <1>1, <3>1, <3>2
    <2>5. lock' \in [Rows -> Checkouts \cup {Free}] BY <1>1 DEF Typed, TypeOK, Released
    <2>6. orders' \subseteq Order /\ recent' \subseteq orders' /\ announced' \subseteq orders'
        BY <1>1, <1>2 DEF Typed, TypeOK
    <2> QED BY <1>1, <1>3, <2>1, <2>2, <2>3, <2>4, <2>5, <2>6
            DEF Typed, TypeOK, StockWritten
<1>5. pc'[c] = "announce" /\ \A d \in Checkouts \ {c} : pc'[d] = pc[d]
    BY <1>1 DEF Typed, TypeOK
<1>6. AtLine' BY <1>1, <1>5 DEF Typed, AtLine, Shopping
<1>7. DraftsOrdered' BY <1>1, <1>5 DEF Typed, DraftsOrdered, Created
<1>8. CashbackHeld'
    <2> SUFFICES ASSUME NEW d \in Checkouts, Created(d)', draft[d].redeem > 0
                 PROVE /\ HasPhone(d) /\ lock'[CustomerRow(PhoneOf[d])] = d
                       /\ draft[d].redeem <= balance'[PhoneOf[d]]
        BY <1>1 DEF CashbackHeld, HasPhone
    <2>1. d # c /\ Created(d) BY <1>5 DEF Created
    <2>2. /\ HasPhone(d) /\ lock[CustomerRow(PhoneOf[d])] = d
          /\ draft[d].redeem <= balance[PhoneOf[d]]
        BY <2>1 DEF Typed, CashbackHeld
    <2>3. lock'[CustomerRow(PhoneOf[d])] = d
        BY <1>1, <2>1, <2>2, RowsDiffer DEF Released, HasPhone
    <2>4. balance'[PhoneOf[d]] = balance[PhoneOf[d]]
        <3>1. CASE PhoneOf[d] # PhoneOf[c] BY <1>1, <2>2, <3>1 DEF HasPhone
        <3>2. CASE PhoneOf[d] = PhoneOf[c]
            <4>1. o.redeem = 0 BY <1>2, <2>1, <2>2, <3>2
            <4>2. balance[PhoneOf[d]] \in Nat BY <2>2 DEF HasPhone, Typed, TypeOK
            <4> QED BY <1>1, <2>2, <3>2, <4>1, <4>2 DEF HasPhone
        <3> QED BY <3>1, <3>2
    <2> QED BY <2>2, <2>3, <2>4
<1> QED BY <1>4, <1>6, <1>7, <1>8 DEF Typed

LEMMA NextTyped == Typed /\ [Next]_vars => Typed'
<1> SUFFICES ASSUME Typed, [Next]_vars PROVE Typed' OBVIOUS
<1>1. CASE UNCHANGED vars
    BY <1>1 DEF vars, work, private, shop, Typed, TypeOK, AtLine, StockWritten, DraftsOrdered,
        CashbackHeld, Shopping, Created, HasPhone
<1>2. ASSUME UNCHANGED <<pace, pc, private, lock, stock, balance, used, orders, announced>>,
             cart' \in [Users -> Seq(Line)], recent' \subseteq orders', adds' \in Nat
      PROVE Typed'
    <2>1. /\ UNCHANGED <<pace, pc, lines, funds, line, seen, draft, written, lock, stock,
                         balance, used, orders, announced>>
          /\ cart' \in [Users -> Seq(Line)] /\ recent' \subseteq orders' /\ adds' \in Nat
        BY <1>2 DEF private
    <2>3. TypeOK' /\ StockWritten' BY <2>1 DEF Typed, TypeOK, StockWritten
    <2>2. AtLine' /\ DraftsOrdered' /\ CashbackHeld'
        BY <1>2 DEF Typed, AtLine, DraftsOrdered, CashbackHeld, Shopping, Created, HasPhone,
            private
    <2> QED BY <2>2, <2>3 DEF Typed
<1>3. ASSUME NEW u \in Users, NEW i \in Items, AddLine(u, i), UNCHANGED pace PROVE Typed'
    <2>1. [item |-> i, quantity |-> 1] \in Line BY DEF Line
    <2>2. Append(cart[u], [item |-> i, quantity |-> 1]) \in Seq(Line)
        BY <2>1 DEF Typed, TypeOK
    <2>3. cart' \in [Users -> Seq(Line)] BY <1>3, <2>2 DEF AddLine, Typed, TypeOK
    <2>4. UNCHANGED <<pace, pc, private, lock, stock, balance, used, orders, recent, announced>>
          /\ adds' \in Nat
        BY <1>3 DEF AddLine, Typed, TypeOK
    <2> QED BY <1>2, <2>3, <2>4 DEF Typed, TypeOK
<1>4. ASSUME NEW o \in recent, WindowPasses(o), UNCHANGED pace PROVE Typed'
    BY <1>2, <1>4 DEF WindowPasses, Typed, TypeOK
<1>5. ASSUME NEW c \in Checkouts, UNCHANGED pace,
             ReadCart(c) \/ Statement(c) \/ Fails(c) \/ DeadlockVictim(c)
      PROVE Typed'
    BY <1>5, OutsideTyped, UpsertTyped, TakeCouponTyped, CreateTyped, StockTyped, CommitTyped,
       AnnounceTyped, RefuseTyped DEF Statement, Fails, DeadlockVictim
<1> QED BY <1>1, <1>3, <1>4, <1>5 DEF Next

LEMMA Accounts == Spec => [](Inv /\ Typed)
<1>1. Init => Typed BY InitTyped
<1>2. Typed /\ [Next]_vars => Typed' BY NextTyped
<1> QED BY <1>1, <1>2, Invariant, PTL DEF Spec

\* Only a commit changes the accounts.
LEMMA OnlyCommits ==
    [Next]_vars => UNCHANGED <<orders, balance, used>> \/ \E c \in Checkouts : Commit(c)
<1> SUFFICES ASSUME [Next]_vars, ~ \E c \in Checkouts : Commit(c)
             PROVE UNCHANGED <<orders, balance, used>>
    OBVIOUS
<1>1. CASE UNCHANGED vars BY <1>1 DEF vars, work, shop
<1>2. ASSUME NEW c \in Checkouts, ReadCart(c) \/ Statement(c) \/ Fails(c) \/ DeadlockVictim(c)
      PROVE UNCHANGED <<orders, balance, used>>
    <2>1. CASE Refuse(c) BY <2>1 DEF Refuse, shop
    <2>2. CASE ~Refuse(c)
        BY <1>2, <2>2 DEF Statement, ReadCart, CheckDuplicate, PlanStock, UpsertCustomer,
            LinkNobody, LinkTo, ReadCoupon, TakeCoupon, CreateOrder, Draft, ReadStock,
            WriteStock, ClearCart, Announce, Fails, DeadlockVictim, shop
    <2> QED BY <2>1, <2>2
<1>3. ASSUME NEW u \in Users, NEW i \in Items, AddLine(u, i)
      PROVE UNCHANGED <<orders, balance, used>>
    BY <1>3 DEF AddLine
<1>4. ASSUME NEW o \in recent, WindowPasses(o) PROVE UNCHANGED <<orders, balance, used>>
    BY <1>4 DEF WindowPasses
<1> QED BY <1>1, <1>2, <1>3, <1>4 DEF Next

LEMMA CommitPlaces ==
    ASSUME Inv, Typed, NEW c \in Checkouts, Commit(c)
    PROVE Book!Place(draft[c]) /\ draft[c] \in orders' \ orders
<1> DEFINE o == draft[c]
           k == CouponOf[c]
<1>1. /\ pc[c] = "commit" /\ Created(c) /\ orders' = orders \cup {o}
      /\ used' = [j \in Coupons |-> IF j = k THEN used[j] + 1 ELSE used[j]]
      /\ balance' = [p \in Phones |-> IF p = PhoneOf[c] THEN balance[p] - o.redeem
                                                        ELSE balance[p]]
    BY DEF Commit, Spend, Created
<1>2. o.by = c /\ o.redeem \in Nat /\ \A d \in orders : d.by # c
    BY <1>1 DEF Inv, DraftsOwn, OrdersCommitted, Typed, DraftsOrdered, Order
<1>3. k \in Coupons => used[k] < UsageLimit[k]
    BY <1>1 DEF Inv, CouponHeld, Counted, HasCoupon
<1>4. k \in Coupons /\ PhoneOf[c] \in Phones /\ c \in Named =>
          Book!Cardinality(Book!OfCustomer(k, PhoneOf[c])) < PerUserLimit[k]
    <2>2. \A S : Book!Cardinality(S) = Cardinality(S) BY DEF Book!Cardinality, Cardinality
    <2>1. Book!OfCustomer(k, PhoneOf[c]) = RedeemedNamed(k, PhoneOf[c])
        BY DEF Book!OfCustomer, RedeemedNamed, RedeemedBy, Redemptions
    <2> QED BY <1>1, <2>1, <2>2
            DEF Inv, RoomForCustomer, Checked, Counted, HasCoupon, Known, HasPhone
<1>5. PhoneOf[c] \notin Phones => o.redeem = 0
    BY <1>1, <1>2 DEF Typed, CashbackHeld, HasPhone
<1>6. \A p \in Phones : balance'[p] >= 0
    <2> SUFFICES ASSUME NEW p \in Phones PROVE balance'[p] >= 0 OBVIOUS
    <2>1. balance[p] \in Nat BY DEF Typed, TypeOK
    <2>2. p = PhoneOf[c] /\ o.redeem > 0 => o.redeem <= balance[p]
        BY <1>1 DEF Typed, CashbackHeld
    <2> QED BY <1>1, <1>2, <2>1, <2>2
<1>7. Book!WithinLimits(o) BY <1>2, <1>3, <1>4 DEF Book!WithinLimits
<1> HIDE DEF o
<1>8. Book!Place(o)
    <2>1. /\ \A d \in orders : d.by # o.by
          /\ PhoneOf[o.by] \notin Phones => o.redeem = 0
        BY <1>2, <1>5
    <2>2. /\ used' = [j \in Coupons |-> IF j = CouponOf[o.by] THEN used[j] + 1 ELSE used[j]]
          /\ balance' = [p \in Phones |-> IF p = PhoneOf[o.by] THEN balance[p] - o.redeem
                                                              ELSE balance[p]]
        BY <1>1, <1>2
    <2> QED BY <1>1, <1>6, <1>7, <2>1, <2>2 DEF Book!Place
<1>9. o \in orders' \ orders BY <1>1, <1>2
<1> QED BY <1>8, <1>9 DEF o

\* Checkout implements OrderBook: whatever the transactions read, hold and wait for,
\* orders, balances and coupon counts change only by placing an order within the
\* limits, all three in one step (createFromCart).
THEOREM CheckoutPlacesOrders == Spec => PlacesOrders
<1>1. Init => Book!Init BY DEF Init, Book!Init
<1>2. Inv /\ Typed /\ [Next]_vars => [Book!Next]_(Book!book)
    <2> SUFFICES ASSUME Inv, Typed, [Next]_vars PROVE [Book!Next]_(Book!book) OBVIOUS
    <2>1. CASE UNCHANGED <<orders, balance, used>> BY <2>1 DEF Book!book
    <2>2. ASSUME NEW c \in Checkouts, Commit(c) PROVE Book!Next
        BY <2>2, CommitPlaces DEF Book!Next
    <2> QED BY <2>1, <2>2, OnlyCommits
<1> QED BY <1>1, <1>2, Accounts, PTL DEF Spec, PlacesOrders, Book!Spec

-----------------------------------------------------------------------------
(* The balances *)

Redeem == [o \in Order |-> o.redeem]

LEMMA RedeemTotal ==
    ASSUME NEW S, IsFiniteSet(S), S \subseteq Order
    PROVE MapThenSumSet(LAMBDA o : o.redeem, S) = Total(Redeem, S)
<1> DEFINE f == Redeem
           ch == Chooser(S)
           eq(it) == it = [s \in SUBSET S |-> IF s = {} THEN 0
                 ELSE (CHOOSE x \in s : TRUE).redeem + it[s \ {CHOOSE x \in s : TRUE}]]
           it0 == CHOOSE it : eq(it)
<1>1. \A s \in SUBSET S : s # {} =>
          ch[s] = (CHOOSE x \in s : TRUE) /\ f[ch[s]] = (CHOOSE x \in s : TRUE).redeem
    BY DEF Chooser, Redeem
<1>2. ASSUME NEW it PROVE Sums(it, f, ch, S) <=> eq(it)
    <2> HIDE DEF f, ch
    <2> QED BY <1>1 DEF Sums, SumsOver
<1>3. MapThenSumSet(LAMBDA o : o.redeem, S) = it0[S]
    BY DEF MapThenSumSet, MapThenFoldSet
<1>4. \A x \in S : f[x] \in Int BY DEF Redeem, Order
<1>5. Chooses(ch, S) BY ChooserChooses
<1> HIDE DEF f, ch, eq
<1>6. PICK it : Sums(it, f, ch, S) BY <1>5, SumsExist
<1>7. eq(it0)
    <2>1. eq(it) BY <1>2, <1>6
    <2> QED BY <2>1
<1> HIDE DEF it0
<1>8. Sums(it0, f, ch, S) BY <1>2, <1>7
<1>9. it0[S] = Total(f, S)
    <2>1. S \in SUBSET S OBVIOUS
    <2> QED BY <1>4, <1>5, <1>8, <2>1, SumIsTotal
<1> QED BY <1>3, <1>9 DEF f

OrdersOf(p) == {o \in orders : PhoneOf[o.by] = p}
Spent ==
    \A p \in Phones : balance[p] = OpeningBalance[p] - Total(Redeem, OrdersOf(p))

LEMMA SpentIsBalanceSpent == Inv /\ Typed /\ Spent => BalanceSpent
<1> SUFFICES ASSUME Inv, Typed, Spent, NEW p \in Phones
             PROVE /\ balance[p] = OpeningBalance[p]
                                   - MapThenSumSet(LAMBDA o : o.redeem, OrdersOf(p))
                   /\ balance[p] >= 0
    BY DEF BalanceSpent, OrdersOf
<1>1. OrdersOf(p) \subseteq orders /\ IsFiniteSet(orders) /\ orders \subseteq Order
    BY DEF OrdersOf, Inv, Shape, Typed, TypeOK
<1>2. IsFiniteSet(OrdersOf(p)) BY <1>1, FS_Subset
<1>3. MapThenSumSet(LAMBDA o : o.redeem, OrdersOf(p)) = Total(Redeem, OrdersOf(p))
    BY <1>1, <1>2, RedeemTotal
<1>4. balance[p] >= 0 BY DEF Typed, TypeOK
<1> QED BY <1>3, <1>4 DEF Spent

LEMMA InitSpent == Init => Spent
<1> SUFFICES ASSUME Init, NEW p \in Phones
             PROVE balance[p] = OpeningBalance[p] - Total(Redeem, OrdersOf(p))
    BY DEF Spent
<1>1. OrdersOf(p) = {} BY DEF Init, OrdersOf
<1> QED BY <1>1, TotalEmpty, CheckoutAssumption DEF Init

LEMMA NextSpent == Inv /\ Typed /\ Spent /\ [Next]_vars => Spent'
<1> SUFFICES ASSUME Inv, Typed, Spent, [Next]_vars PROVE Spent' OBVIOUS
<1>1. CASE UNCHANGED <<orders, balance, used>> BY <1>1 DEF Spent, OrdersOf
<1>2. ASSUME NEW c \in Checkouts, Commit(c) PROVE Spent'
    <2> DEFINE o == draft[c]
    <2>1. /\ orders' = orders \cup {o} /\ pc[c] = "commit"
          /\ balance' = [p \in Phones |-> IF p = PhoneOf[c] THEN balance[p] - o.redeem
                                                            ELSE balance[p]]
        BY <1>2 DEF Commit, Spend
    <2>2. o.by = c /\ o \in Order /\ o \notin orders
        BY <2>1 DEF Inv, DraftsOwn, OrdersCommitted, Typed, DraftsOrdered, Created
    <2> SUFFICES ASSUME NEW p \in Phones
                 PROVE balance'[p] = OpeningBalance[p] - Total(Redeem, OrdersOf(p)')
        BY DEF Spent
    <2>3. balance[p] = OpeningBalance[p] - Total(Redeem, OrdersOf(p)) BY DEF Spent
    <2>4. CASE p # PhoneOf[c]
        <3>1. OrdersOf(p)' = OrdersOf(p) BY <2>1, <2>2, <2>4 DEF OrdersOf
        <3> QED BY <2>1, <2>3, <2>4, <3>1
    <2>5. CASE p = PhoneOf[c]
        <3>1. OrdersOf(p)' = OrdersOf(p) \cup {o} /\ o \notin OrdersOf(p)
            BY <2>1, <2>2, <2>5 DEF OrdersOf
        <3>2. /\ OrdersOf(p) \subseteq orders /\ IsFiniteSet(orders) /\ orders \subseteq Order
            BY DEF OrdersOf, Inv, Shape, Typed, TypeOK
        <3>3. IsFiniteSet(OrdersOf(p)) BY <3>2, FS_Subset
        <3>4. \A x \in OrdersOf(p) \cup {o} : Redeem[x] \in Int
            BY <2>2, <3>2 DEF Redeem, Order
        <3>5. Total(Redeem, OrdersOf(p) \cup {o}) = Redeem[o] + Total(Redeem, OrdersOf(p))
            BY <3>1, <3>3, <3>4, TotalAdd
        <3>6. Total(Redeem, OrdersOf(p)) \in Int BY <3>3, <3>4, TotalType
        <3>7. Redeem[o] = o.redeem /\ o.redeem \in Int BY <2>2 DEF Redeem, Order
        <3>8. OpeningBalance[p] \in Int /\ balance'[p] = balance[p] - o.redeem
            BY <2>1, <2>5, CheckoutAssumption
        <3> HIDE DEF o
        <3> QED BY <2>3, <3>1, <3>5, <3>6, <3>7, <3>8
    <2> QED BY <2>4, <2>5
<1> QED BY <1>1, <1>2, OnlyCommits

\* The cashback missing from a balance is what that phone's orders redeemed, and
\* no balance is ever overdrawn, for any number of checkouts that read it together,
\* fail or are sent again (createFromCart).
THEOREM BalancesAddUp == Spec => []BalancesSound
<1>1. Inv /\ Typed /\ Spent => BalancesSound
    BY SpentIsBalanceSpent DEF BalancesSound, Typed
<1> QED BY <1>1, InitSpent, NextSpent, Accounts, PTL DEF Spec

-----------------------------------------------------------------------------
(* One checkout after the other *)

Amounts(lot, i) ==
    [n \in 1..Len(lot) |-> IF lot[n].item = i THEN lot[n].quantity ELSE 0]
\* What the lines before the n-th take of a product.
SoldBefore(lot, i, n) == Total(Amounts(lot, i), 1..(n - 1))
SoldOf(i) == [o \in Order |-> Sold(o, i)]

LEMMA AmountsType ==
    ASSUME NEW lot \in Seq(Line), NEW i
    PROVE \A n \in 1..Len(lot) : Amounts(lot, i)[n] \in Int
<1> SUFFICES ASSUME NEW n \in 1..Len(lot) PROVE Amounts(lot, i)[n] \in Int OBVIOUS
<1>1. lot[n] \in Line OBVIOUS
<1> QED BY <1>1 DEF Amounts, Line

LEMMA SoldTotal ==
    ASSUME NEW o \in Order, NEW i
    PROVE Sold(o, i) = SoldBefore(o.lines, i, Len(o.lines) + 1) /\ Sold(o, i) \in Int
<1> DEFINE lot == o.lines
           N == Len(lot)
           S == 1..N
           f == Amounts(lot, i)
           eq(it) == it = [s \in SUBSET S |-> IF s = {} THEN 0
                ELSE IF lot[Max(s)].item = i THEN it[s \ {Max(s)}] + lot[Max(s)].quantity
                     ELSE it[s \ {Max(s)}]]
           it0 == CHOOSE it : eq(it)
<1>1. lot \in Seq(Line) /\ DOMAIN lot = S /\ N \in Nat BY DEF Order
<1>2. Sold(o, i) = it0[S] BY <1>1 DEF Sold, FoldLeft, MapThenFoldSet
<1>3. \A n \in S : f[n] \in Int BY <1>1, AmountsType
<1>4. \A s \in SUBSET S : s # {} => Max(s) \in S /\ Greatest(N)[s] = Max(s)
    BY <1>1, GreatestChooses DEF Chooses, Greatest
<1>5. \A n \in S : f[n] = IF lot[n].item = i THEN lot[n].quantity ELSE 0 BY DEF Amounts
<1> HIDE DEF f
<1>6. PICK it : LeftSums(it, f, Greatest(N), S) BY <1>1, <1>3, FoldExists
<1>0. IsFiniteSet(S) /\ Chooses(Greatest(N), S) BY <1>1, FS_Interval, GreatestChooses
<1>7. \A s \in SUBSET S : it[s] \in Int
    <2> HIDE DEF S, N
    <2> QED BY <1>0, <1>3, <1>6, LeftSumsType
<1>8. eq(it)
    <2>1. ASSUME NEW s \in SUBSET S, s # {}
          PROVE it[s] = IF lot[Max(s)].item = i
                        THEN it[s \ {Max(s)}] + lot[Max(s)].quantity
                        ELSE it[s \ {Max(s)}]
        <3>1. it[s] = it[s \ {Max(s)}] + f[Max(s)] BY <1>4, <1>6, <2>1 DEF LeftSums
        <3>2. it[s \ {Max(s)}] \in Int BY <1>7
        <3> QED BY <1>4, <1>5, <2>1, <3>1, <3>2
    <2>2. it[{}] = 0 /\ it = [s \in SUBSET S |-> it[s]] BY <1>6 DEF LeftSums
    <2> QED BY <2>1, <2>2
<1>9. eq(it0)
    <2> HIDE DEF eq
    <2> QED BY <1>8
<1> HIDE DEF it0
<1>10. it0[S] = it[S]
    <2> DEFINE B == {s \in SUBSET S : it0[s] # it[s]}
    <2> SUFFICES ASSUME B # {} PROVE FALSE OBVIOUS
    <2>1. PICK s \in B : \A u \in B : u \subseteq s => u = s
        <3>1. B \subseteq SUBSET S OBVIOUS
        <3> HIDE DEF B, S
        <3> QED BY <1>0, <3>1, SmallestSet
    <2>2. CASE s = {} BY <1>8, <1>9, <2>1, <2>2
    <2>3. CASE s # {}
        <3>1. Max(s) \in s BY <1>1, <2>3, GreatestChooses DEF Chooses, Greatest
        <3>2. it0[s \ {Max(s)}] = it[s \ {Max(s)}] BY <2>1, <3>1
        <3> QED BY <1>8, <1>9, <2>1, <2>3, <3>2
    <2> QED BY <2>2, <2>3
<1>11. 1..(N + 1 - 1) = S BY <1>1
<1>12. it[S] = Total(f, S) /\ it[S] \in Int BY <1>1, <1>3, <1>6, FoldTotal
<1> QED BY <1>2, <1>10, <1>11, <1>12 DEF SoldBefore, f

LEMMA StockTotal ==
    ASSUME NEW S, IsFiniteSet(S), S \subseteq Order, NEW i
    PROVE MapThenSumSet(LAMBDA o : Sold(o, i), S) = Total(SoldOf(i), S)
<1> DEFINE f == SoldOf(i)
           ch == Chooser(S)
           eq(it) == it = [s \in SUBSET S |-> IF s = {} THEN 0
                 ELSE Sold(CHOOSE x \in s : TRUE, i) + it[s \ {CHOOSE x \in s : TRUE}]]
           it0 == CHOOSE it : eq(it)
<1>1. \A s \in SUBSET S : s # {} =>
          ch[s] = (CHOOSE x \in s : TRUE) /\ f[ch[s]] = Sold(CHOOSE x \in s : TRUE, i)
    BY DEF Chooser, SoldOf
<1>2. ASSUME NEW it PROVE Sums(it, f, ch, S) <=> eq(it)
    <2> HIDE DEF f, ch
    <2> QED BY <1>1 DEF Sums, SumsOver
<1>3. MapThenSumSet(LAMBDA o : Sold(o, i), S) = it0[S]
    BY DEF MapThenSumSet, MapThenFoldSet
<1>4. \A x \in S : f[x] \in Int BY SoldTotal DEF SoldOf
<1>5. Chooses(ch, S) BY ChooserChooses
<1> HIDE DEF f, ch, eq
<1>6. PICK it : Sums(it, f, ch, S) BY <1>5, SumsExist
<1>7. eq(it0)
    <2>1. eq(it) BY <1>2, <1>6
    <2> QED BY <2>1
<1> HIDE DEF it0
<1>8. Sums(it0, f, ch, S) BY <1>2, <1>7
<1>9. it0[S] = Total(f, S)
    <2>1. S \in SUBSET S OBVIOUS
    <2> QED BY <1>4, <1>5, <1>8, <2>1, SumIsTotal
<1> QED BY <1>3, <1>9 DEF f

OneRuns == \A c, d \in Checkouts : pc[c] \in Running /\ pc[d] \in Running => c = d

\* What is known of one checkout while no other runs: the cart is as it was read,
\* the transaction has taken from the stock exactly the lines before the current
\* one, and no recent order has its key.
AloneAt(c) ==
    /\ Shopping(c) => cart[UserOf[c]] = lines[c]
    /\ pc[c] \in {"idle", "refused"} \/ (Shopping(c) /\ ~Created(c)) =>
           written[c] = NothingWritten
    /\ Created(c) => \A i \in Items :
           StockSeenBy(c, i) = stock[i] - SoldBefore(lines[c], i, line[c])
    /\ pc[c] \in {"clear", "commit"} => line[c] = Len(lines[c]) + 1
    /\ pc[c] = "write" => seen[c] = StockSeenBy(c, Here(c).item)
                          /\ seen[c] >= Here(c).quantity
    /\ Shopping(c) /\ pc[c] # "duplicate" =>
           \A o \in recent : KeyOf(o) # Key(c, lines[c])

Conserved == \A i \in Items : stock[i] = OpeningStock[i] - Total(SoldOf(i), orders)
KeysDiffer == \A o, d \in recent : o # d => KeyOf(o) # KeyOf(d)

Alone == pace = "serial" =>
    OneRuns /\ (\A c \in Checkouts : AloneAt(c)) /\ Conserved /\ KeysDiffer

LEMMA InitAlone == Init => Alone
<1> SUFFICES ASSUME Init PROVE Alone OBVIOUS
<1>1. OneRuns /\ \A c \in Checkouts : AloneAt(c)
    BY DEF Init, OneRuns, AloneAt, Shopping, Created, Running, Outside, Transaction
<1>2. Conserved BY TotalEmpty, CheckoutAssumption DEF Init, Conserved
<1>3. KeysDiffer BY DEF Init, KeysDiffer
<1> QED BY <1>1, <1>2, <1>3 DEF Alone

\* A step of the only checkout that runs has to be looked at for that one only.
LEMMA AloneStep ==
    ASSUME Alone, Typed, pace = "serial", UNCHANGED pace, NEW c \in Checkouts,
           pc[c] \in Running \/ \A d \in Checkouts : pc[d] \notin Running,
           \A d \in Checkouts \ {c} : pc'[d] = pc[d] /\ written'[d] = written[d],
           AloneAt(c)', Conserved', KeysDiffer'
    PROVE Alone'
<1>1. OneRuns /\ \A d \in Checkouts : AloneAt(d) BY DEF Alone
<1>2. \A d \in Checkouts \ {c} : pc[d] \notin Running BY <1>1 DEF OneRuns
<1>3. OneRuns' BY <1>2 DEF OneRuns
<1>4. ASSUME NEW d \in Checkouts, d # c PROVE AloneAt(d)'
    <2>1. pc[d] \notin Running /\ pc'[d] = pc[d] /\ written'[d] = written[d]
        BY <1>2, <1>4
    <2>2. ~Shopping(d)' /\ ~Created(d)' /\ pc'[d] \notin {"write", "clear", "commit"}
        BY <2>1 DEF Shopping, Created, Running, Transaction
    <2>3. pc[d] \in {"idle", "refused"} => written[d] = NothingWritten
        BY <1>1 DEF AloneAt
    <2> QED BY <2>1, <2>2, <2>3 DEF AloneAt, NothingWritten
<1> QED BY <1>3, <1>4 DEF Alone

LEMMA RefuseAlone ==
    ASSUME Alone, Typed, pace = "serial", UNCHANGED pace, NEW c \in Checkouts,
           pc[c] \in Running, Refuse(c)
    PROVE Alone'
<1>1. /\ pc'[c] = "refused" /\ written'[c] = NothingWritten
      /\ \A d \in Checkouts \ {c} : pc'[d] = pc[d] /\ written'[d] = written[d]
    BY DEF Refuse, Goto, Typed, TypeOK
<1>2. AloneAt(c)'
    BY <1>1 DEF AloneAt, Shopping, Created, Running, Outside, Transaction, NothingWritten
<1>3. UNCHANGED <<stock, orders, recent>> BY DEF Refuse, shop
<1>4. Conserved' /\ KeysDiffer' BY <1>3 DEF Alone, Conserved, KeysDiffer, KeyOf, Key
<1> QED BY <1>1, <1>2, <1>4, AloneStep

\* A step that only moves the checkout, takes a row or reads the balance.
LEMMA MoveAlone ==
    ASSUME Alone, Typed, pace = "serial", UNCHANGED pace, NEW c \in Checkouts,
           Shopping(c), NEW stage \in Running \ {"announce"}, Goto(c, stage),
           UNCHANGED <<lines, line, seen, draft, written, shop>>,
           stage # "duplicate",
           stage \in {"read", "write", "clear", "commit"} => Created(c),
           Created(c) => stage \in {"read", "write", "clear", "commit"},
           stage = "write" => pc[c] = "write",
           stage \in {"clear", "commit"} => pc[c] \in {"clear", "commit"},
           pc[c] = "duplicate" => \A o \in recent : KeyOf(o) # Key(c, lines[c])
    PROVE Alone'
<1>1. pc'[c] = stage /\ \A d \in Checkouts \ {c} : pc'[d] = pc[d]
    BY DEF Goto, Typed, TypeOK
<1>2. AloneAt(c) BY DEF Alone
<1>3. UNCHANGED <<cart, stock, orders, recent>> BY DEF shop
<1>4. /\ Shopping(c)' /\ Created(c)' = Created(c)
      /\ \A i : StockSeenBy(c, i)' = StockSeenBy(c, i)
      /\ Here(c)' = Here(c) /\ NothingWritten' = NothingWritten
      /\ \A o : KeyOf(o)' = KeyOf(o)
      /\ pc'[c] \notin {"idle", "refused"}
    BY <1>1, <1>3 DEF Shopping, Created, StockSeenBy, Here, NothingWritten, KeyOf, Key,
        Running, Outside, Transaction
<1>5. AloneAt(c)'
    <2>1. \A i : SoldBefore(lines[c], i, line[c])' = SoldBefore(lines[c], i, line[c])
        BY DEF SoldBefore, Total, Amounts, Sums, SumsOver, Chooser
    <2> QED BY <1>1, <1>2, <1>3, <1>4, <2>1 DEF AloneAt, Key
<1>6. Conserved' /\ KeysDiffer' BY <1>3 DEF Alone, Conserved, KeysDiffer, KeyOf, Key
<1>7. pc[c] \in Running BY DEF Shopping
<1> QED BY <1>1, <1>5, <1>6, <1>7, AloneStep

LEMMA OutsideAlone ==
    ASSUME Alone, Typed, pace = "serial", UNCHANGED pace, NEW c \in Checkouts,
           ReadCart(c) \/ CheckDuplicate(c) \/ PlanStock(c) \/ ReadCoupon(c)
    PROVE Alone'
<1> USE DEF Running, Outside, Transaction
<1>1. CASE ReadCart(c)
    <2>1. /\ pc[c] = "idle" /\ \A d \in Checkouts : pc[d] \notin Running
          /\ lines' = [lines EXCEPT ![c] = cart[UserOf[c]]]
          /\ UNCHANGED <<funds, line, seen, draft, written, lock, shop>>
        BY <1>1 DEF ReadCart
    <2>2. PICK stage \in {"refused", "duplicate"} : Goto(c, stage) BY <1>1 DEF ReadCart
    <2>3. /\ pc'[c] = stage /\ lines'[c] = cart[UserOf[c]]
          /\ \A d \in Checkouts \ {c} : pc'[d] = pc[d]
        BY <2>1, <2>2 DEF Goto, Typed, TypeOK
    <2>4. UNCHANGED <<cart, stock, orders, recent>> BY <2>1 DEF shop
    <2>5. written[c] = NothingWritten BY <2>1 DEF Alone, AloneAt
    <2>6. AloneAt(c)'
        BY <2>1, <2>3, <2>4, <2>5 DEF AloneAt, Shopping, Created, NothingWritten
    <2>7. Conserved' /\ KeysDiffer' BY <2>4 DEF Alone, Conserved, KeysDiffer, KeyOf, Key
    <2> QED BY <2>1, <2>3, <2>6, <2>7, AloneStep
<1>2. CASE CheckDuplicate(c)
    <2>1. CASE Refuse(c) BY <1>2, <2>1, RefuseAlone DEF CheckDuplicate
    <2>2. CASE ~Refuse(c)
        <3>1. /\ pc[c] = "duplicate" /\ Goto(c, "plan") /\ UNCHANGED <<private, lock, shop>>
              /\ \A o \in recent : KeyOf(o) # Key(c, lines[c])
            BY <1>2, <2>2 DEF CheckDuplicate
        <3> QED BY <3>1, MoveAlone DEF private, Shopping, Created
    <2> QED BY <2>1, <2>2
<1>3. CASE PlanStock(c)
    <2>1. CASE Refuse(c) BY <1>3, <2>1, RefuseAlone DEF PlanStock
    <2>2. CASE Goto(c, "customer") /\ UNCHANGED <<private, lock, shop>>
        BY <1>3, <2>2, MoveAlone DEF PlanStock, private, Shopping, Created
    <2> QED BY <1>3, <2>1, <2>2 DEF PlanStock
<1>4. CASE ReadCoupon(c)
    <2>1. CASE Refuse(c) BY <1>4, <2>1, RefuseAlone DEF ReadCoupon
    <2>2. CASE Goto(c, "redeem") /\ UNCHANGED <<private, lock, shop>>
        BY <1>4, <2>2, MoveAlone DEF ReadCoupon, private, Shopping, Created
    <2> QED BY <1>4, <2>1, <2>2 DEF ReadCoupon
<1> QED BY <1>1, <1>2, <1>3, <1>4

LEMMA ReserveAlone ==
    ASSUME Alone, Typed, pace = "serial", UNCHANGED pace, NEW c \in Checkouts,
           UpsertCustomer(c) \/ TakeCoupon(c) \/ ClearCart(c)
    PROVE Alone'
<1> USE DEF Running, Outside, Transaction
<1>1. CASE UpsertCustomer(c)
    <2>1. CASE Refuse(c) BY <1>1, <2>1, RefuseAlone DEF UpsertCustomer
    <2>2. CASE ~Refuse(c)
        <3>1. /\ pc[c] = "customer" /\ Goto(c, "coupon")
              /\ UNCHANGED <<lines, line, seen, draft, written, shop>>
            BY <1>1, <2>2 DEF UpsertCustomer, LinkNobody, LinkTo, private
        <3> QED BY <3>1, MoveAlone DEF Shopping, Created
    <2> QED BY <2>1, <2>2
<1>2. CASE TakeCoupon(c)
    <2>1. CASE Refuse(c) BY <1>2, <2>1, RefuseAlone DEF TakeCoupon
    <2>2. CASE ~Refuse(c)
        <3>1. /\ pc[c] = "redeem" /\ Goto(c, "order")
              /\ UNCHANGED <<lines, line, seen, draft, written, shop>>
            BY <1>2, <2>2 DEF TakeCoupon, private, shop
        <3> QED BY <3>1, MoveAlone DEF Shopping, Created
    <2> QED BY <2>1, <2>2
<1>3. CASE ClearCart(c)
    <2>1. /\ pc[c] = "clear" /\ Goto(c, "commit")
          /\ UNCHANGED <<lines, line, seen, draft, written, shop>>
        BY <1>3 DEF ClearCart, private
    <2> QED BY <2>1, MoveAlone DEF Shopping, Created
<1> QED BY <1>1, <1>2, <1>3

LEMMA CreateAlone ==
    ASSUME Alone, Typed, pace = "serial", UNCHANGED pace, NEW c \in Checkouts, CreateOrder(c)
    PROVE Alone'
<1> USE DEF Running, Outside, Transaction
<1>1. CASE Refuse(c) BY <1>1, RefuseAlone DEF CreateOrder
<1>2. CASE ~Refuse(c)
    <2>1. /\ pc[c] = "order" /\ Goto(c, "read") /\ line' = [line EXCEPT ![c] = 1]
          /\ UNCHANGED <<lines, funds, seen, written, shop>>
        BY <1>2 DEF CreateOrder, Draft
    <2>2. /\ pc'[c] = "read" /\ line'[c] = 1
          /\ \A d \in Checkouts \ {c} : pc'[d] = pc[d]
        BY <2>1 DEF Goto, Typed, TypeOK
    <2>3. UNCHANGED <<cart, stock, orders, recent>> BY <2>1 DEF shop
    <2>4. AloneAt(c) BY DEF Alone
    <2>5. ASSUME NEW i \in Items
          PROVE StockSeenBy(c, i)' = stock[i] - SoldBefore(lines[c], i, 1)
        <3>1. written'[c][i] = Unwritten BY <2>1, <2>4 DEF AloneAt, Shopping, Created, NothingWritten
        <3>2. StockSeenBy(c, i)' = stock[i] BY <2>3, <3>1 DEF StockSeenBy
        <3>3. 1..(1 - 1) = {} OBVIOUS
        <3>4. SoldBefore(lines[c], i, 1) = 0 BY <3>3, TotalEmpty DEF SoldBefore
        <3>5. stock[i] \in Nat BY DEF Typed, TypeOK
        <3> QED BY <3>2, <3>4, <3>5
    <2>6. AloneAt(c)'
        <3>1. \A o : KeyOf(o)' = KeyOf(o) BY DEF KeyOf, Key
        <3>2. UserOf[c]' = UserOf[c] /\ lines'[c] = lines[c] BY <2>1
        <3>3. \A i \in Items : StockSeenBy(c, i)' = stock'[i] - SoldBefore(lines'[c], i, line'[c])
            BY <2>2, <2>3, <2>5, <3>2
        <3>4. \A i : SoldBefore(lines[c], i, line[c])' = SoldBefore(lines'[c], i, line'[c])
            BY DEF SoldBefore, Total, Amounts, Sums, SumsOver, Chooser
        <3> QED BY <2>1, <2>2, <2>3, <2>4, <3>1, <3>2, <3>3, <3>4
                DEF AloneAt, Shopping, Created, Key
    <2>7. Conserved' /\ KeysDiffer' BY <2>3 DEF Alone, Conserved, KeysDiffer, KeyOf, Key
    <2> QED BY <2>1, <2>2, <2>6, <2>7, AloneStep
<1> QED BY <1>1, <1>2

LEMMA ReadAlone ==
    ASSUME Alone, Typed, pace = "serial", UNCHANGED pace, NEW c \in Checkouts, ReadStock(c)
    PROVE Alone'
<1> USE DEF Running, Outside, Transaction
<1>1. CASE Refuse(c) BY <1>1, RefuseAlone DEF ReadStock
<1>2. CASE ~Refuse(c)
    <2>1. /\ pc[c] = "read" /\ Goto(c, "write")
          /\ seen' = [seen EXCEPT ![c] = StockSeenBy(c, Here(c).item)]
          /\ StockSeenBy(c, Here(c).item) >= Here(c).quantity
          /\ UNCHANGED <<lines, funds, line, draft, written, lock, shop>>
        BY <1>2 DEF ReadStock, HasEnoughStockForMode
    <2>2. /\ pc'[c] = "write" /\ seen'[c] = StockSeenBy(c, Here(c).item)
          /\ \A d \in Checkouts \ {c} : pc'[d] = pc[d]
        BY <2>1 DEF Goto, Typed, TypeOK
    <2>3. UNCHANGED <<cart, stock, orders, recent>> BY <2>1 DEF shop
    <2>4. AloneAt(c) BY DEF Alone
    <2>5. /\ \A i : StockSeenBy(c, i)' = StockSeenBy(c, i)
          /\ Here(c)' = Here(c) /\ \A o : KeyOf(o)' = KeyOf(o)
          /\ \A i : SoldBefore(lines[c], i, line[c])' = SoldBefore(lines[c], i, line[c])
        BY <2>1, <2>3 DEF StockSeenBy, Here, KeyOf, Key, SoldBefore, Total, Amounts, Sums,
            SumsOver, Chooser
    <2>6. AloneAt(c)'
        BY <2>1, <2>2, <2>3, <2>4, <2>5 DEF AloneAt, Shopping, Created, Key
    <2>7. Conserved' /\ KeysDiffer' BY <2>3 DEF Alone, Conserved, KeysDiffer, KeyOf, Key
    <2> QED BY <2>1, <2>2, <2>6, <2>7, AloneStep
<1> QED BY <1>1, <1>2

\* One line more is taken from the stock.
LEMMA NextLine ==
    ASSUME NEW lot \in Seq(Line), NEW n \in 1..Len(lot), NEW i
    PROVE SoldBefore(lot, i, n + 1) = Amounts(lot, i)[n] + SoldBefore(lot, i, n)
          /\ SoldBefore(lot, i, n) \in Int
<1> DEFINE S == 1..(n - 1)
           f == Amounts(lot, i)
<1>1. n \in Nat /\ IsFiniteSet(S) BY FS_Interval
<1>2. n \notin S /\ S \cup {n} = 1..(n + 1 - 1) /\ S \cup {n} \subseteq 1..Len(lot) BY <1>1
<1>3. \A x \in S \cup {n} : f[x] \in Int BY <1>2, AmountsType
<1> HIDE DEF f, S
<1>4. Total(f, S \cup {n}) = f[n] + Total(f, S) /\ Total(f, S) \in Int
    BY <1>1, <1>2, <1>3, TotalAdd, TotalType
<1>5. SoldBefore(lot, i, n + 1) = Total(f, 1..(n + 1 - 1)) BY DEF SoldBefore, f
<1>6. SoldBefore(lot, i, n) = Total(f, S) BY DEF SoldBefore, f, S
<1>7. Amounts(lot, i)[n] = f[n] BY DEF f
<1> QED BY <1>2, <1>4, <1>5, <1>6, <1>7

LEMMA WriteAlone ==
    ASSUME Alone, Typed, pace = "serial", UNCHANGED pace, NEW c \in Checkouts, WriteStock(c)
    PROVE Alone'
<1> USE DEF Running, Outside, Transaction
<1> DEFINE h == Here(c).item
           q == Here(c).quantity
           lot == lines[c]
           n == line[c]
<1>1. /\ pc[c] = "write" /\ Goto(c, IF n = Len(lot) THEN "clear" ELSE "read")
      /\ written' = [written EXCEPT ![c][h] = DeductStockForMode(seen[c], q, "piece")]
      /\ line' = [line EXCEPT ![c] = @ + 1]
      /\ UNCHANGED <<lines, funds, seen, draft, shop>>
    BY DEF WriteStock
<1>2. /\ n \in 1..Len(lot) /\ lot \in Seq(Line) /\ lot[n] \in Line
      /\ h \in Items /\ q \in Nat /\ seen[c] \in Int
    <2>1. n \in 1..Len(lot) /\ lot \in Seq(Line) /\ seen[c] \in Int
        BY <1>1 DEF Typed, TypeOK, AtLine
    <2>2. lot[n] \in Line BY <2>1
    <2>3. Here(c) \in Line BY <2>2 DEF Here
    <2> QED BY <2>1, <2>2, <2>3 DEF Line
<1>3. /\ pc'[c] = IF n = Len(lot) THEN "clear" ELSE "read"
      /\ line'[c] = n + 1
      /\ \A d \in Checkouts \ {c} : pc'[d] = pc[d] /\ written'[d] = written[d]
    BY <1>1 DEF Goto, Typed, TypeOK
<1>4. UNCHANGED <<cart, stock, orders, recent>> BY <1>1 DEF shop
<1>5. AloneAt(c) BY DEF Alone
<1>6. seen[c] = StockSeenBy(c, h) /\ seen[c] >= q BY <1>1, <1>5 DEF AloneAt
<1>7. DeductStockForMode(seen[c], q, "piece") = seen[c] - q
    BY <1>2, <1>6 DEF DeductStockForMode, Positive
<1>8. ASSUME NEW i \in Items
      PROVE StockSeenBy(c, i)' = stock[i] - SoldBefore(lot, i, n + 1)
    <2>1. StockSeenBy(c, i) = stock[i] - SoldBefore(lot, i, n)
        BY <1>1, <1>5 DEF AloneAt, Created
    <2>2. /\ SoldBefore(lot, i, n + 1) = Amounts(lot, i)[n] + SoldBefore(lot, i, n)
          /\ SoldBefore(lot, i, n) \in Int /\ stock[i] \in Int
        BY <1>2, NextLine DEF Typed, TypeOK
    <2>3. Amounts(lot, i)[n] = IF h = i THEN q ELSE 0 BY <1>2 DEF Amounts, Here
    <2>4. CASE i = h
        <3>1. written'[c][i] = seen[c] - q
            <4> HIDE DEF h, q
            <4> QED BY <1>1, <1>2, <1>7, <2>4 DEF Typed, StockWritten
        <3>2. StockSeenBy(c, i)' = seen[c] - q
            BY <1>2, <3>1, CheckoutAssumption DEF StockSeenBy
        <3> HIDE DEF q, lot, n
        <3> QED BY <1>2, <1>6, <2>1, <2>2, <2>3, <2>4, <3>2
    <2>5. CASE i # h
        <3>1. written'[c][i] = written[c][i] BY <1>1, <2>5 DEF Typed, StockWritten
        <3>2. StockSeenBy(c, i)' = StockSeenBy(c, i) BY <1>4, <3>1 DEF StockSeenBy
        <3> QED BY <2>1, <2>2, <2>3, <2>5, <3>2
    <2> QED BY <2>4, <2>5
<1>9. AloneAt(c)'
    <2>1. \A o : KeyOf(o)' = KeyOf(o) BY DEF KeyOf, Key
    <2>2. lines'[c] = lot BY <1>1
    <2>3. \A i \in Items : StockSeenBy(c, i)' = stock'[i] - SoldBefore(lines'[c], i, line'[c])
        BY <1>3, <1>4, <1>8, <2>2
    <2>4. \A i : SoldBefore(lines[c], i, line[c])' = SoldBefore(lines'[c], i, line'[c])
        BY DEF SoldBefore, Total, Amounts, Sums, SumsOver, Chooser
    <2>5. Shopping(c) /\ Shopping(c)' /\ Created(c) /\ Created(c)'
        BY <1>1, <1>3 DEF Shopping, Created
    <2> QED BY <1>1, <1>2, <1>3, <1>4, <1>5, <2>1, <2>2, <2>3, <2>4, <2>5 DEF AloneAt, Key
<1>10. Conserved' /\ KeysDiffer' BY <1>4 DEF Alone, Conserved, KeysDiffer, KeyOf, Key
<1> QED BY <1>1, <1>3, <1>9, <1>10, AloneStep

LEMMA CommitAlone ==
    ASSUME Alone, Typed, Inv, pace = "serial", UNCHANGED pace, NEW c \in Checkouts, Commit(c)
    PROVE Alone'
<1> USE DEF Running, Outside, Transaction
<1> DEFINE o == draft[c]
<1>1. /\ pc[c] = "commit" /\ Goto(c, "announce")
      /\ stock' = [i \in Items |->
                      IF written[c][i] = Unwritten THEN stock[i] ELSE written[c][i]]
      /\ orders' = orders \cup {o} /\ recent' = recent \cup {o}
      /\ UNCHANGED <<lines, funds, line, seen, draft, written>>
    BY DEF Commit, private
<1>2. /\ o \in Order /\ o.by = c /\ o.lines = lines[c] /\ o \notin orders
    BY <1>1 DEF Typed, DraftsOrdered, Created, Inv, DraftsOwn, OrdersCommitted
<1>3. pc'[c] = "announce" /\ \A d \in Checkouts \ {c} : pc'[d] = pc[d]
    BY <1>1 DEF Goto, Typed, TypeOK
<1>4. AloneAt(c) BY DEF Alone
<1>5. AloneAt(c)' BY <1>3 DEF AloneAt, Shopping, Created
<1>6. Conserved'
    <2> SUFFICES ASSUME NEW i \in Items
                 PROVE stock'[i] = OpeningStock[i] - Total(SoldOf(i), orders')
        BY DEF Conserved
    <2>1. stock'[i] = StockSeenBy(c, i) BY <1>1 DEF StockSeenBy
    <2>2. StockSeenBy(c, i) = stock[i] - SoldBefore(lines[c], i, Len(lines[c]) + 1)
        BY <1>1, <1>4 DEF AloneAt, Created
    <2>3. Sold(o, i) = SoldBefore(lines[c], i, Len(lines[c]) + 1) /\ Sold(o, i) \in Int
        BY <1>2, SoldTotal
    <2>4. stock[i] = OpeningStock[i] - Total(SoldOf(i), orders) BY DEF Alone, Conserved
    <2>5. IsFiniteSet(orders) /\ orders \cup {o} \subseteq Order
        BY <1>2 DEF Inv, Shape, Typed, TypeOK
    <2>6. \A x \in orders \cup {o} : SoldOf(i)[x] \in Int BY <2>5, SoldTotal DEF SoldOf
    <2>7. Total(SoldOf(i), orders) \in Int BY <2>5, <2>6, TotalType
    <2>8. Total(SoldOf(i), orders \cup {o}) = SoldOf(i)[o] + Total(SoldOf(i), orders)
        BY <1>2, <2>5, <2>6, TotalAdd
    <2>9. SoldOf(i)[o] = Sold(o, i) BY <1>2 DEF SoldOf
    <2>10. OpeningStock[i] \in Int BY CheckoutAssumption
    <2> HIDE DEF o
    <2> QED BY <1>1, <2>1, <2>2, <2>3, <2>4, <2>7, <2>8, <2>9, <2>10
<1>7. KeysDiffer'
    <2>1. KeyOf(o) = Key(c, lines[c]) BY <1>2 DEF KeyOf
    <2>2. \A d \in recent : KeyOf(d) # KeyOf(o)
        BY <1>1, <1>4, <2>1 DEF AloneAt, Shopping
    <2>3. \A d, e \in recent : d # e => KeyOf(d) # KeyOf(e) BY DEF Alone, KeysDiffer
    <2> SUFFICES ASSUME NEW d \in recent', NEW e \in recent', d # e
                 PROVE KeyOf(d) # KeyOf(e)
        BY DEF KeysDiffer, KeyOf, Key
    <2> HIDE DEF o
    <2> QED BY <1>1, <2>2, <2>3
<1> QED BY <1>1, <1>3, <1>5, <1>6, <1>7, AloneStep

LEMMA AroundAlone ==
    ASSUME Alone, Typed, pace = "serial", UNCHANGED pace,
           \/ \E c \in Checkouts : Announce(c)
           \/ \E u \in Users, i \in Items : AddLine(u, i)
           \/ \E o \in recent : WindowPasses(o)
    PROVE Alone'
<1> USE DEF Running, Outside, Transaction
<1>1. ASSUME NEW c \in Checkouts, Announce(c) PROVE Alone'
    <2>1. /\ pc[c] = "announce" /\ pc'[c] = "done"
          /\ \A d \in Checkouts \ {c} : pc'[d] = pc[d]
          /\ UNCHANGED <<written, stock, orders, recent>>
        BY <1>1 DEF Announce, Goto, private, Typed, TypeOK
    <2>2. AloneAt(c)' BY <2>1 DEF AloneAt, Shopping, Created
    <2>3. Conserved' /\ KeysDiffer' BY <2>1 DEF Alone, Conserved, KeysDiffer, KeyOf, Key
    <2> QED BY <2>1, <2>2, <2>3, AloneStep
<1>2. ASSUME NEW u \in Users, NEW i \in Items, AddLine(u, i) PROVE Alone'
    <2>1. /\ \A c \in Checkouts : pc[c] \notin Running
          /\ UNCHANGED <<pc, written, stock, orders, recent>>
        BY <1>2 DEF AddLine, private
    <2>2. Conserved' /\ KeysDiffer' BY <2>1 DEF Alone, Conserved, KeysDiffer, KeyOf, Key
    <2>3. OneRuns' BY <2>1 DEF OneRuns
    <2>4. ASSUME NEW c \in Checkouts PROVE AloneAt(c)'
        <3>1. ~Shopping(c)' /\ ~Created(c)' /\ pc'[c] \notin {"write", "clear", "commit"}
            BY <2>1 DEF Shopping, Created
        <3>2. pc[c] \in {"idle", "refused"} => written[c] = NothingWritten
            BY DEF Alone, AloneAt
        <3> QED BY <2>1, <3>1, <3>2 DEF AloneAt, NothingWritten
    <2> QED BY <2>2, <2>3, <2>4 DEF Alone
<1>3. ASSUME NEW o \in recent, WindowPasses(o) PROVE Alone'
    <2>1. /\ recent' \subseteq recent
          /\ UNCHANGED <<pc, lines, line, seen, written, cart, stock, orders>>
        BY <1>3 DEF WindowPasses, private
    <2>2. Conserved' /\ KeysDiffer' BY <2>1 DEF Alone, Conserved, KeysDiffer, KeyOf, Key
    <2>3. OneRuns' BY <2>1 DEF Alone, OneRuns
    <2>4. ASSUME NEW c \in Checkouts PROVE AloneAt(c)'
        <3>1. AloneAt(c) BY DEF Alone
        <3>2. /\ \A i : StockSeenBy(c, i)' = StockSeenBy(c, i)
              /\ Here(c)' = Here(c) /\ NothingWritten' = NothingWritten
              /\ \A d : KeyOf(d)' = KeyOf(d)
              /\ \A i : SoldBefore(lines[c], i, line[c])' = SoldBefore(lines[c], i, line[c])
              /\ Shopping(c)' = Shopping(c) /\ Created(c)' = Created(c)
            BY <2>1 DEF StockSeenBy, Here, NothingWritten, KeyOf, Key, SoldBefore, Total,
                Amounts, Sums, SumsOver, Chooser, Shopping, Created
        <3> QED BY <2>1, <3>1, <3>2 DEF AloneAt, Key
    <2> QED BY <2>2, <2>3, <2>4 DEF Alone
<1> QED BY <1>1, <1>2, <1>3

\* Only a running transaction holds rows, so that only one of those is ever a victim.
HoldersRun == \A r \in Rows, c \in Checkouts : lock[r] = c => pc[c] \in Transaction

LEMMA HoldersNext == Typed /\ HoldersRun /\ [Next]_vars => HoldersRun'
<1> USE DEF Transaction
<1> SUFFICES ASSUME Typed, HoldersRun, [Next]_vars PROVE HoldersRun' OBVIOUS
<1>1. CASE UNCHANGED <<pc, lock>> BY <1>1 DEF HoldersRun
<1>2. ASSUME NEW c \in Checkouts, \A d \in Checkouts \ {c} : pc'[d] = pc[d],
             \A r \in Rows : lock'[r] \in {lock[r], c, Free},
             \/ pc'[c] \in Transaction
             \/ \A r \in Rows : lock'[r] # c
      PROVE HoldersRun'
    <2> SUFFICES ASSUME NEW r \in Rows, NEW d \in Checkouts, lock'[r] = d
                 PROVE pc'[d] \in Transaction
        BY DEF HoldersRun
    <2>2. CASE d = c BY <1>2, <2>2
    <2>3. CASE d # c
        <3>1. lock[r] = d BY <1>2, <2>3, CheckoutAssumption
        <3>2. pc[d] \in Transaction BY <3>1 DEF HoldersRun
        <3> QED BY <1>2, <2>3, <3>2
    <2> QED BY <2>2, <2>3
<1>3. ASSUME NEW c \in Checkouts, Refuse(c) PROVE HoldersRun'
    <2>1. \A d \in Checkouts \ {c} : pc'[d] = pc[d] BY <1>3 DEF Refuse, Goto, Typed, TypeOK
    <2>2. \A r \in Rows : lock'[r] \in {lock[r], c, Free} /\ lock'[r] # c
        BY <1>3, CheckoutAssumption DEF Refuse, Released
    <2> QED BY <1>2, <2>1, <2>2
<1>4. ASSUME NEW c \in Checkouts, NEW stage \in Transaction, Goto(c, stage),
             lock' = lock \/ \E row : Take(c, row)
      PROVE HoldersRun'
    <2>1. pc'[c] = stage /\ \A d \in Checkouts \ {c} : pc'[d] = pc[d]
        BY <1>4 DEF Goto, Typed, TypeOK
    <2>2. \A r \in Rows : lock'[r] \in {lock[r], c, Free} BY <1>4 DEF Take, Typed, TypeOK
    <2> QED BY <1>2, <2>1, <2>2
<1>5. ASSUME NEW c \in Checkouts, NEW stage \in Stage, Goto(c, stage), lock' = lock,
             pc[c] \notin Transaction
      PROVE HoldersRun'
    <2>1. \A d \in Checkouts \ {c} : pc'[d] = pc[d] BY <1>5 DEF Goto, Typed, TypeOK
    <2>2. \A r \in Rows : lock'[r] # c BY <1>5 DEF HoldersRun
    <2> QED BY <1>2, <1>5, <2>1, <2>2
<1>6. ASSUME NEW c \in Checkouts, ReadCart(c) \/ Statement(c) \/ Fails(c) \/ DeadlockVictim(c)
      PROVE HoldersRun'
    <2> USE DEF Stage, Running, Outside, Ended
    <2>1. CASE Refuse(c) BY <1>3, <2>1
    <2>2. CASE Fails(c) \/ DeadlockVictim(c) BY <1>3, <2>2 DEF Fails, DeadlockVictim
    <2>3. CASE ~Refuse(c) /\ (ReadCart(c) \/ CheckDuplicate(c) \/ Announce(c))
        <3>1. PICK stage \in {"refused", "duplicate", "plan", "done"} :
                  Goto(c, stage) /\ lock' = lock /\ pc[c] \notin Transaction
            BY <2>3 DEF ReadCart, CheckDuplicate, Announce
        <3> QED BY <1>5, <3>1
    <2>4. CASE Commit(c)
        <3>1. lock' = Released(c) /\ \A d \in Checkouts \ {c} : pc'[d] = pc[d]
            BY <2>4 DEF Commit, Goto, Typed, TypeOK
        <3>2. \A r \in Rows : lock'[r] \in {lock[r], c, Free} /\ lock'[r] # c
            BY <3>1, CheckoutAssumption DEF Released
        <3> QED BY <1>2, <3>1, <3>2
    <2>5. CASE /\ ~Refuse(c)
               /\ \/ PlanStock(c) \/ UpsertCustomer(c) \/ ReadCoupon(c) \/ TakeCoupon(c)
                  \/ CreateOrder(c) \/ ReadStock(c) \/ WriteStock(c) \/ ClearCart(c)
        <3>1. PICK stage \in Transaction : Goto(c, stage)
            BY <2>5 DEF PlanStock, UpsertCustomer, LinkNobody, LinkTo, ReadCoupon, TakeCoupon,
                CreateOrder, Draft, ReadStock, WriteStock, ClearCart
        <3>2. lock' = lock \/ \E row : Take(c, row)
            BY <2>5 DEF PlanStock, UpsertCustomer, LinkNobody, LinkTo, ReadCoupon, TakeCoupon,
                CreateOrder, Draft, ReadStock, WriteStock, ClearCart
        <3> QED BY <1>4, <3>1, <3>2
    <2> QED BY <1>6, <2>1, <2>2, <2>3, <2>4, <2>5 DEF Statement
<1>7. CASE \E u \in Users, i \in Items : AddLine(u, i) BY <1>1, <1>7 DEF AddLine
<1>8. CASE \E o \in recent : WindowPasses(o) BY <1>1, <1>8 DEF WindowPasses
<1>9. CASE UNCHANGED vars BY <1>1, <1>9 DEF vars, work
<1> QED BY <1>6, <1>7, <1>8, <1>9 DEF Next

LEMMA VictimsRun ==
    ASSUME Typed, HoldersRun, NEW c \in Checkouts, DeadlockVictim(c)
    PROVE pc[c] \in Running
<1> USE DEF Transaction, Running
<1>1. PICK group \in SUBSET Checkouts : c \in group /\ Deadlocked(group)
    BY DEF DeadlockVictim
<1>2. PICK d \in group : c \in WaitsFor(d) BY <1>1 DEF Deadlocked
<1>3. PICK r \in Needs(d) : lock[r] = c BY <1>2 DEF WaitsFor
<1>4. r \in Rows
    <2>1. CASE pc[d] = "customer" /\ PhoneOf[d] # NoPhone /\ d \in Named
        BY <1>3, <2>1, RowsDiffer, CheckoutAssumption DEF Needs
    <2>2. CASE pc[d] = "redeem" /\ CouponOf[d] # NoCoupon
        BY <1>3, <2>2, RowsDiffer, CheckoutAssumption DEF Needs
    <2>3. CASE pc[d] = "order" /\ Spends(d)
        <3>1. lines[d] \in Seq(Line) /\ funds[d] \in Nat BY DEF Typed, TypeOK
        <3>2. PhoneOf[d] \in Phones BY <2>3, <3>1, BillFacts DEF HasPhone
        <3>3. r = CustomerRow(PhoneOf[d]) BY <1>3, <2>3 DEF Needs
        <3> QED BY <3>2, <3>3, RowsDiffer
    <2>4. CASE pc[d] = "write"
        <3>1. line[d] \in 1..Len(lines[d]) /\ lines[d] \in Seq(Line)
            BY <2>4 DEF Typed, TypeOK, AtLine
        <3>2. Here(d) \in Line BY <3>1 DEF Here
        <3>3. r = ItemRow(Here(d).item) BY <1>3, <2>4 DEF Needs
        <3> QED BY <3>2, <3>3, RowsDiffer DEF Line
    <2>5. CASE pc[d] = "clear"
        <3>1. r = CartRow(UserOf[d]) BY <1>3, <2>5 DEF Needs
        <3> QED BY <3>1, RowsDiffer, CheckoutAssumption
    <2> QED BY <1>3, <2>1, <2>2, <2>3, <2>4, <2>5 DEF Needs
<1> QED BY <1>3, <1>4 DEF HoldersRun

LEMMA NextAlone == Inv /\ Typed /\ HoldersRun /\ Alone /\ [Next]_vars => Alone'
<1> SUFFICES ASSUME Inv, Typed, HoldersRun, Alone, [Next]_vars PROVE Alone' OBVIOUS
<1>1. CASE UNCHANGED vars
    <2>1. UNCHANGED <<pc, lines, line, seen, written, cart, stock, orders, recent, pace>>
        BY <1>1 DEF vars, work, private, shop
    <2>2. Conserved' <=> Conserved BY <2>1 DEF Conserved
    <2>3. KeysDiffer' <=> KeysDiffer BY <2>1 DEF KeysDiffer, KeyOf, Key
    <2>4. OneRuns' <=> OneRuns BY <2>1 DEF OneRuns
    <2>5. ASSUME NEW c \in Checkouts, AloneAt(c) PROVE AloneAt(c)'
        <3>1. /\ \A i : StockSeenBy(c, i)' = StockSeenBy(c, i)
              /\ Here(c)' = Here(c) /\ NothingWritten' = NothingWritten
              /\ \A d : KeyOf(d)' = KeyOf(d)
              /\ \A i : SoldBefore(lines[c], i, line[c])' = SoldBefore(lines[c], i, line[c])
              /\ Shopping(c)' = Shopping(c) /\ Created(c)' = Created(c)
            BY <2>1 DEF StockSeenBy, Here, NothingWritten, KeyOf, Key, SoldBefore, Total,
                Amounts, Sums, SumsOver, Chooser, Shopping, Created
        <3> QED BY <2>1, <2>5, <3>1 DEF AloneAt, Key
    <2> QED BY <2>1, <2>2, <2>3, <2>4, <2>5 DEF Alone
<1>2. CASE Next /\ pace # "serial" BY <1>2 DEF Next, Alone
<1>3. CASE Next /\ pace = "serial"
    <2> USE <1>3
    <2>1. UNCHANGED pace BY DEF Next
    <2>2. ASSUME NEW c \in Checkouts, ReadCart(c) \/ Statement(c) \/ Fails(c) \/ DeadlockVictim(c)
          PROVE Alone' \/ \E d \in Checkouts : Announce(d)
        <3>1. CASE Fails(c) BY <2>1, <3>1, RefuseAlone DEF Fails
        <3>2. CASE DeadlockVictim(c)
            BY <2>1, <3>2, VictimsRun, RefuseAlone DEF DeadlockVictim
        <3>4. CASE ReadCart(c) \/ Statement(c)
            BY <2>1, <2>2, <3>4, OutsideAlone, ReserveAlone, CreateAlone, ReadAlone, WriteAlone,
                CommitAlone DEF Statement
        <3> QED BY <2>2, <3>1, <3>2, <3>4
    <2> QED BY <2>1, <2>2, AroundAlone DEF Next
<1> QED BY <1>1, <1>2, <1>3

LEMMA SerialInvariant == Spec => [](Inv /\ Typed /\ Alone)
<1>1. Init => HoldersRun BY CheckoutAssumption DEF Init, HoldersRun
<1>2. Typed /\ HoldersRun /\ [Next]_vars => HoldersRun' BY HoldersNext
<1> QED BY <1>1, <1>2, InitAlone, NextAlone, Accounts, PTL DEF Spec

LEMMA AloneIsSound == Inv /\ Typed /\ Alone => SerialStockConserved /\ NoDuplicateOrders
<1> SUFFICES ASSUME Inv, Typed, Alone, pace = "serial"
             PROVE StockConserved /\ \A o, d \in recent : o # d => KeyOf(o) # KeyOf(d)
    BY DEF SerialStockConserved, NoDuplicateOrders
<1>1. IsFiniteSet(orders) /\ orders \subseteq Order BY DEF Inv, Shape, Typed, TypeOK
<1>2. ASSUME NEW i \in Items
      PROVE stock[i] = OpeningStock[i] - MapThenSumSet(LAMBDA o : Sold(o, i), orders)
    <2>1. MapThenSumSet(LAMBDA o : Sold(o, i), orders) = Total(SoldOf(i), orders)
        BY <1>1, StockTotal
    <2> QED BY <2>1 DEF Alone, Conserved
<1>3. StockConserved BY <1>2 DEF StockConserved
<1> QED BY <1>3 DEF Alone, KeysDiffer

\* A step that shortens a cart is the commit of the order for just that cart.
CartStep ==
    \A u \in Users :
        pace = "serial" /\ Len(cart'[u]) < Len(cart[u]) =>
            \E o \in orders' \ orders : UserOf[o.by] = u /\ o.lines = cart[u]

LEMMA CartStepHolds == Inv /\ Typed /\ Alone /\ [Next]_vars => CartStep
<1> SUFFICES ASSUME Inv, Typed, Alone, [Next]_vars, NEW u \in Users, pace = "serial",
                    Len(cart'[u]) < Len(cart[u])
             PROVE \E o \in orders' \ orders : UserOf[o.by] = u /\ o.lines = cart[u]
    BY DEF CartStep
<1>1. cart[u] \in Seq(Line) /\ Len(cart[u]) \in Nat BY DEF Typed, TypeOK
<1>2. cart' # cart BY <1>1
<1>3. ASSUME NEW c \in Checkouts, Commit(c)
      PROVE \E o \in orders' \ orders : UserOf[o.by] = u /\ o.lines = cart[u]
    <2>1. /\ pc[c] = "commit" /\ cart' = [cart EXCEPT ![UserOf[c]] = <<>>]
          /\ orders' = orders \cup {draft[c]}
        BY <1>3 DEF Commit
    <2>2. u = UserOf[c]
        <3> SUFFICES ASSUME u # UserOf[c] PROVE FALSE OBVIOUS
        <3>1. cart'[u] = cart[u] BY <2>1 DEF Typed, TypeOK
        <3> QED BY <1>1, <3>1
    <2>3. /\ draft[c].by = c /\ draft[c].lines = lines[c] /\ draft[c] \notin orders
        BY <2>1 DEF Typed, DraftsOrdered, Created, Inv, DraftsOwn, OrdersCommitted
    <2>4. cart[UserOf[c]] = lines[c]
        BY <2>1 DEF Alone, AloneAt, Shopping, Running, Transaction
    <2> QED BY <2>1, <2>2, <2>3, <2>4
<1>4. ASSUME NEW c \in Checkouts, ReadCart(c) \/ Statement(c) \/ Fails(c) \/ DeadlockVictim(c)
      PROVE Commit(c)
    <2>1. CASE Refuse(c) BY <1>2, <2>1 DEF Refuse, shop
    <2>2. CASE ~Refuse(c)
        BY <1>2, <1>4, <2>2 DEF Statement, ReadCart, CheckDuplicate, PlanStock, UpsertCustomer,
            LinkNobody, LinkTo, ReadCoupon, TakeCoupon, CreateOrder, Draft, ReadStock,
            WriteStock, ClearCart, Announce, Fails, DeadlockVictim, shop
    <2> QED BY <2>1, <2>2
<1>5. ASSUME NEW v \in Users, NEW i \in Items, AddLine(v, i) PROVE FALSE
    <2> DEFINE new == [item |-> i, quantity |-> 1]
    <2>1. new \in Line BY DEF Line
    <2>2. cart' = [cart EXCEPT ![v] = Append(cart[v], new)] BY <1>5 DEF AddLine
    <2> HIDE DEF new
    <2>3. cart[v] \in Seq(Line) BY DEF Typed, TypeOK
    <2>4. Len(Append(cart[v], new)) = Len(cart[v]) + 1 BY <2>1, <2>3
    <2>5. cart'[u] = IF u = v THEN Append(cart[v], new) ELSE cart[u]
        BY <2>2 DEF Typed, TypeOK
    <2> QED BY <1>1, <2>4, <2>5
<1>6. ASSUME NEW o \in recent, WindowPasses(o) PROVE FALSE BY <1>2, <1>6 DEF WindowPasses
<1>7. CASE UNCHANGED vars BY <1>2, <1>7 DEF vars, work, shop
<1> QED BY <1>3, <1>4, <1>5, <1>6, <1>7 DEF Next

\* Checkouts that come one after the other, with whatever lines, refusals, crashes
\* and retries, account for every unit of stock, place no order twice within the
\* window, and take from a cart exactly what they order (createFromCart).
THEOREM SerialCheckoutsSound == Spec => SerialOrdersSound
<1>1. Inv /\ Typed /\ Alone => SerialStockConserved /\ NoDuplicateOrders BY AloneIsSound
<1>2. Inv /\ Typed /\ Alone /\ [Next]_vars => CartStep BY CartStepHolds
<1>3. Spec => [](SerialStockConserved /\ NoDuplicateOrders) BY <1>1, SerialInvariant, PTL
<1>4. Spec => [][CartStep]_vars BY <1>2, SerialInvariant, PTL DEF Spec
<1> QED BY <1>3, <1>4 DEF SerialOrdersSound, CartOrdered, CartStep
=============================================================================
