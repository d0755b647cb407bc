------------------------------ MODULE OrderBook -----------------------------
(***************************************************************************)
(* What checkout promises about accounts: an order appears in one step     *)
(* together with the cashback and the coupon it uses, and only within the  *)
(* limits of both.  Everything else a checkout does is invisible.          *)
(***************************************************************************)
EXTENDS Integers, FiniteSets

CONSTANTS Phones, Coupons, PhoneOf, CouponOf, Named, UsageLimit, PerUserLimit,
          OpeningBalance

VARIABLES orders, balance, used
book == <<orders, balance, used>>

Init ==
    /\ orders = {}
    /\ balance = OpeningBalance
    /\ used = [k \in Coupons |-> 0]

OfCustomer(k, p) ==
    {d \in orders : CouponOf[d.by] = k /\ PhoneOf[d.by] = p /\ d.by \in Named}

WithinLimits(o) ==
    LET k == CouponOf[o.by] IN
    k \in Coupons =>
        /\ used[k] < UsageLimit[k]
        /\ PhoneOf[o.by] \in Phones /\ o.by \in Named =>
              Cardinality(OfCustomer(k, PhoneOf[o.by])) < PerUserLimit[k]

Place(o) ==
    /\ \A d \in orders : d.by # o.by
    /\ WithinLimits(o)
    /\ PhoneOf[o.by] \notin Phones => o.redeem = 0
    /\ orders' = orders \cup {o}
    /\ used' = [k \in Coupons |-> IF k = CouponOf[o.by] THEN used[k] + 1 ELSE used[k]]
    /\ balance' = [p \in Phones |-> IF p = PhoneOf[o.by] THEN balance[p] - o.redeem
                                                         ELSE balance[p]]
    /\ \A p \in Phones : balance'[p] >= 0

Next == \E o \in orders' \ orders : Place(o)

Spec == Init /\ [][Next]_book
=============================================================================
