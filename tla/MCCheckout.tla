----------------------------- MODULE MCCheckout -----------------------------
(* Requests, carts and coupons for the runs of Checkout. *)
EXTENDS Checkout

CONSTANTS u1, u2, a, b, p1, p2, k1, c1, c2, c3

L(i, n) == [item |-> i, quantity |-> n]

MCUserOf == [c \in Checkouts |-> IF c = c2 THEN u2 ELSE u1]
\* c1 and c2: two accounts of one customer; c3 is c1 sent again.
MCPhoneShared == [c \in Checkouts |-> p1]
\* c2 is another customer's.
MCPhoneOwn == [c \in Checkouts |-> IF c = c2 THEN p2 ELSE p1]
MCPhoneNone == [c \in Checkouts |-> NoPhone]
MCCouponOf == [c \in Checkouts |-> k1]
MCCouponNone == [c \in Checkouts |-> NoCoupon]
MCRedeemOf == [c \in Checkouts |-> IF c = c2 THEN 0 ELSE 3]
\* Only c1 carries a name.
MCNamed == Checkouts \cap {c1}
MCRedeemNone == [c \in Checkouts |-> 0]
MCMaxAdds == [p \in Paces |-> IF p = "serial" THEN 2 ELSE 0]

MCCartOne == [u \in Users |-> <<L(a, 1)>>]
\* Two carts with the same products in opposite order.
MCCartCrossed == [u \in Users |-> IF u = u1 THEN <<L(a, 1), L(b, 1)>> ELSE <<L(b, 1), L(a, 1)>>]

MCStock == [i \in Items |-> 4]
MCBalance == [p \in Phones |-> 4]
MCPriceOf == [i \in Items |-> 5]
MCDiscountOf == [k \in Coupons |-> 1]
MCOnce == [k \in Coupons |-> 1]
MCTwice == [k \in Coupons |-> 2]
MCThrice == [k \in Coupons |-> 3]
=============================================================================
