-------------------------- MODULE OrderSettlement --------------------------
(***************************************************************************)
(* What the end of an order means to its customer, with no statuses,       *)
(* staff or requests: an open order is either delivered, which credits the *)
(* cashback it earned and counts it, or cancelled, which returns the       *)
(* cashback that paid for it.  Either happens once.                        *)
(***************************************************************************)
EXTENDS Integers

CONSTANTS Orders, Customers, NoCustomer, Opening,
          CustomerOf, TotalOf, RedeemOf, EarnedOf

VARIABLES outcome, account

Init ==
    /\ outcome = [o \in Orders |-> "open"]
    /\ account = [c \in Customers |->
                    [balance |-> Opening[c], totalSpent |-> 0, totalOrders |-> 0]]

End(o, how) ==
    /\ outcome[o] = "open"
    /\ outcome' = [outcome EXCEPT ![o] = how]

\* Account c after "cashback" is paid into it and "orders" orders of "spent".
Paid(c, cashback, spent, orders) ==
    IF c = NoCustomer THEN account
    ELSE [account EXCEPT ![c] = [balance |-> @.balance + cashback,
                                 totalSpent |-> @.totalSpent + spent,
                                 totalOrders |-> @.totalOrders + orders]]

Deliver(o) ==
    /\ End(o, "delivered")
    /\ account' = Paid(CustomerOf[o], EarnedOf[o], TotalOf[o], 1)

Cancel(o) ==
    /\ End(o, "cancelled")
    /\ account' = Paid(CustomerOf[o], RedeemOf[o], 0, 0)

Next == \E o \in Orders : Deliver(o) \/ Cancel(o)

Spec == Init /\ [][Next]_<<outcome, account>>

=============================================================================
