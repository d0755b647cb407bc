-------------------------- MODULE MCOrderLifecycle --------------------------
(* Values of the columns that checkout fixed, for the runs of OrderLifecycle. *)
EXTENDS OrderLifecycle, TLC

CONSTANTS o1, o2, c1, k1, p1, p2, d1, d2, a1

MCStaff == {<<"PICKER", p1>>, <<"PICKER", p2>>, <<"COURIER", d1>>,
            <<"COURIER", d2>>, <<"ADMIN", a1>>}
MCStaffSmall == {<<"PICKER", p1>>, <<"COURIER", d1>>, <<"ADMIN", a1>>}

MCScope == {p1, p2, d1, d2} \X Orders

MCOpening == [c \in Customers |-> 1]
MCCustomerOf == [o \in Orders |-> c1]
MCCouponOf == [o \in Orders |-> k1]
MCTotalOf == [o \in Orders |-> IF o = o1 THEN 7 ELSE 4]
MCRedeemOf == [o \in Orders |-> 2]
MCEarnedOf == [o \in Orders |-> IF o = o1 THEN 3 ELSE 0]

HandlerSymmetry == Permutations(Handlers)
=============================================================================
