----------------------------- MODULE MCStaffDesk -----------------------------
(* Instance of StaffDesk for TLC: two orders, two replay loops. *)
EXTENDS StaffDesk, TLC

CONSTANTS o1, o2

MCOrders == {o1, o2}
MCLoops == {1, 2}
MCMaxDrops == [m \in Manners |-> [r \in Roles |->
                   IF m = "apart" /\ r = "courier" THEN 1 ELSE 2]]
MCOpening == [m \in Manners |-> IF m = "steady" THEN {o1, o2} ELSE {o1}]
MCMaxTaps == [m \in Manners |-> 2]
=============================================================================
