----------------------------- MODULE MCProgress -----------------------------
(* What must happen in the end, of three parts that share no state: the cart of a visit, *)
(* the tracking of a guest's orders, and the circuit breaker of the uploads. A behaviour *)
(* is one of one part.                                                                   *)
EXTENDS CartStore, GuestTracking, UploadCircuit, TLC

CONSTANTS v1, v2, A, B

MCStoreOf == (v1 :> A) @@ (v2 :> B)
MCModeOf == [v \in Variants |-> "piece"]
MCOpening == (v1 :> 1) @@ (v2 :> 0)
MCMaxTaps == (TRUE :> 3) @@ (FALSE :> 2)
MCMaxOne == [b \in BOOLEAN |-> 1]

VARIABLE part
parts == <<vars, trackVars, circuitVars, part>>

ProgressInit ==
    /\ part \in {"cart", "tracking", "uploads"}
    /\ Init /\ (part # "cart" => calm)
    /\ TrackInit /\ CircuitInit

ProgressNext ==
    \/ part = "cart" /\ Next /\ UNCHANGED <<trackVars, circuitVars, part>>
    \/ part = "tracking" /\ TrackNext /\ UNCHANGED <<vars, circuitVars, part>>
    \/ part = "uploads" /\ CircuitNext /\ UNCHANGED <<vars, trackVars, part>>

ProgressSpec ==
    /\ ProgressInit /\ [][ProgressNext]_parts
    /\ Fairness /\ TrackFairness /\ CircuitFairness
=============================================================================
