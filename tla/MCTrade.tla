------------------------------- MODULE MCTrade -------------------------------
(* Safety of the staff's side of the trade: orders whose requests collide, the prices of a *)
(* product, and the listings of a store. The parts share no state; a behaviour is one of   *)
(* one part.                                                                               *)
EXTENDS MCOrderLifecycle, PriceTags, StoreShelf

MCTagSaves == [m \in TagManners |-> 2]
MCShelfActs == [m \in ShelfManners |-> IF m = "calm" THEN 5 ELSE 2]

VARIABLE part
parts == <<vars, tagVars, shelfVars, part>>

(* The other parts begin in one of their initial states, and stay there. *)
Rests(p, choice, choices) == part # p => choice = CHOOSE x \in choices : TRUE

TradeInit ==
    /\ part \in {"orders", "prices", "shelf"}
    /\ Init
    /\ TagInit
    /\ Rests("prices", <<tagManner, good.price, good.rows>>,
            TagManners \X Prices \X {<<v>> : v \in Kinds})
    /\ ShelfInit
    /\ Rests("shelf", <<shelfManner, shelf, desks[TheOne].panel>>,
            ShelfManners \X {<<>>, FullShelf} \X Panels)

TradeNext ==
    \/ part = "orders" /\ Next /\ UNCHANGED <<tagVars, shelfVars, part>>
    \/ part = "prices" /\ TagNext /\ UNCHANGED <<vars, shelfVars, part>>
    \/ part = "shelf" /\ ShelfNext /\ UNCHANGED <<vars, tagVars, part>>

TradeSpec == TradeInit /\ [][TradeNext]_parts
=============================================================================
