-------------------------- MODULE MCCheckoutScreen --------------------------
(* Products and visits for the runs of CheckoutScreen. *)
EXTENDS CheckoutScreen

CONSTANTS apple, tea, cheese

MCPriceOf == [i \in Items |-> CASE i = apple -> 40 [] i = tea -> 7 [] OTHER -> 15]
MCModeOf ==
    [i \in Items |-> CASE i = apple -> "kilogram_step" [] i = tea -> "piece"
                       [] OTHER -> "gram_step"]
MCCashbackOf ==
    [i \in Items |-> CASE i = apple -> [type |-> "PERCENT", value |-> 15]
                       [] i = tea -> [type |-> "FIXED_AMOUNT", value |-> 10]
                       [] OTHER -> [type |-> "FIXED_AMOUNT", value |-> 6]]

\* A calm visit is about every product, a hasty one about cheese by the gram.
MCMaxSteps ==
    [p \in Paces |-> [i \in Items |->
        IF p = "calm" THEN (IF i = cheese THEN 1 ELSE 2) ELSE IF i = cheese THEN 6 ELSE 0]]

Half == [discountType |-> "PERCENT", discountValue |-> 50, minOrderAmount |-> 0,
         maxDiscount |-> 0]
TenthOfMuch == [discountType |-> "PERCENT", discountValue |-> 10, minOrderAmount |-> 50,
                maxDiscount |-> 8]
Fixed == [discountType |-> "FIXED_AMOUNT", discountValue |-> 30, minOrderAmount |-> 0,
          maxDiscount |-> 0]
FreeFrom60 == [deliveryPrice |-> 20, freeDeliveryEnabled |-> TRUE,
               freeDeliveryThreshold |-> 60]
MCEnvDefaults == [FreeFrom60 EXCEPT !.deliveryPrice = 15]
AlwaysPaid == [FreeFrom60 EXCEPT !.freeDeliveryEnabled = FALSE]

MCOffers ==
    [coupon : {Half, TenthOfMuch, Fixed}, settings : {FreeFrom60, AlwaysPaid},
     balance : {25}, requested : {0, 30}]
=============================================================================
