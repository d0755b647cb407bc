--------------------------- MODULE CheckoutScreen ---------------------------
(***************************************************************************)
(* The checkout page and the total that createFromCart will charge for it. *)
(* The page fetches the cart, the delivery settings and the customer's     *)
(* balance separately, and has a coupon validated for the subtotal and fee *)
(* it knows; the server computes everything again from the cart it keeps.  *)
(***************************************************************************)
EXTENDS OrderPricing, Sequences, FiniteSetsExt, SequencesExt

CONSTANTS
    Items,      \* products the customer may put into the cart
    PriceOf,    \* catalog price: per kilogram for weight products
    ModeOf,     \* selling mode of each product
    CashbackOf, \* its cashback: [type, value]
    Offers,     \* coupon, settings, balance and requested cashback of a visit
    EnvDefaults,\* the settings the page falls back to
    Paces,      \* "calm": nothing else reaches the page while a coupon is validated
    MaxSteps,   \* bound on an item's quantity, in steps of its mode, at each pace
    MaxAsked,   \* bound on the validations on their way
    MaxStock,   \* bound on the stock that StockSold tries
    NoCart,     \* the cart has not arrived
    NoConfig    \* the delivery settings have not arrived

Offer == [coupon : Coupon, settings : Settings, balance : Int, requested : Int]
Carts == [Items -> Nat]
EmptyCart == [i \in Items |-> 0]

ASSUME PricesAssumption ==
    /\ IsFiniteSet(Items)
    /\ PriceOf \in [Items -> Nat]
    /\ ModeOf \in [Items -> Mode]
    /\ CashbackOf \in [Items -> [type : CashbackType, value : Int]]
    /\ Offers \subseteq Offer /\ EnvDefaults \in Settings
    /\ Paces \subseteq {"calm", "hasty"} /\ MaxSteps \in [Paces -> [Items -> Nat]]
    /\ {MaxAsked, MaxStock} \subseteq Nat
    /\ NoCart \notin Carts /\ NoConfig \notin Settings

VARIABLES
    pace,       \* how the visit goes
    cart,       \* quantity of each item on the server
    offer,      \* the visit's coupon, settings, balance and typed cashback
    lines,      \* cartItems: the cart the page has
    config,     \* deliveryConfig: the settings the page has
    balance,    \* cashbackBalance: the balance the page has
    typed,      \* couponInput is not empty
    applied,    \* couponAppliedCode is set
    discount,   \* couponDiscount
    loading,    \* couponLoading
    asked       \* validations on their way: the subtotal and fee they carry
couponState == <<typed, applied, discount, loading, asked>>
vars == <<pace, cart, offer, lines, config, balance, couponState>>

Quote == [subtotal : Nat, fee : Nat]

\* The page and the server hold amounts that are never negative.
TypeOK ==
    /\ pace \in Paces
    /\ cart \in Carts
    /\ lines \in Carts \cup {NoCart}
    /\ offer \in Offers
    /\ {typed, applied, loading} \subseteq BOOLEAN
    /\ config \in {NoConfig, EnvDefaults, offer.settings}
    /\ balance \in {0, offer.balance}
    /\ discount \in Nat
    /\ \A n \in DOMAIN asked : asked[n] \in Quote

-----------------------------------------------------------------------------
(* The total on the page *)

LineTotal(lot, i) == CalculateSellingModeLineTotal(PriceOf[i], lot[i], ModeOf[i])
CartSubtotal(lot) == MapThenSumSet(LAMBDA i : LineTotal(lot, i), Items)

ShownSubtotal == IF lines = NoCart THEN 0 ELSE CartSubtotal(lines)
ShownFee ==
    IF config = NoConfig THEN 0 ELSE CalculateDeliveryFee(ShownSubtotal, config)
Shown ==
    CalculateOrderTotals(ShownSubtotal, ShownFee, discount, balance, offer.requested)

-----------------------------------------------------------------------------
(* The total that is charged: the server takes price * quantity of a line. *)

ChargedSubtotal == MapThenSumSet(LAMBDA i : PriceOf[i] * cart[i], Items)
ChargedFee == CalculateDeliveryFee(ChargedSubtotal, offer.settings)
ChargedDiscount ==
    IF applied
    THEN CalculateCouponDiscount(offer.coupon, ChargedSubtotal, ChargedSubtotal + ChargedFee)
    ELSE 0

\* The page sends the cashback it showed; the server caps it again.
Charged ==
    CalculateOrderTotals(ChargedSubtotal, ChargedFee, ChargedDiscount,
                         offer.balance, Shown.cashbackRedeem)

-----------------------------------------------------------------------------
Init ==
    /\ pace \in Paces
    /\ cart = EmptyCart
    /\ offer \in Offers
    /\ lines = NoCart
    /\ config = NoConfig
    /\ balance = 0
    /\ typed = FALSE
    /\ applied = FALSE
    /\ discount = 0
    /\ loading = FALSE
    /\ asked = <<>>

\* adjustCart with "add" or "increase": before the page opens or in another tab.
Add(i) ==
    /\ cart[i] < MaxSteps[pace][i] * Step(ModeOf[i])
    /\ cart' = [cart EXCEPT ![i] = @ + Step(ModeOf[i])]
    /\ UNCHANGED <<offer, lines, config, balance, couponState>>

\* adjustCart with "decrease".
Decrease(i) ==
    /\ cart[i] > 0
    /\ cart' = [cart EXCEPT ![i] = @ + DecreaseDelta(@, ModeOf[i])]
    /\ UNCHANGED <<offer, lines, config, balance, couponState>>

Arrives == (pace = "calm" => asked = <<>>) /\ Len(asked) < MaxAsked

\* applyCoupon sends the totals of the render it was called in.
Ask(subtotal, fee) ==
    /\ asked' = Append(asked, [subtotal |-> subtotal, fee |-> fee])
    /\ loading' = TRUE

\* Mutant: the totals change and the applied coupon is left as it was.
RevalidateNot == UNCHANGED couponState

\* The effect that calls applyCoupon again when subtotal or fee changes; with
\* an empty input that removes the coupon.
Revalidate ==
    IF ~applied \/ <<ShownSubtotal', ShownFee'>> = <<ShownSubtotal, ShownFee>>
    THEN UNCHANGED couponState
    ELSE IF typed
    THEN Ask(ShownSubtotal', ShownFee') /\ UNCHANGED <<typed, applied, discount>>
    ELSE /\ applied' = FALSE /\ discount' = 0
         /\ UNCHANGED <<typed, loading, asked>>

\* The page fetches the cart when it opens and when the access token changes;
\* when that fails it shows no items.
CartArrives ==
    /\ Arrives
    /\ lines' \in {cart, EmptyCart}
    /\ UNCHANGED <<cart, offer, config, balance>>
    /\ Revalidate

ConfigArrives ==
    /\ Arrives /\ config = NoConfig
    /\ config' \in {offer.settings, EnvDefaults}
    /\ UNCHANGED <<cart, offer, lines, balance>>
    /\ Revalidate

BalanceArrives ==
    /\ Arrives
    /\ balance' \in {offer.balance, 0}
    /\ UNCHANGED <<cart, offer, lines, config, couponState>>

\* The form is there once the page has a cart with items.
FormOpen == lines # NoCart /\ \E i \in Items : lines[i] > 0

\* The customer types the code or deletes it; what is applied stays applied.
TypeCoupon ==
    /\ FormOpen
    /\ typed' = ~typed
    /\ UNCHANGED <<cart, offer, lines, config, balance, applied, discount, loading, asked>>

\* The button is disabled while couponLoading and without an input.
ApplyCoupon ==
    /\ FormOpen /\ typed /\ ~loading /\ Len(asked) < MaxAsked
    /\ Ask(ShownSubtotal, ShownFee)
    /\ UNCHANGED <<cart, offer, lines, config, balance, typed, applied, discount>>

\* An answer to any of the validations; a refusal and a lost one clear the code.
AnswerArrives(n) ==
    LET q == asked[n]
        granted == CalculateCouponDiscount(offer.coupon, q.subtotal, q.subtotal + q.fee)
    IN  /\ discount' \in {0, granted}
        /\ applied' = (discount' > 0)
        /\ loading' = FALSE
        /\ asked' = RemoveAt(asked, n)
        /\ UNCHANGED <<cart, offer, lines, config, balance, typed>>

Next ==
    /\ UNCHANGED pace
    /\ \/ \E i \in Items : Add(i) \/ Decrease(i)
       \/ CartArrives \/ ConfigArrives \/ BalanceArrives
       \/ TypeCoupon \/ ApplyCoupon
       \/ \E n \in DOMAIN asked : AnswerArrives(n)

Spec == Init /\ [][Next]_vars

-----------------------------------------------------------------------------
(* Properties *)

\* The page has the cart, the settings and the balance the server has, and no
\* validation is on its way.
Complete ==
    /\ lines = cart /\ config = offer.settings /\ balance = offer.balance
    /\ asked = <<>>

\* The customer pays what the page showed: when the page is complete, placing
\* the order charges exactly the bill on the screen, and a coupon shown as
\* applied is not refused (checkout-screen, createFromCart, resolveForOrder).
ChargedAsShown ==
    Complete => Charged = Shown /\ (applied => ChargedDiscount = discount)

\* It holds on a visit during which nothing else reaches the page while a coupon is
\* validated, and of a cart in which nothing is sold by the gram: the server charges such
\* a line for its grams at the price of a kilogram (createFromCart: price * quantity).
NothingByTheGram == \A i \in Items : ModeOf[i] = "gram_step" => cart[i] = 0
CalmChargedAsShown == pace = "calm" /\ NothingByTheGram => ChargedAsShown

\* Every bill adds up, also while answers are missing: goods and delivery are
\* the discount, the cashback and the amount to pay, and never more cashback is
\* taken than the customer has (calculateOrderTotals on both sides).
BillsAddUp == AddsUp(Shown, balance) /\ AddsUp(Charged, offer.balance)

\* A validation never answers more than the order it was asked for costs, so
\* the preview the page shows is the discount (calculateCouponDiscount).
DiscountWithinBill ==
    \A n \in DOMAIN asked :
        LET gross == asked[n].subtotal + asked[n].fee IN
        CalculateCouponDiscount(offer.coupon, asked[n].subtotal, gross) \in 0..gross

\* A customer never earns more cashback than the goods cost, or buying would
\* pay (cashbackPendingForLine, cashbackEarnedSnapshotTiyin).
CashbackEarned ==
    MapThenSumSet(LAMBDA i : CashbackPendingForLine(
                      LineTotal(cart, i), CashbackOf[i].type, CashbackOf[i].value), Items)
EarnsAtMostThePrice == CashbackEarned \in 0..CartSubtotal(cart)

\* A line of the cart takes out of stock what it sells, to the kilogram it
\* opens, and no sale ends below zero (hasEnoughStockForMode, deductStockForMode).
StockSold ==
    \A i \in Items, stock \in 0..MaxStock : SoldFromStock(stock, cart[i], ModeOf[i])

\* Whatever of the cart, the settings, the balance and the discount is missing or late,
\* both bills are sums of their parts and nobody is paid to buy.
BillsSound == TypeOK /\ BillsAddUp /\ DiscountWithinBill /\ EarnsAtMostThePrice
=============================================================================
