------------------------- MODULE OrderPricingProofs -------------------------
(***************************************************************************)
(* Facts about the arithmetic of OrderPricing for every integer input.     *)
(***************************************************************************)
EXTENDS OrderPricing, TLAPS

\* The guards of the arithmetic keep an amount where the type says.
LEMMA PositiveType == \A a \in Int : Positive(a) \in Nat /\ Positive(a) >= a
BY DEF Positive

\* A percentage from the settings is read as one between 0 and 100.
LEMMA PercentType == \A v \in Int : Percent(v) \in 0..100
BY DEF Percent, Positive

\* A percentage of an amount is between nothing and the amount.
LEMMA PartOf == \A a \in Nat, p \in 0..100 : (a * p) \div 100 \in 0..a
<1> SUFFICES ASSUME NEW a \in Nat, NEW p \in 0..100 PROVE (a * p) \div 100 \in 0..a
    OBVIOUS
<1> DEFINE b == a * p
<1>1. b \in Nat /\ b <= 100 * a
    <2>1. a * p \in Nat OBVIOUS
    <2>2. a * (100 - p) \in Nat OBVIOUS
    <2>3. a * (100 - p) = 100 * a - a * p OBVIOUS
    <2> QED BY <2>1, <2>2, <2>3
<1> HIDE DEF b
<1>2. b \div 100 \in 0..a BY <1>1
<1> QED BY <1>2 DEF b

\* The bill adds up for every input: the goods and the delivery are the
\* discount, the redeemed cashback and the total, none is negative and no more
\* cashback is taken than the balance (calculateOrderTotals, both copies).
THEOREM TotalsAddUp ==
    \A subtotal, fee, discount, balance, requested \in Int :
        AddsUp(CalculateOrderTotals(subtotal, fee, discount, balance, requested), balance)
<1> SUFFICES ASSUME NEW subtotal \in Int, NEW fee \in Int, NEW discount \in Int,
                    NEW balance \in Int, NEW requested \in Int
             PROVE AddsUp(CalculateOrderTotals(subtotal, fee, discount, balance, requested),
                          balance)
    OBVIOUS
<1> DEFINE gross == Positive(subtotal) + Positive(fee)
           coupon == Smaller(Positive(discount), gross)
           most == Smaller(Positive(balance), gross - coupon)
           redeem == Smaller(Positive(requested), most)
<1>1. gross \in Nat /\ Positive(discount) \in Nat /\ Positive(requested) \in Nat
      /\ Positive(balance) \in Nat
    BY PositiveType
<1>2. coupon \in 0..gross BY <1>1 DEF Smaller
<1>3. most \in 0..(gross - coupon) /\ most <= Positive(balance) BY <1>1, <1>2 DEF Smaller
<1>4. redeem \in 0..most BY <1>1, <1>3 DEF Smaller
<1>5. CalculateOrderTotals(subtotal, fee, discount, balance, requested)
        = Totals(gross, coupon, redeem, gross - coupon - redeem)
    BY DEF CalculateOrderTotals
<1> HIDE DEF gross, coupon, most, redeem
<1> QED BY <1>1, <1>2, <1>3, <1>4, <1>5 DEF AddsUp, Totals

\* A coupon never takes off more than the order costs (calculateCouponDiscount).
THEOREM DiscountWithinGross ==
    \A coupon \in Coupon, subtotal \in Int, gross \in Nat :
        CalculateCouponDiscount(coupon, subtotal, gross) \in 0..gross
<1> SUFFICES ASSUME NEW coupon \in Coupon, NEW subtotal \in Int, NEW gross \in Nat
             PROVE CalculateCouponDiscount(coupon, subtotal, gross) \in 0..gross
    OBVIOUS
<1>1. /\ coupon.discountValue \in Int /\ coupon.maxDiscount \in Int
    BY DEF Coupon
<1>2. (gross * Percent(coupon.discountValue)) \div 100 \in 0..gross
    BY <1>1, PercentType, PartOf
<1>3. Positive(coupon.discountValue) \in Nat BY <1>1, PositiveType
<1>4. RawDiscount(coupon, gross) \in Nat
    BY <1>1, <1>2, <1>3 DEF RawDiscount, Smaller
<1> QED BY <1>4 DEF CalculateCouponDiscount, Smaller

\* A line never earns more cashback than it costs, so that what an order earns
\* is at most what its goods cost (cashbackPendingForLine).
THEOREM CashbackWithinLine ==
    \A line \in Nat, type \in CashbackType, value \in Int :
        CashbackPendingForLine(line, type, value) \in 0..line
<1> SUFFICES ASSUME NEW line \in Nat, NEW type \in CashbackType, NEW value \in Int
             PROVE CashbackPendingForLine(line, type, value) \in 0..line
    OBVIOUS
<1>1. (line * Percent(value)) \div 100 \in 0..line BY PercentType, PartOf
<1> QED BY <1>1 DEF CashbackPendingForLine, Smaller

\* A sale the stock allows takes out what it sells, loses less than the
\* kilogram it opens and leaves a stock that is not negative, for every stock,
\* quantity and mode (hasEnoughStockForMode, deductStockForMode).
THEOREM SaleTakesFromStock ==
    \A stock, quantity \in Nat, mode \in Mode : SoldFromStock(stock, quantity, mode)
BY DEF SoldFromStock, DeductStockForMode, HasEnoughStockForMode, InUnits, Positive, Mode
=============================================================================
