---------------------------- MODULE OrderPricing ----------------------------
(***************************************************************************)
(* The arithmetic of an order: selling modes, the delivery fee, the coupon *)
(* discount, the cashback and the totals.  Amounts are integers (so'm);    *)
(* a quantity counts pieces, kilograms or grams, as the product's selling  *)
(* mode says, and stock counts pieces or kilograms.                        *)
(***************************************************************************)
EXTENDS Integers

Mode == {"piece", "kilogram_step", "gram_step"}
CashbackType == {"NONE", "PERCENT", "FIXED_AMOUNT"}
Coupon == [discountType : {"PERCENT", "FIXED_AMOUNT"}, discountValue : Int,
           minOrderAmount : Int, maxDiscount : Int]
Settings == [deliveryPrice : Int, freeDeliveryEnabled : BOOLEAN,
             freeDeliveryThreshold : Int]

Smaller(a, b) == IF a < b THEN a ELSE b
Positive(a) == IF a > 0 THEN a ELSE 0

-----------------------------------------------------------------------------
(* Selling modes *)

\* getSellingModeStep; getSellingModeMin has the same values.
Step(mode) == IF mode = "gram_step" THEN 100 ELSE 1

\* Mutant: every product is decreased by the step of gram products.
DecreaseByGrams(quantity, mode) == IF quantity <= Step(mode) THEN -quantity ELSE -100

DecreaseDelta(quantity, mode) ==
    IF quantity <= Step(mode) THEN -quantity ELSE -Step(mode)

\* Math.round((price * qty) / 1000) rounds halves up.
CalculateSellingModeLineTotal(price, quantity, mode) ==
    IF mode = "gram_step" THEN (price * quantity + 500) \div 1000 ELSE price * quantity

HasEnoughStockForMode(stock, quantity, mode) ==
    IF mode = "gram_step" THEN stock * 1000 >= quantity ELSE stock >= quantity

\* Mutant: the remaining grams are rounded to the nearest kilogram.
DeductStockRounded(stock, quantity, mode) ==
    IF mode = "gram_step"
    THEN Positive((stock * 1000 - quantity + 500) \div 1000)
    ELSE Positive(stock - quantity)

DeductStockForMode(stock, quantity, mode) ==
    IF mode = "gram_step"
    THEN Positive((stock * 1000 - quantity) \div 1000)
    ELSE Positive(stock - quantity)

-----------------------------------------------------------------------------
(* Delivery fee, coupon, cashback, totals *)

CalculateDeliveryFee(subtotal, settings) ==
    IF settings.freeDeliveryEnabled
       /\ Positive(subtotal) >= Positive(settings.freeDeliveryThreshold)
    THEN 0 ELSE Positive(settings.deliveryPrice)

Percent(value) == IF value > 100 THEN 100 ELSE Positive(value)

\* A missing maxDiscount is 0.
RawDiscount(coupon, gross) ==
    LET part == (gross * Percent(coupon.discountValue)) \div 100 IN
    IF coupon.discountType # "PERCENT" THEN Positive(coupon.discountValue)
    ELSE IF coupon.maxDiscount > 0 THEN Smaller(part, coupon.maxDiscount) ELSE part

\* Mutant: a fixed discount may exceed the order.
DiscountUncapped(coupon, subtotal, gross) ==
    IF Positive(subtotal) < Positive(coupon.minOrderAmount) \/ gross <= 0 THEN 0
    ELSE RawDiscount(coupon, gross)

CalculateCouponDiscount(coupon, subtotal, gross) ==
    IF Positive(subtotal) < Positive(coupon.minOrderAmount) \/ gross <= 0 THEN 0
    ELSE Smaller(RawDiscount(coupon, gross), gross)

\* Mutant: a fixed cashback is promised whatever the line costs.
CashbackUncapped(line, type, value) ==
    IF line <= 0 \/ type = "NONE" \/ value <= 0 THEN 0
    ELSE IF type = "PERCENT" THEN (line * Percent(value)) \div 100 ELSE value

CashbackPendingForLine(line, type, value) ==
    IF line <= 0 \/ type = "NONE" \/ value <= 0 THEN 0
    ELSE IF type = "PERCENT" THEN (line * Percent(value)) \div 100
    ELSE Smaller(line, value)

Totals(gross, discount, redeem, total) ==
    [grossTotal |-> gross, couponDiscount |-> discount,
     cashbackRedeem |-> redeem, totalAmount |-> total]

\* Mutant: the cashback to spend is capped before the coupon is taken off.
TotalsCappedByGross(subtotal, fee, discount, balance, requested) ==
    LET gross == Positive(subtotal) + Positive(fee)
        coupon == Smaller(Positive(discount), gross)
        redeem == Smaller(Positive(requested), Smaller(Positive(balance), gross))
    IN  Totals(gross, coupon, redeem, Positive(gross - coupon - redeem))

CalculateOrderTotals(subtotal, fee, discount, balance, requested) ==
    LET gross == Positive(subtotal) + Positive(fee)
        coupon == Smaller(Positive(discount), gross)
        afterCoupon == gross - coupon
        redeem == Smaller(Positive(requested), Smaller(Positive(balance), afterCoupon))
    IN  Totals(gross, coupon, redeem, afterCoupon - redeem)

-----------------------------------------------------------------------------
(* What the arithmetic owes to the shop *)

\* Nothing is lost between the goods and the bill, and nobody is paid to buy.
AddsUp(bill, balance) ==
    /\ bill.grossTotal = bill.couponDiscount + bill.cashbackRedeem + bill.totalAmount
    /\ bill.couponDiscount >= 0 /\ bill.totalAmount >= 0
    /\ bill.cashbackRedeem \in 0..Positive(balance)

\* One sale never takes more out of stock than there is.  A sale by the gram
\* loses the rest of the kilogram it opens.
InUnits(amount, mode) == IF mode = "gram_step" THEN amount * 1000 ELSE amount
SoldFromStock(stock, quantity, mode) ==
    LET left == DeductStockForMode(stock, quantity, mode) IN
    HasEnoughStockForMode(stock, quantity, mode) =>
        /\ left >= 0
        /\ InUnits(left, mode) + quantity <= InUnits(stock, mode)
        /\ InUnits(stock, mode) < InUnits(left + 1, mode) + quantity
=============================================================================
