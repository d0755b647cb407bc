------------------------ MODULE CheckoutScreenProofs ------------------------
(***************************************************************************)
(* The checkout page of CheckoutScreen, for all products, coupons and      *)
(* settings and any number of validations on their way: both bills add up, *)
(* a calm visit charges what it showed, and a line sells what there is.    *)
(* And its address (OrderAddress), for all places and any addresses saved: *)
(* an id of a saved row stands for one place (BookKept), the order under   *)
(* way can be accepted (OrderKept), and in a calm visit the form shows the *)
(* place the customer chose last, or still waits for it (CalmForm).        *)
(* The delivery times (DeliverySchedule), for all opening hours, places    *)
(* and orders: a place is given when the list had one (ScheduleInv).       *)
(* The backfill of the catalogue (MarketMigration), for all shops, rows    *)
(* and prices, whatever dies or overlaps: MigrationInv, MigrationKept.     *)
(***************************************************************************)
EXTENDS CheckoutScreen, OrderAddress, DeliverySchedule, MarketMigration,
        OrderPricingProofs, FiniteSums

-----------------------------------------------------------------------------
(* The sums over the lines of a cart. *)

\* The line totals, the charged prices and the cashback of the lines of a cart.
LineTotals(lot) == [i \in Items |-> LineTotal(lot, i)]
ChargedLines == [i \in Items |-> PriceOf[i] * cart[i]]
LineCashback == [i \in Items |-> CashbackPendingForLine(
                    LineTotal(cart, i), CashbackOf[i].type, CashbackOf[i].value)]

\* The sum of the goods as a total over the lines, ...
LEMMA SubtotalIsTotal ==
    ASSUME NEW lot, \A i \in Items : LineTotal(lot, i) \in Int
    PROVE CartSubtotal(lot) = Total(LineTotals(lot), Items)
<1> DEFINE f == LineTotals(lot)
           ch == Chooser(Items)
           x(s) == CHOOSE i \in s : TRUE
           eq(it) == it = [s \in SUBSET Items |-> IF s = {} THEN 0
                 ELSE LineTotal(lot, x(s)) + it[s \ {x(s)}]]
           it0 == CHOOSE it : eq(it)
<1>1. CartSubtotal(lot) = it0[Items]
    BY DEF CartSubtotal, MapThenSumSet, MapThenFoldSet
<1>2. ASSUME NEW it PROVE Sums(it, f, ch, Items) <=> eq(it)
    <2>1. \A s \in SUBSET Items : s # {} => ch[s] = x(s) /\ f[ch[s]] = LineTotal(lot, x(s))
        BY DEF Chooser, LineTotals
    <2> HIDE DEF ch, f, x
    <2> QED BY <2>1 DEF Sums, SumsOver
<1>3. IsFiniteSet(Items) /\ \A i \in Items : f[i] \in Int
    BY PricesAssumption DEF LineTotals
<1>4. Chooses(ch, Items)
    BY ChooserChooses
<1> HIDE DEF f, ch, eq
<1>5. PICK it : Sums(it, f, ch, Items)
    BY <1>3, <1>4, SumsExist
<1>6. eq(it0)
    <2>1. eq(it)
        BY <1>2, <1>5
    <2> QED BY <2>1
<1> HIDE DEF it0
<1>7. it0[Items] = Total(f, Items)
    BY <1>2, <1>3, <1>4, <1>6, SumIsTotal
<1> QED BY <1>1, <1>7 DEF f

\* ... the sum the server charges, ...
LEMMA ChargedIsTotal ==
    ASSUME \A i \in Items : PriceOf[i] * cart[i] \in Int
    PROVE ChargedSubtotal = Total(ChargedLines, Items)
<1> DEFINE f == ChargedLines
           ch == Chooser(Items)
           x(s) == CHOOSE i \in s : TRUE
           eq(it) == it = [s \in SUBSET Items |-> IF s = {} THEN 0
                 ELSE PriceOf[x(s)] * cart[x(s)] + it[s \ {x(s)}]]
           it0 == CHOOSE it : eq(it)
<1>1. ChargedSubtotal = it0[Items]
    BY DEF ChargedSubtotal, MapThenSumSet, MapThenFoldSet
<1>2. ASSUME NEW it PROVE Sums(it, f, ch, Items) <=> eq(it)
    <2>1. \A s \in SUBSET Items : s # {} => ch[s] = x(s) /\ f[ch[s]] = PriceOf[x(s)] * cart[x(s)]
        BY DEF Chooser, ChargedLines
    <2> HIDE DEF ch, f, x
    <2> QED BY <2>1 DEF Sums, SumsOver
<1>3. IsFiniteSet(Items) /\ \A i \in Items : f[i] \in Int
    BY PricesAssumption DEF ChargedLines
<1>4. Chooses(ch, Items)
    BY ChooserChooses
<1> HIDE DEF f, ch, eq
<1>5. PICK it : Sums(it, f, ch, Items)
    BY <1>3, <1>4, SumsExist
<1>6. eq(it0)
    <2>1. eq(it)
        BY <1>2, <1>5
    <2> QED BY <2>1
<1> HIDE DEF it0
<1>7. it0[Items] = Total(f, Items)
    BY <1>2, <1>3, <1>4, <1>6, SumIsTotal
<1> QED BY <1>1, <1>7 DEF f

\* ... and the cashback the lines earn.
LEMMA CashbackIsTotal ==
    ASSUME \A i \in Items : LineCashback[i] \in Int
    PROVE CashbackEarned = Total(LineCashback, Items)
<1> DEFINE f == LineCashback
           of(i) == CashbackPendingForLine(
                        LineTotal(cart, i), CashbackOf[i].type, CashbackOf[i].value)
           ch == Chooser(Items)
           x(s) == CHOOSE i \in s : TRUE
           eq(it) == it = [s \in SUBSET Items |-> IF s = {} THEN 0
                 ELSE of(x(s)) + it[s \ {x(s)}]]
           it0 == CHOOSE it : eq(it)
<1>1. CashbackEarned = it0[Items]
    BY DEF CashbackEarned, MapThenSumSet, MapThenFoldSet
<1>2. ASSUME NEW it PROVE Sums(it, f, ch, Items) <=> eq(it)
    <2>1. \A s \in SUBSET Items : s # {} => ch[s] = x(s) /\ f[ch[s]] = of(x(s))
        BY DEF Chooser, LineCashback
    <2> HIDE DEF ch, f, x, of
    <2> QED BY <2>1 DEF Sums, SumsOver
<1>3. IsFiniteSet(Items) /\ \A i \in Items : f[i] \in Int
    BY PricesAssumption
<1>4. Chooses(ch, Items)
    BY ChooserChooses
<1> HIDE DEF f, ch, eq
<1>5. PICK it : Sums(it, f, ch, Items)
    BY <1>3, <1>4, SumsExist
<1>6. eq(it0)
    <2>1. eq(it)
        BY <1>2, <1>5
    <2> QED BY <2>1
<1> HIDE DEF it0
<1>7. it0[Items] = Total(f, Items)
    BY <1>2, <1>3, <1>4, <1>6, SumIsTotal
<1> QED BY <1>1, <1>7 DEF f

\* Every line of a cart costs a natural number.
LEMMA LineTotalType ==
    ASSUME NEW lot \in Carts, NEW i \in Items
    PROVE /\ LineTotal(lot, i) \in Nat /\ PriceOf[i] * lot[i] \in Nat
          /\ (ModeOf[i] = "gram_step" => lot[i] = 0) => LineTotal(lot, i) = PriceOf[i] * lot[i]
<1>1. PriceOf[i] \in Nat /\ lot[i] \in Nat
    BY PricesAssumption DEF Carts
<1> DEFINE p == PriceOf[i] * lot[i]
<1>2. p \in Nat
    BY <1>1
<1>3. lot[i] = 0 => p = 0
    BY <1>1
<1>4. LineTotal(lot, i) = IF ModeOf[i] = "gram_step" THEN (p + 500) \div 1000 ELSE p
    BY DEF LineTotal, CalculateSellingModeLineTotal
<1> HIDE DEF p
<1>5. (p + 500) \div 1000 \in Nat /\ (p = 0 => (p + 500) \div 1000 = 0)
    BY <1>2
<1> QED BY <1>2, <1>3, <1>4, <1>5 DEF p

\* The goods of the page cost a natural number, ...
LEMMA SubtotalType ==
    ASSUME NEW lot \in Carts
    PROVE CartSubtotal(lot) \in Nat
<1>1. \A i \in Items : LineTotals(lot)[i] \in Nat /\ LineTotal(lot, i) \in Int
    BY LineTotalType DEF LineTotals
<1>2. IsFiniteSet(Items)
    BY PricesAssumption
<1> QED BY <1>1, <1>2, SubtotalIsTotal, TotalNat

\* ... those of the server too, ...
LEMMA ChargedType ==
    ASSUME cart \in Carts
    PROVE /\ ChargedSubtotal \in Nat
          /\ NothingByTheGram => ChargedSubtotal = CartSubtotal(cart)
<1>1. \A i \in Items : ChargedLines[i] \in Nat /\ PriceOf[i] * cart[i] \in Int
    BY LineTotalType DEF ChargedLines
<1>2. IsFiniteSet(Items)
    BY PricesAssumption
<1>3. ChargedSubtotal = Total(ChargedLines, Items) /\ ChargedSubtotal \in Nat
    BY <1>1, <1>2, ChargedIsTotal, TotalNat
<1>4. ASSUME NothingByTheGram PROVE ChargedSubtotal = CartSubtotal(cart)
    <2>1. \A i \in Items : LineTotals(cart)[i] = ChargedLines[i] /\ LineTotal(cart, i) \in Int
        BY <1>4, LineTotalType DEF LineTotals, ChargedLines, NothingByTheGram
    <2>2. Total(LineTotals(cart), Items) = Total(ChargedLines, Items)
        BY <1>1, <1>2, <2>1, TotalSame
    <2> QED BY <1>3, <2>1, <2>2, SubtotalIsTotal
<1> QED BY <1>3, <1>4

-----------------------------------------------------------------------------
(* What the page holds. *)

\* The type invariant, with the validations on their way as a sequence.
TypeInv == TypeOK /\ asked \in Seq(Quote)

\* ... and the delivery.
LEMMA FeeType ==
    ASSUME NEW subtotal \in Nat, NEW settings \in Settings
    PROVE CalculateDeliveryFee(subtotal, settings) \in Nat
BY DEF CalculateDeliveryFee, Positive, Settings

\* What the visit offers has its types.
LEMMA OfferType ==
    ASSUME offer \in Offers
    PROVE /\ offer.coupon \in Coupon /\ offer.settings \in Settings
          /\ offer.balance \in Int /\ offer.requested \in Int
BY PricesAssumption DEF Offer

\* What the page shows of a cart and of settings that may be missing.
LEMMA ShownTypes ==
    ASSUME NEW l \in Carts \cup {NoCart}, NEW c \in Settings \cup {NoConfig}
    PROVE LET subtotal == IF l = NoCart THEN 0 ELSE CartSubtotal(l) IN
          /\ subtotal \in Nat
          /\ (IF c = NoConfig THEN 0 ELSE CalculateDeliveryFee(subtotal, c)) \in Nat
<1> DEFINE subtotal == IF l = NoCart THEN 0 ELSE CartSubtotal(l)
<1>1. subtotal \in Nat
    BY SubtotalType
<1> HIDE DEF subtotal
<1>2. (IF c = NoConfig THEN 0 ELSE CalculateDeliveryFee(subtotal, c)) \in Nat
    BY <1>1, FeeType
<1> QED BY <1>1, <1>2 DEF subtotal

\* The bill of the page is typed whatever has arrived.
LEMMA ShownType ==
    ASSUME TypeInv
    PROVE ShownSubtotal \in Nat /\ ShownFee \in Nat
<1>1. lines \in Carts \cup {NoCart} /\ config \in Settings \cup {NoConfig}
    BY OfferType, PricesAssumption DEF TypeInv, TypeOK
<1> QED BY <1>1, ShownTypes DEF ShownSubtotal, ShownFee

\* A validation carries a quote, and what is left of the queue does.
LEMMA AskedType ==
    ASSUME asked \in Seq(Quote), NEW n \in DOMAIN asked
    PROVE /\ RemoveAt(asked, n) \in Seq(Quote)
          /\ \A m \in DOMAIN RemoveAt(asked, n) :
                \E k \in DOMAIN asked : RemoveAt(asked, n)[m] = asked[k]
<1>1. n \in 1..Len(asked) /\ Len(asked) \in Nat
    OBVIOUS
<1> DEFINE l == SubSeq(asked, 1, n - 1)
           r == SubSeq(asked, n + 1, Len(asked))
<1>2. /\ l \in Seq(Quote) /\ Len(l) = n - 1
      /\ \A m \in 1..(n - 1) : l[m] = asked[m]
    BY <1>1
<1>3. /\ r \in Seq(Quote) /\ Len(r) = Len(asked) - n
      /\ \A m \in 1..(Len(asked) - n) : r[m] = asked[n + m]
    BY <1>1
<1> HIDE DEF l, r
<1>4. l \o r \in Seq(Quote)
    BY <1>2, <1>3
<1>5. DOMAIN (l \o r) = 1..(Len(asked) - 1)
    BY <1>1, <1>2, <1>3
<1>6. ASSUME NEW m \in DOMAIN (l \o r)
      PROVE \E k \in DOMAIN asked : (l \o r)[m] = asked[k]
    <2>1. CASE m <= n - 1
        <3>1. (l \o r)[m] = l[m] /\ m \in 1..(n - 1)
            BY <1>1, <1>2, <1>3, <1>5, <2>1
        <3> QED BY <1>1, <1>2, <3>1
    <2>2. CASE m > n - 1
        <3>1. m - (n - 1) \in 1..(Len(asked) - n)
            BY <1>1, <1>5, <2>2
        <3>2. (l \o r)[m] = r[m - Len(l)]
            BY <1>2, <1>3, <1>5, <1>6, <2>2
        <3>3. (l \o r)[m] = r[m - (n - 1)]
            BY <1>2, <3>2
        <3>4. (l \o r)[m] = asked[n + (m - (n - 1))]
            BY <1>3, <3>1, <3>3
        <3> QED BY <1>1, <3>1, <3>4
    <2> QED BY <1>1, <1>5, <2>1, <2>2
<1> QED BY <1>4, <1>6 DEF RemoveAt, l, r

\* Asking appends the quote of what the page shows then.
LEMMA AskType ==
    ASSUME asked \in Seq(Quote), NEW subtotal \in Nat, NEW fee \in Nat
    PROVE LET q == [subtotal |-> subtotal, fee |-> fee] IN
          /\ Append(asked, q) \in Seq(Quote)
          /\ DOMAIN Append(asked, q) = 1..(Len(asked) + 1)
          /\ \A n \in DOMAIN asked : Append(asked, q)[n] = asked[n]
          /\ Append(asked, q)[Len(asked) + 1] = q
<1> DEFINE q == [subtotal |-> subtotal, fee |-> fee]
<1>1. q \in Quote
    BY DEF Quote
<1> HIDE DEF q
<1>2. /\ Append(asked, q) \in Seq(Quote)
      /\ DOMAIN Append(asked, q) = 1..(Len(asked) + 1)
      /\ \A n \in DOMAIN asked : Append(asked, q)[n] = asked[n]
      /\ Append(asked, q)[Len(asked) + 1] = q
    BY <1>1
<1> QED BY <1>2 DEF q

\* The validation of one quote grants at most what the quote says the order costs.
LEMMA GrantedType ==
    ASSUME offer \in Offers, NEW q \in Quote
    PROVE CalculateCouponDiscount(offer.coupon, q.subtotal, q.subtotal + q.fee)
              \in 0..(q.subtotal + q.fee)
<1>1. q.subtotal \in Int /\ q.subtotal + q.fee \in Nat
    BY DEF Quote
<1> QED BY <1>1, OfferType, DiscountWithinGross

-----------------------------------------------------------------------------
(* The steps *)

\* The coupon that is applied is the one of the answer that set it, and on a calm
\* visit it is the discount of what the page still shows.
ShownDiscount ==
    CalculateCouponDiscount(offer.coupon, ShownSubtotal, ShownSubtotal + ShownFee)
Calm ==
    /\ ~applied => discount = 0
    /\ pace = "calm" =>
          /\ \A n \in DOMAIN asked :
                asked[n] = [subtotal |-> ShownSubtotal, fee |-> ShownFee]
          /\ applied /\ asked = <<>> => discount = ShownDiscount

\* The shown totals change with the cart and the settings of the page alone.
LEMMA ShownStays ==
    ASSUME UNCHANGED <<lines, config>>
    PROVE UNCHANGED <<ShownSubtotal, ShownFee>>
BY DEF ShownSubtotal, ShownFee

\* The effect asks for the new totals, removes the coupon or finds nothing to do.
LEMMA RevalidateStep ==
    ASSUME TypeInv, Calm, Revalidate, UNCHANGED <<pace, offer>>,
           ShownSubtotal' \in Nat, ShownFee' \in Nat,
           pace = "calm" => asked = <<>>
    PROVE /\ asked' \in Seq(Quote) /\ discount' \in Nat /\ Calm'
          /\ typed' \in BOOLEAN /\ applied' \in BOOLEAN /\ loading' \in BOOLEAN
<1>1. /\ typed \in BOOLEAN /\ applied \in BOOLEAN /\ loading \in BOOLEAN
      /\ discount \in Nat /\ asked \in Seq(Quote)
    BY DEF TypeInv, TypeOK
<1>2. CASE ~applied /\ UNCHANGED couponState
    <2>1. Calm'
        <3>1. discount' = 0 /\ ~applied' /\ asked' = asked
            BY <1>2 DEF Calm, couponState
        <3>2. pace' = "calm" => DOMAIN asked' = {}
            BY <3>1
        <3> QED BY <3>1, <3>2 DEF Calm
    <2> QED BY <1>1, <1>2, <2>1 DEF couponState
<1>3. CASE <<ShownSubtotal', ShownFee'>> = <<ShownSubtotal, ShownFee>> /\ UNCHANGED couponState
    <2>1. ShownSubtotal' = ShownSubtotal /\ ShownFee' = ShownFee
        BY <1>3
    <2>2. ShownDiscount' = ShownDiscount
        BY <2>1 DEF ShownDiscount
    <2>3. Calm'
        BY <1>3, <2>1, <2>2 DEF Calm, couponState
    <2> QED BY <1>1, <1>3, <2>3 DEF couponState
<1>4. CASE Ask(ShownSubtotal', ShownFee') /\ UNCHANGED <<typed, applied, discount>>
    <2> DEFINE q == [subtotal |-> ShownSubtotal', fee |-> ShownFee']
    <2>1. /\ asked' = Append(asked, q)
          /\ asked' \in Seq(Quote) /\ DOMAIN asked' = 1..(Len(asked) + 1)
          /\ asked'[Len(asked) + 1] = q
        BY <1>1, <1>4, AskType DEF Ask
    <2>2. asked' # <<>>
        BY <1>1, <2>1
    <2>3. ASSUME pace = "calm", NEW n \in DOMAIN asked' PROVE asked'[n] = q
        BY <1>1, <2>1, <2>3
    <2>4. Calm'
        BY <1>4, <2>2, <2>3 DEF Calm
    <2> QED BY <1>1, <1>4, <2>1, <2>4 DEF Ask
<1>5. CASE applied' = FALSE /\ discount' = 0 /\ UNCHANGED <<typed, loading, asked>>
    <2>1. Calm'
        <3>1. pace' = "calm" => DOMAIN asked' = {}
            BY <1>5
        <3> QED BY <1>5, <3>1 DEF Calm
    <2> QED BY <1>1, <1>5, <2>1
<1> QED BY <1>2, <1>3, <1>4, <1>5 DEF Revalidate

\* An answer sets what it grants, and on a calm visit that is the shown discount.
LEMMA AnswerStep ==
    ASSUME TypeInv, Calm, NEW n \in DOMAIN asked, AnswerArrives(n), UNCHANGED pace
    PROVE /\ asked' \in Seq(Quote) /\ discount' \in Nat /\ Calm'
          /\ typed' \in BOOLEAN /\ applied' \in BOOLEAN /\ loading' \in BOOLEAN
<1> DEFINE q == asked[n]
           granted == CalculateCouponDiscount(offer.coupon, q.subtotal, q.subtotal + q.fee)
<1>1. q \in Quote /\ asked \in Seq(Quote) /\ offer \in Offers /\ typed \in BOOLEAN
    BY DEF TypeInv, TypeOK
<1>2. granted \in Nat
    <2>1. q.subtotal + q.fee \in Nat
        BY <1>1 DEF Quote
    <2>2. granted \in 0..(q.subtotal + q.fee)
        BY <1>1, GrantedType
    <2> HIDE DEF granted, q
    <2> QED BY <2>1, <2>2
<1>3. /\ discount' \in {0, granted} /\ applied' = (discount' > 0) /\ loading' = FALSE
      /\ asked' = RemoveAt(asked, n)
      /\ UNCHANGED <<cart, offer, lines, config, balance, typed>>
    BY DEF AnswerArrives
<1>4. /\ asked' \in Seq(Quote)
      /\ \A m \in DOMAIN asked' : \E k \in DOMAIN asked : asked'[m] = asked[k]
    BY <1>1, <1>3, AskedType
<1>5. UNCHANGED <<ShownSubtotal, ShownFee>>
    BY <1>3, ShownStays
<1>6. pace = "calm" => granted = ShownDiscount
    BY DEF Calm, ShownDiscount
<1>7. ShownDiscount' = ShownDiscount
    BY <1>3, <1>5 DEF ShownDiscount
<1> HIDE DEF q, granted
<1>8. discount' \in Nat /\ applied' \in BOOLEAN
    BY <1>2, <1>3
<1>9. ~applied' => discount' = 0
    <2>1. ~applied' => ~(discount' > 0)
        BY <1>3, Zenon
    <2>2. ~(discount' > 0) => discount' = 0
        BY <1>8
    <2> QED BY <2>1, <2>2
<1>10. applied' => discount' = granted
    <2>1. applied' => discount' > 0
        BY <1>3, Zenon
    <2>2. discount' > 0 => discount' = granted
        BY <1>3, <1>8
    <2> QED BY <2>1, <2>2
<1>11. Calm'
    <2>1. pace = "calm" => \A m \in DOMAIN asked' :
              asked'[m] = [subtotal |-> ShownSubtotal', fee |-> ShownFee']
        BY <1>4, <1>5 DEF Calm
    <2>2. pace = "calm" /\ applied' => discount' = ShownDiscount'
        BY <1>6, <1>7, <1>10
    <2> QED BY <1>9, <2>1, <2>2 DEF Calm
<1> QED BY <1>1, <1>3, <1>4, <1>8, <1>11

\* The inductive invariant holds in every reachable state.
LEMMA InvariantHolds == Spec => [](TypeInv /\ Calm)
<1>1. Init => TypeInv /\ Calm
    <2> SUFFICES ASSUME Init PROVE TypeInv /\ Calm
        OBVIOUS
    <2>1. cart \in Carts
        BY DEF Init, Carts, EmptyCart
    <2>2. asked = <<>> /\ DOMAIN asked = {} /\ asked \in Seq(Quote)
        BY DEF Init
    <2>3. TypeOK
        BY <2>1, <2>2 DEF Init, TypeOK
    <2> QED BY <2>2, <2>3 DEF Init, TypeInv, Calm
<1>2. TypeInv /\ Calm /\ [Next]_vars => (TypeInv /\ Calm)'
    <2> SUFFICES ASSUME TypeInv, Calm, [Next]_vars PROVE TypeInv' /\ Calm'
        OBVIOUS
    <2> DEFINE Held == /\ asked' \in Seq(Quote) /\ discount' \in Nat /\ Calm'
                       /\ typed' \in BOOLEAN /\ applied' \in BOOLEAN /\ loading' \in BOOLEAN
               Page == /\ pace' \in Paces /\ cart' \in Carts /\ offer' \in Offers
                       /\ lines' \in Carts \cup {NoCart}
                       /\ config' \in {NoConfig, EnvDefaults, offer'.settings}
                       /\ balance' \in {0, offer'.balance}
    <2>1. /\ pace \in Paces /\ cart \in Carts /\ offer \in Offers
          /\ lines \in Carts \cup {NoCart}
          /\ config \in {NoConfig, EnvDefaults, offer.settings}
          /\ balance \in {0, offer.balance}
          /\ typed \in BOOLEAN /\ applied \in BOOLEAN /\ loading \in BOOLEAN
          /\ discount \in Nat /\ asked \in Seq(Quote)
        BY DEF TypeInv, TypeOK
    <2>2. Held /\ Page => TypeInv' /\ Calm'
        <3> SUFFICES ASSUME Held, Page PROVE TypeInv' /\ Calm'
            OBVIOUS
        <3>1. \A n \in DOMAIN asked' : asked'[n] \in Quote
            OBVIOUS
        <3>2. TypeOK'
            BY <3>1 DEF TypeOK
        <3> QED BY <3>2 DEF TypeInv
    <2>3. UNCHANGED <<pace, offer, lines, config, couponState>> => Held
        <3> SUFFICES ASSUME UNCHANGED <<pace, offer, lines, config, couponState>> PROVE Held
            OBVIOUS
        <3>1. UNCHANGED <<ShownSubtotal, ShownFee>>
            BY ShownStays
        <3>2. ShownDiscount' = ShownDiscount
            BY <3>1 DEF ShownDiscount
        <3>3. Calm'
            BY <3>1, <3>2 DEF Calm, couponState
        <3> QED BY <2>1, <3>3 DEF couponState
    <2>4. Page /\ UNCHANGED <<pace, offer>> /\ (pace = "calm" => asked = <<>>) /\ Revalidate
              => Held
        <3> SUFFICES ASSUME Page, UNCHANGED <<pace, offer>>, pace = "calm" => asked = <<>>,
                            Revalidate
                     PROVE Held
            OBVIOUS
        <3>1. offer'.settings \in Settings /\ EnvDefaults \in Settings
            BY <2>1, OfferType, PricesAssumption
        <3>2. config' \in Settings \cup {NoConfig}
            BY <3>1
        <3>3. ShownSubtotal' \in Nat /\ ShownFee' \in Nat
            BY <3>2, ShownTypes DEF ShownSubtotal, ShownFee
        <3> QED BY <3>3, RevalidateStep
    <2>5. ASSUME NEW i \in Items, Add(i), UNCHANGED pace PROVE Held /\ Page
        <3>1. cart' \in Carts
            <4>1. cart[i] \in Nat /\ Step(ModeOf[i]) \in Nat
                BY <2>1 DEF Carts, Step
            <4> QED BY <2>1, <2>5, <4>1 DEF Add, Carts
        <3>2. UNCHANGED <<pace, offer, lines, config, balance, couponState>>
            BY <2>5 DEF Add
        <3> HIDE DEF Held
        <3> QED BY <2>1, <2>3, <3>1, <3>2
    <2>6. ASSUME NEW i \in Items, Decrease(i), UNCHANGED pace PROVE Held /\ Page
        <3>1. cart' \in Carts
            <4>1. cart[i] \in Nat
                BY <2>1 DEF Carts
            <4>2. cart[i] + DecreaseDelta(cart[i], ModeOf[i]) \in Nat
                BY <4>1 DEF DecreaseDelta, Step
            <4> QED BY <2>1, <2>6, <4>2 DEF Decrease, Carts
        <3>2. UNCHANGED <<pace, offer, lines, config, balance, couponState>>
            BY <2>6 DEF Decrease
        <3> HIDE DEF Held
        <3> QED BY <2>1, <2>3, <3>1, <3>2
    <2>7. CASE CartArrives /\ UNCHANGED pace
        <3>1. EmptyCart \in Carts
            BY DEF EmptyCart, Carts
        <3>2. Page
            BY <2>1, <2>7, <3>1 DEF CartArrives
        <3>3. (pace = "calm" => asked = <<>>) /\ Revalidate /\ UNCHANGED <<pace, offer>>
            BY <2>7 DEF CartArrives, Arrives
        <3> HIDE DEF Held, Page
        <3> QED BY <2>2, <2>4, <3>2, <3>3
    <2>8. CASE ConfigArrives /\ UNCHANGED pace
        <3>1. Page
            BY <2>1, <2>8 DEF ConfigArrives
        <3>2. (pace = "calm" => asked = <<>>) /\ Revalidate /\ UNCHANGED <<pace, offer>>
            BY <2>8 DEF ConfigArrives, Arrives
        <3> HIDE DEF Held, Page
        <3> QED BY <2>2, <2>4, <3>1, <3>2
    <2>9. CASE BalanceArrives /\ UNCHANGED pace
        <3>1. UNCHANGED <<pace, offer, lines, config, couponState>>
            BY <2>9 DEF BalanceArrives
        <3>2. Page
            BY <2>1, <2>9 DEF BalanceArrives
        <3> HIDE DEF Held, Page
        <3> QED BY <2>2, <2>3, <3>1, <3>2
    <2>10. CASE TypeCoupon /\ UNCHANGED pace
        <3>1. UNCHANGED <<pace, offer, cart, balance, lines, config, applied, discount,
                          loading, asked>> /\ typed' \in BOOLEAN
            BY <2>10 DEF TypeCoupon
        <3>2. Page
            BY <2>1, <3>1
        <3>3. UNCHANGED <<ShownSubtotal, ShownFee>>
            BY <3>1, ShownStays
        <3>4. ShownDiscount' = ShownDiscount
            BY <3>1, <3>3 DEF ShownDiscount
        <3>5. Calm'
            BY <3>1, <3>3, <3>4 DEF Calm
        <3> QED BY <2>1, <2>2, <3>1, <3>2, <3>5
    <2>11. CASE ApplyCoupon /\ UNCHANGED pace
        <3> DEFINE q == [subtotal |-> ShownSubtotal, fee |-> ShownFee]
        <3>1. /\ UNCHANGED <<pace, offer, cart, balance, lines, config, typed, applied,
                             discount>>
              /\ asked' = Append(asked, q) /\ loading' = TRUE
            BY <2>11 DEF ApplyCoupon, Ask
        <3>2. Page
            BY <2>1, <3>1
        <3>3. UNCHANGED <<ShownSubtotal, ShownFee>>
            BY <3>1, ShownStays
        <3>4. /\ asked' \in Seq(Quote) /\ DOMAIN asked' = 1..(Len(asked) + 1)
              /\ \A n \in DOMAIN asked : asked'[n] = asked[n]
              /\ asked'[Len(asked) + 1] = q
            BY <2>1, <3>1, ShownType, AskType
        <3>5. asked' # <<>>
            BY <2>1, <3>4
        <3>6. ASSUME pace = "calm", NEW n \in DOMAIN asked' PROVE asked'[n] = q
            <4>1. CASE n = Len(asked) + 1
                BY <3>4, <4>1
            <4>2. CASE n # Len(asked) + 1
                <5>1. n \in DOMAIN asked
                    BY <2>1, <3>4, <4>2
                <5> QED BY <3>4, <3>6, <5>1 DEF Calm
            <4> QED BY <4>1, <4>2
        <3>7. Calm'
            BY <3>1, <3>3, <3>5, <3>6 DEF Calm
        <3> QED BY <2>1, <2>2, <3>1, <3>2, <3>4, <3>7
    <2>12. ASSUME NEW n \in DOMAIN asked, AnswerArrives(n), UNCHANGED pace PROVE Held /\ Page
        <3>1. Held
            BY <2>12, AnswerStep
        <3>2. UNCHANGED <<pace, offer, cart, balance, lines, config>>
            BY <2>12 DEF AnswerArrives
        <3>3. Page
            BY <2>1, <3>2
        <3> QED BY <3>1, <3>3
    <2>13. CASE UNCHANGED vars
        <3>1. UNCHANGED <<pace, offer, cart, balance, lines, config, couponState>>
            BY <2>13 DEF vars
        <3>2. Page
            BY <2>1, <3>1
        <3> HIDE DEF Held, Page
        <3> QED BY <2>2, <2>3, <3>1, <3>2
    <2> HIDE DEF Held, Page
    <2> QED BY <2>2, <2>5, <2>6, <2>7, <2>8, <2>9, <2>10, <2>11, <2>12, <2>13 DEF Next
<1> QED BY <1>1, <1>2, PTL DEF Spec

-----------------------------------------------------------------------------
(* The bills *)

\* Balances, discounts and wishes to spend are integers.
LEMMA BalanceTypes ==
    ASSUME TypeInv
    PROVE balance \in Int /\ discount \in Int /\ offer.balance \in Int /\ offer.requested \in Int
<1>1. balance \in {0, offer.balance} /\ discount \in Nat
    BY DEF TypeInv, TypeOK
<1>2. offer.balance \in Int /\ offer.requested \in Int
    BY OfferType DEF TypeInv, TypeOK
<1> QED BY <1>1, <1>2

\* What a bill redeems is a natural number, whatever was asked for.
LEMMA RedeemType ==
    \A subtotal, fee, discounted, had, requested \in Int :
        CalculateOrderTotals(subtotal, fee, discounted, had, requested).cashbackRedeem \in Nat
<1> SUFFICES ASSUME NEW subtotal \in Int, NEW fee \in Int, NEW discounted \in Int,
                    NEW had \in Int, NEW requested \in Int
             PROVE CalculateOrderTotals(subtotal, fee, discounted, had, requested)
                       .cashbackRedeem \in Nat
    OBVIOUS
<1> DEFINE bill == CalculateOrderTotals(subtotal, fee, discounted, had, requested)
<1>1. bill.cashbackRedeem \in 0..Positive(had) /\ Positive(had) \in Nat
    BY TotalsAddUp, PositiveType DEF AddsUp
<1> HIDE DEF bill
<1>2. bill.cashbackRedeem \in Nat
    BY <1>1
<1> QED BY <1>2 DEF bill

\* What the server is to charge is computed from integers.
LEMMA ChargedTypes ==
    ASSUME TypeInv
    PROVE /\ ChargedSubtotal \in Nat /\ ChargedFee \in Nat /\ ChargedDiscount \in Nat
          /\ Shown.cashbackRedeem \in Nat
<1>1. cart \in Carts /\ offer \in Offers
    BY DEF TypeInv, TypeOK
<1>2. ChargedSubtotal \in Nat
    BY <1>1, ChargedType
<1>3. offer.settings \in Settings /\ offer.coupon \in Coupon
    BY <1>1, OfferType
<1>4. ChargedFee \in Nat
    BY <1>2, <1>3, FeeType DEF ChargedFee
<1>5. ChargedDiscount \in Nat
    <2>1. ChargedSubtotal + ChargedFee \in Nat /\ ChargedSubtotal \in Int
        BY <1>2, <1>4
    <2>2. CalculateCouponDiscount(offer.coupon, ChargedSubtotal, ChargedSubtotal + ChargedFee)
              \in 0..(ChargedSubtotal + ChargedFee)
        BY <1>3, <2>1, DiscountWithinGross
    <2>3. CalculateCouponDiscount(offer.coupon, ChargedSubtotal, ChargedSubtotal + ChargedFee)
              \in Nat
        BY <2>1, <2>2
    <2> QED BY <2>3 DEF ChargedDiscount
<1>6. Shown.cashbackRedeem \in Nat
    <2>1. ShownSubtotal \in Int /\ ShownFee \in Int
        BY ShownType
    <2> QED BY <2>1, BalanceTypes, RedeemType DEF Shown
<1> QED BY <1>2, <1>4, <1>5, <1>6

\* What the lines of a cart earn together is at most what they cost together.
LEMMA EarnedAtMost ==
    ASSUME cart \in Carts
    PROVE EarnsAtMostThePrice
<1> DEFINE line(i) == LineTotal(cart, i)
<1>1. IsFiniteSet(Items)
    BY PricesAssumption
<1>2. ASSUME NEW i \in Items
      PROVE /\ LineTotals(cart)[i] \in Nat /\ LineCashback[i] \in Nat
            /\ LineCashback[i] <= LineTotals(cart)[i]
    <2>1. line(i) \in Nat
        BY LineTotalType
    <2>2. CashbackOf[i].type \in CashbackType /\ CashbackOf[i].value \in Int
        BY PricesAssumption
    <2> HIDE DEF line
    <2>3. CashbackPendingForLine(line(i), CashbackOf[i].type, CashbackOf[i].value)
              \in 0..line(i)
        BY <2>1, <2>2, CashbackWithinLine
    <2>4. LineTotals(cart)[i] = line(i)
        BY DEF LineTotals, line
    <2>5. LineCashback[i]
            = CashbackPendingForLine(line(i), CashbackOf[i].type, CashbackOf[i].value)
        BY DEF LineCashback, line
    <2> QED BY <2>1, <2>3, <2>4, <2>5
<1>3. \A i \in Items : LineTotal(cart, i) \in Int
    BY LineTotalType
<1>4. Total(LineCashback, Items) <= Total(LineTotals(cart), Items)
    BY <1>1, <1>2, TotalAtMost
<1>5. Total(LineCashback, Items) \in Nat /\ Total(LineTotals(cart), Items) \in Nat
    BY <1>1, <1>2, TotalNat
<1>6. CashbackEarned = Total(LineCashback, Items)
    BY <1>2, CashbackIsTotal
<1>7. CartSubtotal(cart) = Total(LineTotals(cart), Items)
    BY <1>3, SubtotalIsTotal
<1> QED BY <1>4, <1>5, <1>6, <1>7 DEF EarnsAtMostThePrice

\* Whatever of the cart, the settings, the balance and the discount is missing or
\* late, the bill on the page and the one that would be charged are sums of their
\* parts, no validation answers more than the order it was asked for, and nobody
\* is paid to buy: for all products, prices, coupons and settings.
THEOREM BothBillsAddUp == Spec => []BillsSound
<1>1. TypeInv => BillsSound
    <2> SUFFICES ASSUME TypeInv PROVE BillsSound
        OBVIOUS
    <2>1. TypeOK /\ cart \in Carts /\ offer \in Offers /\ asked \in Seq(Quote)
        BY DEF TypeInv, TypeOK
    <2>2. AddsUp(Shown, balance)
        <3>1. ShownSubtotal \in Int /\ ShownFee \in Int
            BY ShownType
        <3> QED BY <3>1, BalanceTypes, TotalsAddUp DEF Shown
    <2>3. AddsUp(Charged, offer.balance)
        <3>1. /\ ChargedSubtotal \in Int /\ ChargedFee \in Int /\ ChargedDiscount \in Int
              /\ Shown.cashbackRedeem \in Int
            BY ChargedTypes
        <3> QED BY <3>1, BalanceTypes, TotalsAddUp DEF Charged
    <2>4. DiscountWithinBill
        <3>1. \A n \in DOMAIN asked : asked[n] \in Quote
            BY <2>1
        <3> QED BY <2>1, <3>1, GrantedType DEF DiscountWithinBill
    <2> QED BY <2>1, <2>2, <2>3, <2>4, EarnedAtMost DEF BillsSound, BillsAddUp
<1> QED BY <1>1, InvariantHolds, PTL

\* A second cap of the cashback to redeem finds nothing left to cap.
LEMMA CappedOnce ==
    ASSUME NEW subtotal \in Int, NEW fee \in Int, NEW discounted \in Int,
           NEW had \in Int, NEW requested \in Int
    PROVE CalculateOrderTotals(subtotal, fee, discounted, had,
              CalculateOrderTotals(subtotal, fee, discounted, had, requested).cashbackRedeem)
            = CalculateOrderTotals(subtotal, fee, discounted, had, requested)
<1> DEFINE gross == Positive(subtotal) + Positive(fee)
           coupon == Smaller(Positive(discounted), gross)
           most == Smaller(Positive(had), gross - coupon)
           redeem == Smaller(Positive(requested), most)
<1>1. /\ gross \in Nat /\ Positive(discounted) \in Nat /\ Positive(requested) \in Nat
      /\ Positive(had) \in Nat
    BY PositiveType
<1>2. coupon \in 0..gross
    BY <1>1 DEF Smaller
<1>3. most \in Nat
    BY <1>1, <1>2 DEF Smaller
<1>4. redeem \in 0..most
    BY <1>1, <1>3 DEF Smaller
<1>5. CalculateOrderTotals(subtotal, fee, discounted, had, requested)
        = Totals(gross, coupon, redeem, gross - coupon - redeem)
    BY DEF CalculateOrderTotals
<1>6. CalculateOrderTotals(subtotal, fee, discounted, had, redeem)
        = Totals(gross, coupon, Smaller(Positive(redeem), most),
                 gross - coupon - Smaller(Positive(redeem), most))
    BY DEF CalculateOrderTotals
<1> HIDE DEF gross, coupon, most, redeem
<1>7. Smaller(Positive(redeem), most) = redeem
    BY <1>3, <1>4 DEF Smaller, Positive
<1> QED BY <1>5, <1>6, <1>7 DEF Totals

\* On a visit during which nothing else reaches the page while a coupon is
\* validated, and of a cart with nothing by the gram, the customer pays what the
\* page showed and the coupon shown as applied is granted, for all products,
\* prices, coupons, settings and balances (checkout-screen, createFromCart).
THEOREM CalmVisitChargedAsShown == Spec => []CalmChargedAsShown
<1>1. TypeInv /\ Calm => CalmChargedAsShown
    <2> SUFFICES ASSUME TypeInv, Calm, pace = "calm", NothingByTheGram, Complete
                 PROVE Charged = Shown /\ (applied => ChargedDiscount = discount)
        BY DEF CalmChargedAsShown, ChargedAsShown
    <2>1. cart \in Carts /\ offer \in Offers /\ discount \in Nat /\ applied \in BOOLEAN
        BY DEF TypeInv, TypeOK
    <2>2. lines # NoCart /\ config # NoConfig
        BY <2>1, OfferType, PricesAssumption DEF Complete
    <2>3. ChargedSubtotal = ShownSubtotal
        BY <2>1, <2>2, ChargedType DEF Complete, ShownSubtotal
    <2>4. ChargedFee = ShownFee
        BY <2>2, <2>3 DEF Complete, ChargedFee, ShownFee
    <2>5. ChargedDiscount = discount
        <3>1. CASE applied
            BY <2>3, <2>4, <3>1 DEF Calm, Complete, ShownDiscount, ChargedDiscount
        <3>2. CASE ~applied
            BY <3>2 DEF Calm, ChargedDiscount
        <3> QED BY <3>1, <3>2
    <2>6. ShownSubtotal \in Int /\ ShownFee \in Int /\ balance = offer.balance
        BY ShownType DEF Complete
    <2>7. Charged = Shown
        <3> DEFINE bill(asks) == CalculateOrderTotals(ShownSubtotal, ShownFee, discount,
                                                      balance, asks)
        <3>1. Shown = bill(offer.requested)
            BY DEF Shown
        <3>2. Charged = bill(Shown.cashbackRedeem)
            BY <2>3, <2>4, <2>5, <2>6 DEF Charged
        <3>3. ASSUME NEW asks \in Int PROVE bill(bill(asks).cashbackRedeem) = bill(asks)
            <4>1. \A s, f, d, h \in Int :
                      CalculateOrderTotals(s, f, d, h,
                          CalculateOrderTotals(s, f, d, h, asks).cashbackRedeem)
                        = CalculateOrderTotals(s, f, d, h, asks)
                BY CappedOnce
            <4>2. /\ ShownSubtotal \in Int /\ ShownFee \in Int
                  /\ balance \in Int /\ discount \in Int
                BY <2>6, BalanceTypes
            <4> QED BY <4>1, <4>2
        <3>4. offer.requested \in Int
            BY BalanceTypes
        <3> HIDE DEF bill
        <3> QED BY <3>1, <3>2, <3>3, <3>4
    <2> QED BY <2>5, <2>7
<1> QED BY <1>1, InvariantHolds, PTL

\* No line of the cart, in any selling mode and against any stock, sells more
\* than there is (hasEnoughStockForMode, deductStockForMode in createFromCart).
THEOREM LinesSoldFromStock == Spec => []StockSold
<1>1. cart \in Carts => StockSold
    <2> SUFFICES ASSUME cart \in Carts, NEW i \in Items, NEW stock \in 0..MaxStock
                 PROVE SoldFromStock(stock, cart[i], ModeOf[i])
        BY DEF StockSold
    <2>1. cart[i] \in Nat /\ ModeOf[i] \in Mode /\ stock \in Nat
        BY PricesAssumption DEF Carts
    <2> QED BY <2>1, SaleTakesFromStock
<1>2. TypeInv => cart \in Carts BY DEF TypeInv, TypeOK
<1> QED BY <1>1, <1>2, InvariantHolds, PTL

-----------------------------------------------------------------------------
(* The address of an order. *)

Row == [id : Nat, at : Places, line : Lines \ {NoLine}, default : BOOLEAN]
AnyForm ==
    [mode : {"AUTO", "MANUAL"}, text : Lines, edit : BOOLEAN,
     geo : {"idle", "loading", "ok", "failed"}, coords : Places \cup {Nowhere}, line : Lines,
     picked : Nat, keep : BOOLEAN, list : SUBSET Row]
AnyMeant == [at : Places \cup {Nowhere, NoLine}, missed : BOOLEAN, reworded : BOOLEAN]
AnyAnswer ==
    {[kind |-> "load"]} \cup [kind : {"deleted"}, id : Nat, picked : BOOLEAN]
        \cup [kind : {"list"}, rows : SUBSET Row]
AnyBody ==
    [line : Lines, kept : Lines, at : Places \cup {Nowhere}, manual : BOOLEAN,
     labels : SUBSET Places, stage : {"sent", "cleared"}, keep : BOOLEAN, first : BOOLEAN,
     meant : AnyMeant]

\* Only a text that was typed is looked up, and only the one the page shows.
LookedUp ==
    /\ forward \subseteq {form.text} \ {NoLine}
    /\ forward # {} => form.mode = "MANUAL"
    /\ form.mode = "MANUAL" => form.text # Automatic

FormTyped ==
    /\ formManner \in FormManners /\ form \in AnyForm /\ meant \in AnyMeant
    /\ saved \subseteq Row /\ calls \subseteq AnyAnswer /\ placing \subseteq AnyBody
    /\ reverses \subseteq Places /\ LookedUp
    /\ locating \in 0 .. 2 /\ savedIds \in 0 .. MaxSaved /\ formActs \in Nat

\* Every row that the server or the page knows, or that is on its way.
AnyRows == saved \cup form.list \cup UNION {c.rows : c \in {d \in calls : d.kind = "list"}}

\* An id stands for one place, for good; the rows of the table have different places.
BookKept ==
    /\ \A r \in AnyRows : r.id \in 1 .. savedIds
    /\ \A r, s \in AnyRows : r.id = s.id => r.at = s.at
    /\ \A r, s \in saved : r.at = s.at => r = s
    /\ form.picked \in 0 .. savedIds

\* The one order under way can be accepted, and the row it leaves has a new place.
OrderKept ==
    /\ \A b, c \in placing : b = c
    /\ \A b \in placing :
          /\ Acceptable(b) /\ b.kept # NoLine
          /\ b.stage = "cleared" => b.at \in Places /\ \A r \in saved : r.at # b.at

\* What is looked up in a calm visit is what the page shows, and it shows what was chosen.
CalmForm ==
    /\ locating > 0 => /\ form.mode = "AUTO" /\ ~form.edit /\ form.picked = 0
                       /\ form.line = NoLine /\ reverses = {} /\ locating = 1
    /\ reverses # {} => /\ form.mode = "AUTO" /\ ~form.edit /\ reverses = {meant.at}
                        /\ form.text \in {meant.at, NoLine}
    /\ form.mode = "AUTO" /\ form.geo = "ok" /\ form.coords # Nowhere =>
          /\ form.coords = meant.at
          /\ ~meant.reworded => {form.line, form.text} \subseteq {meant.at, Automatic, NoLine}
    /\ form.mode = "MANUAL" =>
          /\ form.picked = 0
          /\ form.text # NoLine => /\ meant.at = form.text
                                   /\ forward = {} /\ ~meant.missed =>
                                         form.coords \in {meant.at, Nowhere}
    /\ \A r \in AnyRows : r.id = form.picked => r.at = meant.at

CalmBook ==
    /\ \A r, s \in saved : r.default /\ s.default => r = s
    /\ \A b \in placing : b.stage = "cleared" /\ b.first => \A r \in saved : ~r.default

FormInv ==
    /\ FormTyped /\ BookKept /\ OrderKept
    /\ formManner = "calm" => CalmForm /\ CalmBook /\ CalmAddressAgrees

\* Where a row can be known.
LEMMA RowKnown ==
  \A r : r \in AnyRows <=> \/ r \in saved \/ r \in form.list
                           \/ \E c \in calls : c.kind = "list" /\ r \in c.rows
  BY DEF AnyRows

\* No place is called like the absence of one.
LEMMA NamesApart ==
  /\ Nowhere \notin Places /\ NoLine \notin Places /\ Automatic \notin Places
  /\ Nowhere # NoLine /\ Nowhere # Automatic /\ NoLine # Automatic
  /\ MaxSaved \in Nat /\ MaxSaved # 0
<1>1. Nowhere \notin Places /\ NoLine \notin Places /\ Automatic \notin Places
  BY AddressAssumption, Zenon DEF AddressAssumption, Nowhere, NoLine, Automatic
<1>2. MaxSaved \in Nat /\ MaxSaved # 0
  BY AddressAssumption, Zenon DEF AddressAssumption
<1>3. Nowhere # NoLine /\ Nowhere # Automatic /\ NoLine # Automatic
  BY DEF Nowhere, NoLine, Automatic
<1> QED BY <1>1, <1>2, <1>3

\* Ids are counted from 1: 0 is no row's.
LEMMA IdsCounted ==
  ASSUME FormTyped, BookKept
  PROVE  savedIds \in Nat /\ 0 \in 0 .. savedIds /\ \A r \in AnyRows : r.id \in Nat /\ r.id # 0
<1>1. savedIds \in Nat
  <2>1. savedIds \in 0 .. MaxSaved /\ MaxSaved \in Nat
    BY NamesApart DEF FormTyped
  <2> QED BY <2>1
<1>2. \A r \in AnyRows : r.id \in 1 .. savedIds
  BY DEF BookKept
<1> QED BY <1>1, <1>2

\* As long as every row goes back to one with its id and place, ids stand for one place.
LEMMA BookStep ==
  ASSUME BookKept, savedIds' = savedIds, form'.picked \in 0 .. savedIds,
         \A r \in AnyRows' : \E q \in AnyRows : q.id = r.id /\ q.at = r.at,
         \A r, s \in saved' : r.at = s.at => r = s
  PROVE  BookKept'
  BY DEF BookKept

\* A step of the page alone: what the customer does, or what is looked up for him.
LEMMA PageStep ==
  ASSUME FormInv, UNCHANGED <<formManner, calls, saved, savedIds, placing>>,
         form'.list = form.list, FormTyped', form'.picked \in 0 .. savedIds,
         formManner = "calm" => CalmForm'
  PROVE  FormInv'
<1>1. AnyRows' = AnyRows
  BY RowKnown DEF AnyRows
<1>2. BookKept'
  BY <1>1, BookStep DEF FormInv, BookKept
<1>3. OrderKept'
  BY DEF FormInv, OrderKept
<1>4. formManner = "calm" => CalmBook' /\ CalmAddressAgrees'
  BY DEF FormInv, CalmBook, CalmAddressAgrees
<1> QED BY <1>2, <1>3, <1>4 DEF FormInv

\* What a new state of the form starts.
LEMMA Rendered ==
  ASSUME FormTyped, NEW f \in AnyForm, Renders(f), f.mode = "MANUAL" => f.text # Automatic
  PROVE  /\ form' = f /\ LookedUp'
         /\ forward' \subseteq {f.text} \ {NoLine}
         /\ f.mode = form.mode /\ f.text = form.text => forward' = forward
         /\ f.mode # form.mode \/ f.text # form.text =>
               forward' = IF f.mode = "MANUAL" /\ f.text # NoLine THEN {f.text} ELSE {}
  BY DEF Renders, FormTyped, LookedUp

\* A calm customer acts when nothing is on its way.
LEMMA CalmActs ==
  ASSUME Acts, FormTyped
  PROVE  /\ formManner' = formManner /\ formActs' \in Nat
         /\ formManner = "calm" => /\ locating = 0 /\ reverses = {} /\ forward = {}
                                   /\ calls = {} /\ placing = {}
  BY DEF Acts, Quiet, FormTyped, NoBody

\* A new mode begins with an empty form.
LEMMA PickModeKept ==
  ASSUME FormInv, NEW mode \in {"AUTO", "MANUAL"}, PickMode(mode)
  PROVE  FormInv'
<1> DEFINE f == [EmptyForm EXCEPT !.mode = mode, !.keep = form.keep, !.list = form.list]
<1> USE NamesApart
<1>1. FormTyped /\ Acts /\ Renders(f) /\ UNCHANGED <<locating, reverses, calls, saved, savedIds, placing>>
      /\ meant' = [at |-> Nowhere, missed |-> FALSE, reworded |-> FALSE]
  BY DEF PickMode, Means, FormInv
<1>2. /\ f.mode = mode /\ f.text = NoLine /\ f.edit = FALSE /\ f.geo = "idle"
      /\ f.coords = Nowhere /\ f.line = NoLine /\ f.picked = 0 /\ f.list = form.list
      /\ f \in AnyForm
  BY <1>1 DEF EmptyForm, FormTyped, AnyForm, Lines
<1> HIDE DEF f
<1>3. form' = f /\ LookedUp' /\ forward' \subseteq {NoLine} \ {NoLine}
  BY <1>1, <1>2, Rendered, NamesApart DEF FormTyped, LookedUp
<1>4. FormTyped'
  BY <1>1, <1>2, <1>3, CalmActs DEF FormTyped, AnyMeant
<1>5. formManner = "calm" => CalmForm'
  <2> SUFFICES ASSUME formManner = "calm" PROVE CalmForm'
    OBVIOUS
  <2>1. \A r \in AnyRows' : r.id # 0
    <3>1. AnyRows' = AnyRows
      BY <1>1, <1>2, <1>3 DEF AnyRows
    <3> QED BY <3>1, IdsCounted DEF FormInv
  <2>2. locating' = 0 /\ reverses' = {} /\ forward' = {}
    BY <1>1, <1>3, CalmActs
  <2> QED BY <1>1, <1>2, <1>3, <2>1, <2>2 DEF CalmForm
<1> QED BY <1>1, <1>2, <1>3, <1>4, <1>5, PageStep, IdsCounted DEF FormInv, Acts

\* The looked-up name of a place may come, or the position may fail, at any time; in a calm
\* visit only what the customer asked for last is looked up.
LEMMA RequestLocationKept ==
  ASSUME FormInv, RequestLocation
  PROVE  FormInv'
<1> DEFINE f == [form EXCEPT !.picked = 0, !.edit = FALSE, !.geo = "loading", !.line = NoLine]
<1>1. /\ FormTyped /\ Acts /\ Renders(f) /\ form.mode = "AUTO" /\ locating < 2
      /\ locating' = locating + 1
      /\ UNCHANGED <<reverses, calls, saved, savedIds, placing, meant>>
  BY DEF RequestLocation, FormInv
<1>2. /\ f.mode = "AUTO" /\ f.text = form.text /\ f.edit = FALSE /\ f.geo = "loading"
      /\ f.coords = form.coords /\ f.line = NoLine /\ f.picked = 0 /\ f.list = form.list
      /\ f \in AnyForm
  BY <1>1 DEF FormTyped, AnyForm, Lines
<1> HIDE DEF f
<1>3. form' = f /\ LookedUp' /\ forward' = forward
  BY <1>1, <1>2, Rendered, NamesApart DEF FormTyped, LookedUp
<1>4. FormTyped'
  BY <1>1, <1>2, <1>3, CalmActs DEF FormTyped
<1>5. formManner = "calm" => CalmForm'
  <2> SUFFICES ASSUME formManner = "calm" PROVE CalmForm'
    OBVIOUS
  <2>1. \A r \in AnyRows' : r.id # 0
    <3>1. AnyRows' = AnyRows
      BY <1>1, <1>2, <1>3 DEF AnyRows
    <3> QED BY <3>1, IdsCounted DEF FormInv
  <2>2. locating' = 1 /\ reverses' = {} /\ forward' = {}
    BY <1>1, <1>3, CalmActs
  <2> QED BY <1>1, <1>2, <1>3, <2>1, <2>2 DEF CalmForm
<1> QED BY <1>1, <1>2, <1>3, <1>4, <1>5, PageStep, IdsCounted DEF FormInv, Acts

\* A position replaces whatever the form shows; a calm customer asked for it.
LEMMA PositionArrivesKept ==
  ASSUME FormInv, NEW p \in Places, PositionArrives(p)
  PROVE  FormInv'
<1> DEFINE f == [form EXCEPT !.coords = p, !.geo = "ok",
                             !.text = IF form.edit THEN form.text ELSE NoLine]
<1>1. /\ FormTyped /\ Renders(f) /\ locating > 0 /\ locating' = locating - 1
      /\ reverses' = reverses \cup {p}
      /\ meant' = [at |-> p, missed |-> FALSE, reworded |-> FALSE]
      /\ UNCHANGED <<formManner, calls, saved, savedIds, placing, formActs>>
  BY DEF PositionArrives, Means, FormInv
<1>2. /\ f.mode = form.mode /\ f.text = (IF form.edit THEN form.text ELSE NoLine)
      /\ f.edit = form.edit /\ f.geo = "ok" /\ f.coords = p /\ f.line = form.line
      /\ f.picked = form.picked /\ f.list = form.list
      /\ f \in AnyForm
  BY <1>1 DEF FormTyped, AnyForm, Lines
<1> HIDE DEF f
<1>3. form' = f /\ LookedUp' /\ forward' \subseteq {f.text} \ {NoLine}
  BY <1>1, <1>2, Rendered, NamesApart DEF FormTyped, LookedUp
<1>4. FormTyped'
  BY <1>1, <1>2, <1>3 DEF FormTyped, AnyMeant
<1>5. formManner = "calm" => CalmForm'
  <2> SUFFICES ASSUME formManner = "calm" PROVE CalmForm'
    OBVIOUS
  <2>1. \A r \in AnyRows' : r.id # 0
    <3>1. AnyRows' = AnyRows
      BY <1>1, <1>2, <1>3 DEF AnyRows
    <3> QED BY <3>1, IdsCounted DEF FormInv
  <2>2. /\ form.mode = "AUTO" /\ ~form.edit /\ form.picked = 0 /\ form.line = NoLine
        /\ reverses = {} /\ locating = 1
    BY <1>1 DEF FormInv, CalmForm
  <2>3. locating' = 0 /\ reverses' = {p} /\ forward' = {}
    BY <1>1, <1>2, <1>3, <2>2
  <2> QED BY <1>1, <1>2, <1>3, <2>1, <2>2, <2>3 DEF CalmForm
<1> QED BY <1>1, <1>2, <1>3, <1>4, <1>5, PageStep DEF FormInv, BookKept

\* Without a position the form is not ready.
LEMMA PositionFailsKept ==
  ASSUME FormInv, PositionFails
  PROVE  FormInv'
<1> DEFINE f == [form EXCEPT !.coords = Nowhere, !.geo = "failed", !.line = NoLine]
<1>1. /\ FormTyped /\ Renders(f) /\ locating > 0 /\ locating' = locating - 1
      /\ UNCHANGED <<formManner, reverses, calls, saved, savedIds, placing, meant, formActs>>
  BY DEF PositionFails, FormInv
<1>2. /\ f.mode = form.mode /\ f.text = form.text
      /\ f.edit = form.edit /\ f.geo = "failed" /\ f.coords = Nowhere /\ f.line = NoLine
      /\ f.picked = form.picked /\ f.list = form.list
      /\ f \in AnyForm
  BY <1>1 DEF FormTyped, AnyForm, Lines
<1> HIDE DEF f
<1>3. form' = f /\ LookedUp' /\ forward' = forward
  BY <1>1, <1>2, Rendered, NamesApart DEF FormTyped, LookedUp
<1>4. FormTyped'
  BY <1>1, <1>2, <1>3 DEF FormTyped
<1>5. formManner = "calm" => CalmForm'
  <2> SUFFICES ASSUME formManner = "calm" PROVE CalmForm'
    OBVIOUS
  <2>1. \A r \in AnyRows' : r.id # 0
    <3>1. AnyRows' = AnyRows
      BY <1>1, <1>2, <1>3 DEF AnyRows
    <3> QED BY <3>1, IdsCounted DEF FormInv
  <2>2. form.mode = "AUTO" /\ form.picked = 0 /\ reverses = {} /\ locating = 1 /\ CalmForm
    BY <1>1 DEF FormInv, CalmForm
  <2>3. locating' = 0 /\ reverses' = {} /\ forward' = {}
    BY <1>1, <1>3, <2>2 DEF FormTyped, LookedUp
  <2> QED BY <1>1, <1>2, <1>3, <2>1, <2>2, <2>3 DEF CalmForm
<1> QED BY <1>1, <1>2, <1>3, <1>4, <1>5, PageStep DEF FormInv, BookKept

\* The name of a position arrives; in a calm visit it is the one shown.
LEMMA ReverseArrivesKept ==
  ASSUME FormInv, NEW p \in Places, NEW l \in {p, NoLine}, ReverseArrives(p, l)
  PROVE  FormInv'
<1> DEFINE f == [form EXCEPT !.line = l,
                             !.text = IF form.edit \/ l = NoLine THEN form.text ELSE l]
<1>1. /\ FormTyped /\ Renders(f) /\ p \in reverses /\ reverses' = reverses \ {p}
      /\ UNCHANGED <<formManner, locating, calls, saved, savedIds, placing, meant, formActs>>
  BY DEF ReverseArrives, FormInv
<1>2. /\ f.mode = form.mode /\ f.text = (IF form.edit \/ l = NoLine THEN form.text ELSE l)
      /\ f.edit = form.edit /\ f.geo = form.geo /\ f.coords = form.coords /\ f.line = l
      /\ f.picked = form.picked /\ f.list = form.list
      /\ f \in AnyForm
  BY <1>1 DEF FormTyped, AnyForm, Lines
<1> HIDE DEF f
<1>3. /\ form' = f /\ LookedUp' /\ forward' \subseteq {f.text} \ {NoLine}
      /\ f.mode = form.mode /\ f.text = form.text => forward' = forward
      /\ f.mode # form.mode \/ f.text # form.text =>
            forward' = IF f.mode = "MANUAL" /\ f.text # NoLine THEN {f.text} ELSE {}
  BY <1>1, <1>2, Rendered, NamesApart DEF FormTyped, LookedUp
<1>4. FormTyped'
  BY <1>1, <1>2, <1>3 DEF FormTyped
<1>5. formManner = "calm" => CalmForm'
  <2> SUFFICES ASSUME formManner = "calm" PROVE CalmForm'
    OBVIOUS
  <2>1. CalmForm /\ AnyRows' = AnyRows
    BY <1>1, <1>2, <1>3 DEF AnyRows, FormInv
  <2>2. form.mode = "AUTO" /\ ~form.edit /\ p = meant.at /\ reverses = {p}
        /\ form.text \in {p, NoLine} /\ ~(locating > 0) /\ forward = {}
    BY <1>1, <2>1 DEF CalmForm, FormTyped, LookedUp
  <2>3. reverses' = {} /\ forward' = {}
    BY <1>1, <1>2, <1>3, <2>2
  <2> QED BY <1>1, <1>2, <1>3, <2>1, <2>2, <2>3 DEF CalmForm
<1> QED BY <1>1, <1>2, <1>3, <1>4, <1>5, PageStep DEF FormInv, BookKept

\* The text that is looked up is the one shown, found or not.
LEMMA ForwardArrivesKept ==
  ASSUME FormInv, NEW found \in BOOLEAN, NEW l \in forward \cup {NoLine},
         ForwardArrives(found, l)
  PROVE  FormInv'
<1>1. /\ FormTyped /\ forward = {form.text} /\ form.text # NoLine /\ forward' = {}
      /\ UNCHANGED <<formManner, locating, reverses, calls, saved, savedIds, placing, formActs>>
  BY DEF ForwardArrives, FormInv, FormTyped, LookedUp
<1>2. /\ form' = IF found THEN [form EXCEPT !.coords = form.text, !.line = l] ELSE form
      /\ meant' = [meant EXCEPT !.missed = ~found /\ form.coords # Nowhere]
  BY <1>1 DEF ForwardArrives
<1>3. meant'.at = meant.at /\ (meant'.missed <=> ~found /\ form.coords # Nowhere)
      /\ meant' \in AnyMeant
  BY <1>1, <1>2 DEF FormTyped, AnyMeant
<1>4. /\ form'.mode = "MANUAL" /\ form'.mode = form.mode /\ form'.text = form.text
      /\ form'.picked = form.picked /\ form'.list = form.list /\ form' \in AnyForm
      /\ form'.coords = IF found THEN form.text ELSE form.coords
      /\ form'.edit = form.edit
  <2>1. form.mode = "MANUAL" /\ form.text \in Places
    BY <1>1, NamesApart DEF FormTyped, LookedUp, AnyForm, Lines
  <2>2. l \in Lines
    BY <1>1, <2>1 DEF Lines
  <2> QED BY <1>1, <1>2, <2>1, <2>2 DEF FormTyped, AnyForm
<1>5. FormTyped'
  BY <1>1, <1>3, <1>4 DEF FormTyped, LookedUp
<1>6. formManner = "calm" => CalmForm'
  <2> SUFFICES ASSUME formManner = "calm" PROVE CalmForm'
    OBVIOUS
  <2>1. CalmForm /\ AnyRows' = AnyRows
    BY <1>1, <1>4 DEF AnyRows, FormInv
  <2>2. ~(locating > 0) /\ reverses = {} /\ form.picked = 0 /\ meant.at = form.text
    BY <1>1, <1>4, <2>1 DEF CalmForm
  <2>3. ~(locating > 0)' /\ reverses' = {}
    BY <1>1, <2>2
  <2> QED BY <1>1, <1>3, <1>4, <2>1, <2>2, <2>3 DEF CalmForm
<1> QED BY <1>1, <1>4, <1>5, <1>6, PageStep DEF FormInv, BookKept

\* A typed text is looked up if it is new, and means its place if nothing was located.
LEMMA TypeKept ==
  ASSUME FormInv, NEW t \in Places \cup {NoLine}, Type(t)
  PROVE  FormInv'
<1> DEFINE f == [form EXCEPT !.text = t, !.picked = 0]
<1>1. /\ FormTyped /\ Acts /\ Renders(f) /\ (form.mode = "MANUAL" \/ form.edit)
      /\ meant' = IF form.mode = "MANUAL" THEN [meant EXCEPT !.at = t]
                  ELSE [meant EXCEPT !.reworded = TRUE]
      /\ UNCHANGED <<locating, reverses, calls, saved, savedIds, placing>>
  BY DEF Type, FormInv
<1>2. /\ f.mode = form.mode /\ f.text = t /\ f.edit = form.edit /\ f.geo = form.geo
      /\ f.coords = form.coords /\ f.line = form.line /\ f.picked = 0 /\ f.list = form.list
      /\ f \in AnyForm /\ t # Automatic
  BY <1>1, NamesApart DEF FormTyped, AnyForm, Lines
<1> HIDE DEF f
<1>3. /\ form' = f /\ LookedUp'
      /\ f.mode = form.mode /\ f.text = form.text => forward' = forward
      /\ f.mode # form.mode \/ f.text # form.text =>
            forward' = IF f.mode = "MANUAL" /\ f.text # NoLine THEN {f.text} ELSE {}
  BY <1>1, <1>2, Rendered
<1>4. /\ form.mode = "MANUAL" => meant'.at = t /\ (meant'.missed <=> meant.missed)
      /\ form.mode # "MANUAL" => meant'.at = meant.at /\ meant'.reworded
      /\ meant' \in AnyMeant
  BY <1>1 DEF FormTyped, AnyMeant
<1>5. FormTyped'
  BY <1>1, <1>2, <1>3, <1>4, CalmActs DEF FormTyped
<1>6. formManner = "calm" => CalmForm'
  <2> SUFFICES ASSUME formManner = "calm" PROVE CalmForm'
    OBVIOUS
  <2>1. CalmForm /\ AnyRows' = AnyRows /\ locating' = 0 /\ reverses' = {} /\ forward = {}
    BY <1>1, <1>2, <1>3, CalmActs DEF AnyRows, FormInv
  <2>2. \A r \in AnyRows : r.id # 0
    BY IdsCounted DEF FormInv
  <2>3. form.mode \in {"AUTO", "MANUAL"}
    BY <1>1 DEF FormTyped, AnyForm
  <2>4. CASE form.mode = "MANUAL"
    <3>1. t # NoLine /\ forward' = {} /\ ~meant'.missed => form'.coords \in {t, Nowhere}
      <4> SUFFICES ASSUME t # NoLine, forward' = {}, ~meant'.missed
                   PROVE  form'.coords \in {t, Nowhere}
        OBVIOUS
      <4>1. t = form.text
        BY <1>2, <1>3, <2>4
      <4> QED BY <1>2, <1>3, <1>4, <2>1, <2>4, <4>1 DEF CalmForm
    <3> QED BY <1>2, <1>3, <1>4, <2>1, <2>2, <2>4, <3>1 DEF CalmForm
  <2>5. CASE form.mode = "AUTO"
    BY <1>2, <1>3, <1>4, <2>1, <2>2, <2>5 DEF CalmForm
  <2> QED BY <2>3, <2>4, <2>5
<1> QED BY <1>1, <1>2, <1>3, <1>5, <1>6, PageStep, IdsCounted DEF FormInv, Acts

\* Neither edit nor keep changes what is meant.
LEMMA TogglesKept ==
  ASSUME FormInv, ToggleEdit \/ ToggleKeep
  PROVE  FormInv'
<1> DEFINE f == IF ToggleEdit THEN [form EXCEPT !.edit = ~form.edit]
                ELSE [form EXCEPT !.keep = ~form.keep]
<1>1. /\ FormTyped /\ Acts /\ Renders(f) /\ form.mode = "AUTO"
      /\ UNCHANGED <<locating, reverses, calls, saved, savedIds, placing, meant>>
  BY DEF ToggleEdit, ToggleKeep, FormInv
<1>2. /\ f.mode = form.mode /\ f.text = form.text /\ f.geo = form.geo
      /\ f.coords = form.coords /\ f.line = form.line /\ f.picked = form.picked
      /\ f.list = form.list /\ f \in AnyForm
  BY <1>1 DEF FormTyped, AnyForm, Lines
<1> HIDE DEF f
<1>3. form' = f /\ LookedUp' /\ forward' = forward
  BY <1>1, <1>2, Rendered
<1>4. FormTyped'
  BY <1>1, <1>2, <1>3, CalmActs DEF FormTyped
<1>5. formManner = "calm" => CalmForm'
  <2> SUFFICES ASSUME formManner = "calm" PROVE CalmForm'
    OBVIOUS
  <2>1. CalmForm /\ AnyRows' = AnyRows /\ locating' = 0 /\ reverses' = {} /\ forward' = {}
    BY <1>1, <1>2, <1>3, CalmActs DEF AnyRows, FormInv
  <2> QED BY <1>1, <1>2, <1>3, <2>1 DEF CalmForm
<1> QED BY <1>1, <1>2, <1>3, <1>4, <1>5, PageStep DEF FormInv, BookKept, Acts

\* A saved address is a place, a line and a label that belong together.
LEMMA ApplySavedAddressKept ==
  ASSUME FormInv, NEW r \in form.list, ApplySavedAddress(r)
  PROVE  FormInv'
<1> DEFINE f == Applied(r)
<1>1. /\ FormTyped /\ Acts /\ Renders(f) /\ r \in Row /\ r \in AnyRows
      /\ meant' = [at |-> r.at, missed |-> FALSE,
                   reworded |-> r.line \notin {r.at, Automatic}]
      /\ UNCHANGED <<locating, reverses, calls, saved, savedIds, placing>>
  BY DEF ApplySavedAddress, FormInv, FormTyped, AnyForm, AnyRows
<1>2. /\ f.mode = "AUTO" /\ f.text = r.line /\ f.geo = "ok" /\ f.coords = r.at
      /\ f.line = r.line /\ f.picked = r.id /\ f.list = form.list /\ f \in AnyForm
      /\ f.edit = FALSE
  BY <1>1 DEF Applied, FormTyped, AnyForm, Lines, Row
<1> HIDE DEF f
<1>3. form' = f /\ LookedUp'
  BY <1>1, <1>2, Rendered
<1>4. meant'.at = r.at /\ (meant'.reworded <=> r.line \notin {r.at, Automatic})
      /\ meant' \in AnyMeant
  BY <1>1 DEF AnyMeant, Row
<1>5. FormTyped'
  BY <1>1, <1>2, <1>3, <1>4, CalmActs DEF FormTyped
<1>6. AnyRows' = AnyRows
  BY <1>1, <1>2, <1>3 DEF AnyRows
<1>7. formManner = "calm" => CalmForm'
  <2> SUFFICES ASSUME formManner = "calm" PROVE CalmForm'
    OBVIOUS
  <2>1. locating' = 0 /\ reverses' = {}
    BY <1>1, CalmActs
  <2>2. \A q \in AnyRows : q.id = r.id => q.at = r.at
    BY <1>1 DEF FormInv, BookKept
  <2> QED BY <1>2, <1>3, <1>4, <1>6, <2>1, <2>2 DEF CalmForm
<1>8. r.id \in 0 .. savedIds
  <2>1. r.id \in 1 .. savedIds /\ savedIds \in Nat
    BY <1>1, IdsCounted DEF FormInv, BookKept
  <2> QED BY <2>1
<1> QED BY <1>1, <1>2, <1>3, <1>5, <1>7, <1>8, PageStep DEF FormInv, Acts

\* A step of the address book that makes no row.
LEMMA ListStep ==
  ASSUME FormInv, FormTyped', AnyRows' \subseteq AnyRows, saved' \subseteq saved,
         UNCHANGED <<formManner, savedIds, placing, meant, locating, reverses, forward>>,
         form'.mode = form.mode, form'.text = form.text, form'.edit = form.edit,
         form'.geo = form.geo, form'.coords = form.coords, form'.line = form.line,
         form'.picked \in {form.picked, 0}
  PROVE  FormInv'
<1>1. savedIds \in Nat /\ \A r \in AnyRows : r.id # 0
  BY IdsCounted DEF FormInv
<1>2. BookKept'
  <2>1. form'.picked \in 0 .. savedIds
    BY <1>1 DEF FormInv, BookKept
  <2>2. \A r, s \in saved' : r.at = s.at => r = s
    BY DEF FormInv, BookKept
  <2> QED BY <2>1, <2>2, BookStep DEF FormInv
<1>3. OrderKept'
  BY DEF FormInv, OrderKept
<1>4. formManner = "calm" => CalmForm'
  <2> SUFFICES ASSUME formManner = "calm" PROVE CalmForm'
    OBVIOUS
  <2>1. CalmForm
    BY DEF FormInv
  <2>2. \A r \in AnyRows' : r.id = form'.picked => r.at = meant'.at
    BY <1>1, <2>1 DEF CalmForm
  <2> QED BY <2>1, <2>2 DEF CalmForm
<1>5. formManner = "calm" => CalmBook' /\ CalmAddressAgrees'
  BY DEF FormInv, CalmBook, CalmAddressAgrees
<1> QED BY <1>2, <1>3, <1>4, <1>5 DEF FormInv

\* Lists of addresses arrive, and answers to deletions.
LEMMA ListsKept ==
  ASSUME FormInv,
         \/ \E list \in {saved, {}} : LoadArrives(list)
         \/ \E c \in calls : DeleteAnswered(c) \/ ListArrives(c)
  PROVE  FormInv'
<1>1. /\ FormTyped /\ calls' \subseteq calls
      /\ UNCHANGED <<formManner, savedIds, placing, meant, locating, reverses, forward, saved,
                     formActs>>
  BY DEF LoadArrives, DeleteAnswered, ListArrives, FormInv
<1>2. PICK list \in SUBSET Row, picked \in {form.picked, 0} :
         /\ form' = [form EXCEPT !.list = list, !.picked = picked]
         /\ list \subseteq AnyRows
  <2>1. ASSUME NEW list \in {saved, {}}, LoadArrives(list)
        PROVE  /\ form' = [form EXCEPT !.list = list, !.picked = form.picked]
               /\ list \subseteq AnyRows /\ list \in SUBSET Row
    BY <1>1, <2>1 DEF LoadArrives, AnyRows, FormTyped, AnyForm
  <2>2. ASSUME NEW c \in calls, DeleteAnswered(c)
        PROVE  form' = [form EXCEPT !.list = {s \in form.list : s.id # c.id},
                                    !.picked = IF c.picked THEN 0 ELSE form.picked]
    BY <2>2 DEF DeleteAnswered
  <2>3. ASSUME NEW c \in calls, ListArrives(c)
        PROVE  /\ form' = [form EXCEPT !.list = c.rows, !.picked = form.picked]
               /\ c.rows \subseteq AnyRows /\ c.rows \in SUBSET Row
    <3>1. form' = [form EXCEPT !.list = c.rows] /\ c.kind = "list"
      BY <2>3 DEF ListArrives
    <3>2. form' = [form EXCEPT !.list = c.rows, !.picked = form.picked]
      BY <1>1, <3>1 DEF FormTyped, AnyForm
    <3>3. c.rows \in SUBSET Row
      BY <1>1, <3>1 DEF FormTyped, AnyAnswer
    <3> QED BY <3>1, <3>2, <3>3, RowKnown
  <2>4. form.list \in SUBSET Row /\ form.list \subseteq AnyRows
    BY <1>1 DEF FormTyped, AnyForm, AnyRows
  <2>5. CASE \E list \in {saved, {}} : LoadArrives(list)
    BY <2>1, <2>5
  <2>6. CASE \E c \in calls : ListArrives(c)
    BY <2>3, <2>6
  <2>7. CASE \E c \in calls : DeleteAnswered(c)
    <3>1. PICK c \in calls : DeleteAnswered(c)
      BY <2>7
    <3> DEFINE list == {s \in form.list : s.id # c.id}
               picked == IF c.picked THEN 0 ELSE form.picked
    <3>2. list \in SUBSET Row /\ list \subseteq AnyRows /\ picked \in {form.picked, 0}
      BY <2>4
    <3>3. form' = [form EXCEPT !.list = list, !.picked = picked]
      BY <2>2, <3>1
    <3> HIDE DEF list, picked
    <3> QED BY <3>2, <3>3
  <2> QED BY <2>5, <2>6, <2>7
<1>3. /\ form' \in AnyForm /\ form'.list = list /\ form'.picked = picked
      /\ form'.mode = form.mode /\ form'.text = form.text /\ form'.edit = form.edit
      /\ form'.geo = form.geo /\ form'.coords = form.coords /\ form'.line = form.line
  <2>1. form \in AnyForm /\ picked \in Nat
    BY <1>1 DEF FormTyped, AnyForm
  <2> QED BY <1>2, <2>1 DEF AnyForm
<1>4. FormTyped'
  BY <1>1, <1>3 DEF FormTyped, LookedUp
<1>5. AnyRows' \subseteq AnyRows
  BY <1>1, <1>2, <1>3 DEF AnyRows
<1> QED BY <1>1, <1>3, <1>4, <1>5, ListStep

\* A row is deleted.
LEMMA DeleteSavedAddressKept ==
  ASSUME FormInv, NEW r \in form.list, DeleteSavedAddress(r)
  PROVE  FormInv'
<1>1. /\ FormTyped /\ Acts /\ saved' \subseteq saved /\ r \in Row
      /\ UNCHANGED <<form, locating, reverses, forward, savedIds, placing, meant>>
      /\ calls' \subseteq calls \cup {[kind |-> "deleted", id |-> r.id,
                                       picked |-> form.picked = r.id]}
  BY DEF DeleteSavedAddress, FormInv, FormTyped, AnyForm
<1>2. [kind |-> "deleted", id |-> r.id, picked |-> form.picked = r.id] \in AnyAnswer
  BY <1>1 DEF AnyAnswer, Row
<1>3. FormTyped'
  BY <1>1, <1>2, CalmActs DEF FormTyped, LookedUp
<1>4. AnyRows' \subseteq AnyRows
  BY <1>1 DEF AnyRows
<1> QED BY <1>1, <1>3, <1>4, ListStep, CalmActs

\* One row becomes the default, and only that one.
LEMMA SetDefaultKept ==
  ASSUME FormInv, NEW r \in form.list, SetDefaultSavedAddress(r)
  PROVE  FormInv'
<1>1. /\ FormTyped /\ Acts /\ BookKept /\ OrderKept
      /\ saved' = {[s EXCEPT !.default = s.id = r.id] : s \in saved}
      /\ calls' = calls \cup {[kind |-> "list", rows |-> saved']}
      /\ UNCHANGED <<form, locating, reverses, forward, savedIds, placing, meant>>
  BY DEF SetDefaultSavedAddress, FormInv
<1>2. \A q \in saved' : \E s \in saved : /\ q = [s EXCEPT !.default = s.id = r.id]
                                         /\ q.id = s.id /\ q.at = s.at /\ q \in Row
                                         /\ q.default <=> s.id = r.id
  <2> SUFFICES ASSUME NEW q \in saved'
               PROVE  \E s \in saved : /\ q = [s EXCEPT !.default = s.id = r.id]
                                       /\ q.id = s.id /\ q.at = s.at /\ q \in Row
                                       /\ q.default <=> s.id = r.id
    OBVIOUS
  <2>1. PICK s \in saved : q = [s EXCEPT !.default = s.id = r.id]
    BY <1>1
  <2>2. s \in Row
    BY <1>1 DEF FormTyped
  <2>3. q.id = s.id /\ q.at = s.at /\ q \in Row /\ (q.default <=> s.id = r.id)
    BY <2>1, <2>2 DEF Row
  <2> QED BY <2>1, <2>3
<1>3. saved' \subseteq Row
  BY <1>2
<1>4. [kind |-> "list", rows |-> saved'] \in AnyAnswer
  BY <1>3 DEF AnyAnswer
<1>5. FormTyped'
  BY <1>1, <1>3, <1>4, CalmActs DEF FormTyped, LookedUp
<1>6. \A q \in AnyRows' : \E s \in AnyRows : s.id = q.id /\ s.at = q.at
  <2>1. \A q : q \in AnyRows' => q \in saved' \/ q \in AnyRows
    BY <1>1 DEF AnyRows
  <2>2. saved \subseteq AnyRows
    BY DEF AnyRows
  <2> QED BY <1>2, <2>1, <2>2
<1>7. BookKept'
  <2>1. \A p, q \in saved' : p.at = q.at => p = q
    BY <1>1, <1>2 DEF BookKept
  <2> QED BY <1>1, <1>6, <2>1, BookStep DEF BookKept
<1>8. OrderKept'
  BY <1>1, <1>2 DEF OrderKept
<1>9. formManner = "calm" => CalmForm' /\ CalmBook' /\ CalmAddressAgrees'
  <2> SUFFICES ASSUME formManner = "calm" PROVE CalmForm' /\ CalmBook' /\ CalmAddressAgrees'
    OBVIOUS
  <2>1. CalmForm /\ CalmBook /\ placing' = {}
    BY <1>1, CalmActs DEF FormInv
  <2>2. \A q \in AnyRows' : q.id = form'.picked => q.at = meant'.at
    BY <1>1, <1>6, <2>1 DEF CalmForm
  <2>3. CalmForm'
    BY <1>1, <2>1, <2>2 DEF CalmForm
  <2>4. saved \subseteq AnyRows
    BY DEF AnyRows
  <2>5. \A p, q \in saved' : p.default /\ q.default => p = q
    BY <1>1, <1>2, <2>4 DEF BookKept
  <2> QED BY <2>1, <2>3, <2>5 DEF CalmBook, CalmAddressAgrees
<1> QED BY <1>1, <1>5, <1>7, <1>8, <1>9, CalmActs DEF FormInv

-----------------------------------------------------------------------------

\* What the order takes from the page is what the page shows, whole and acceptable.
LEMMA BodyTaken ==
  ASSUME FormTyped, AddressReady
  PROVE  /\ Body \in AnyBody /\ Acceptable(Body) /\ Body.kept # NoLine /\ Body.stage = "sent"
         /\ Body.at = form.coords /\ Body.meant = meant
         /\ form.mode = "MANUAL" => Body.line = form.text
         /\ form.mode = "AUTO" => Body.line = FoundLine
         /\ \A p \in Body.labels : \E r \in form.list : r.id = form.picked /\ r.at = p
<1> USE NamesApart
<1>1. /\ form \in AnyForm /\ form.mode \in {"AUTO", "MANUAL"} /\ form.coords \in Places \cup {Nowhere}
      /\ form.text \in Lines /\ form.line \in Lines /\ form.keep \in BOOLEAN
      /\ form.list \subseteq Row /\ meant \in AnyMeant
  BY DEF FormTyped, AnyForm
<1>2. FoundLine \in Lines \ {NoLine}
  BY <1>1 DEF FoundLine, Lines
<1>3. StreetLine \in Lines \ {NoLine}
  BY <1>1, <1>2 DEF StreetLine, AddressReady
<1> DEFINE labels == {r.at : r \in {s \in form.list : s.id = form.picked}}
<1>4. labels \subseteq Places /\ \A p \in labels : \E r \in form.list :
          r.id = form.picked /\ r.at = p
  BY <1>1 DEF Row
<1>5. /\ Body.line = StreetLine /\ Body.kept = FoundLine /\ Body.at = form.coords
      /\ Body.manual = (form.mode = "MANUAL" /\ form.coords = Nowhere)
      /\ Body.labels = labels /\ Body.stage = "sent" /\ Body.keep = form.keep
      /\ Body.first = (form.list = {}) /\ Body.meant = meant
  BY DEF Body
<1>6. Body \in AnyBody
  <2>1. (form.mode = "MANUAL" /\ form.coords = Nowhere) \in BOOLEAN
        /\ (form.list = {}) \in BOOLEAN
    OBVIOUS
  <2> QED BY <1>1, <1>2, <1>3, <1>4, <2>1 DEF Body, AnyBody
<1>7. Acceptable(Body)
  <2>1. Body.line # NoLine
    BY <1>3, <1>5
  <2>2. Body.at # Nowhere \/ Body.manual
    <3>1. CASE form.coords # Nowhere
      BY <3>1, <1>5
    <3>2. CASE form.coords = Nowhere
      <4>1. form.mode = "MANUAL"
        BY <1>1, <3>2 DEF AddressReady
      <4>2. Body.manual = TRUE
        BY <1>5, <3>2, <4>1
      <4> QED BY <4>2
    <3> QED BY <3>1, <3>2
  <2> QED BY <2>1, <2>2 DEF Acceptable
<1>8. /\ form.mode = "MANUAL" => Body.line = form.text
      /\ form.mode = "AUTO" => Body.line = FoundLine
  BY <1>5 DEF StreetLine
<1> HIDE DEF labels
<1> QED BY <1>2, <1>4, <1>5, <1>6, <1>7, <1>8

\* The form stays as it is, and no row gets another place.
LEMMA FormStays ==
  ASSUME CalmForm, UNCHANGED <<form, meant, locating, reverses, forward>>,
         \A r \in AnyRows' : r.id = form.picked => r.at = meant.at
  PROVE  CalmForm'
  BY DEF CalmForm

\* The order takes over what the form shows.
LEMMA PlaceOrderKept ==
  ASSUME FormInv, PlaceOrder
  PROVE  FormInv'
<1>1. /\ FormTyped /\ Acts /\ AddressReady /\ placing' = {Body}
      /\ UNCHANGED <<form, locating, reverses, forward, calls, saved, savedIds, meant>>
  BY DEF PlaceOrder, FormInv
<1> DEFINE b == Body
<1>2. /\ b \in AnyBody /\ Acceptable(b) /\ b.kept # NoLine /\ b.stage = "sent"
      /\ b.at = form.coords /\ b.meant = meant
      /\ form.mode = "MANUAL" => b.line = form.text
      /\ form.mode = "AUTO" => b.line = FoundLine
      /\ \A p \in b.labels : \E r \in form.list : r.id = form.picked /\ r.at = p
  BY <1>1, BodyTaken
<1> HIDE DEF b
<1>3. placing' = {b} /\ AnyRows' = AnyRows
  BY <1>1 DEF b, AnyRows
<1>4. FormTyped'
  BY <1>1, <1>2, <1>3, CalmActs DEF FormTyped, LookedUp
<1>5. BookKept'
  BY <1>1, <1>3, BookStep DEF FormInv, BookKept
<1>6. OrderKept'
  BY <1>2, <1>3 DEF OrderKept, Acceptable
<1>7. formManner = "calm" => CalmForm' /\ CalmBook' /\ CalmAddressAgrees'
  <2> SUFFICES ASSUME formManner = "calm" PROVE CalmForm' /\ CalmBook' /\ CalmAddressAgrees'
    OBVIOUS
  <2>1. CalmForm /\ CalmBook /\ forward = {}
    BY <1>1, CalmActs DEF FormInv
  <2>2. CalmForm'
    BY <1>1, <1>3, <2>1, FormStays DEF CalmForm
  <2>3. CalmBook'
    BY <1>1, <1>2, <1>3, <2>1 DEF CalmBook
  <2>4. CalmAddressAgrees'
    <3> SUFFICES ASSUME ~b.meant.missed
                 PROVE  /\ b.at \in {b.meant.at, Nowhere}
                        /\ b.labels \subseteq {b.meant.at}
                        /\ ~b.meant.reworded => b.line \in {b.meant.at, Automatic}
      BY <1>3 DEF CalmAddressAgrees
    <3>1. b.labels \subseteq {meant.at}
      BY <1>2, <2>1 DEF CalmForm, AnyRows
    <3>2. CASE form.mode = "MANUAL"
      BY <1>1, <1>2, <2>1, <3>1, <3>2 DEF CalmForm, AddressReady
    <3>3. CASE form.mode = "AUTO"
      <4>1. form.coords = meant.at
            /\ (~meant.reworded => {form.line, form.text} \subseteq {meant.at, Automatic, NoLine})
        BY <1>1, <2>1, <3>3 DEF CalmForm, AddressReady
      <4>2. ~meant.reworded => FoundLine \in {meant.at, Automatic}
        BY <4>1 DEF FoundLine
      <4> QED BY <1>2, <3>1, <3>3, <4>1, <4>2
    <3> QED BY <1>1, <3>2, <3>3 DEF FormTyped, AnyForm
  <2> QED BY <2>2, <2>3, <2>4
<1> QED BY <1>1, <1>4, <1>5, <1>6, <1>7, CalmActs DEF FormInv

\* An order that ends without a row leaves all as it is.
LEMMA NotAnsweredKept ==
  ASSUME FormInv, placing' = {},
         UNCHANGED <<formManner, form, locating, reverses, forward, calls, saved, savedIds, meant,
                     formActs>>
  PROVE  FormInv'
<1>1. AnyRows' = AnyRows
  BY DEF AnyRows
<1>2. FormTyped' /\ OrderKept'
  BY DEF FormInv, FormTyped, LookedUp, OrderKept
<1>3. BookKept'
  BY <1>1, BookStep DEF FormInv, BookKept
<1>4. formManner = "calm" => CalmForm' /\ CalmBook' /\ CalmAddressAgrees'
  BY <1>1, FormStays DEF FormInv, CalmForm, CalmBook, CalmAddressAgrees
<1> QED BY <1>2, <1>3, <1>4 DEF FormInv

\* An answered order may begin to save its address, which is new.
LEMMA AnsweredKept ==
  ASSUME FormInv, NEW b \in placing, Answered(b)
  PROVE  FormInv'
<1>1. /\ FormTyped /\ BookKept /\ OrderKept /\ b.stage = "sent" /\ b \in AnyBody
      /\ UNCHANGED <<formManner, form, locating, reverses, forward, calls, savedIds, meant,
                     formActs>>
  BY DEF Answered, FormInv, FormTyped
<1>2. CASE ~(b.keep /\ b.at # Nowhere /\ ~Known(b))
  <2>1. placing' = {} /\ UNCHANGED saved
    BY <1>2 DEF Answered, NoBody
  <2> QED BY <1>1, <2>1, NotAnsweredKept
<1>3. CASE b.keep /\ b.at # Nowhere /\ ~Known(b)
  <2> DEFINE d == [b EXCEPT !.stage = "cleared"]
  <2>1. saved' = ClearDefaults(saved, b) /\ placing' = {d}
    BY <1>3 DEF Answered
  <2>2. /\ d \in AnyBody /\ d.stage = "cleared" /\ d.line = b.line /\ d.at = b.at
        /\ d.manual = b.manual /\ d.labels = b.labels /\ d.meant = b.meant
        /\ d.kept = b.kept /\ d.first = b.first
    BY <1>1 DEF AnyBody
  <2> HIDE DEF d
  <2>3. \A q \in saved' : \E s \in saved :
           /\ q.id = s.id /\ q.at = s.at /\ q \in Row /\ (b.first => ~q.default)
           /\ q = [s EXCEPT !.default = FALSE] \/ (~b.first /\ q = s)
    <3> SUFFICES ASSUME NEW q \in saved'
                 PROVE  \E s \in saved :
                          /\ q.id = s.id /\ q.at = s.at /\ q \in Row /\ (b.first => ~q.default)
                          /\ q = [s EXCEPT !.default = FALSE] \/ (~b.first /\ q = s)
      OBVIOUS
    <3>1. CASE b.first
      <4>1. PICK s \in saved : q = [s EXCEPT !.default = FALSE]
        BY <2>1, <3>1 DEF ClearDefaults
      <4>2. s \in Row
        BY <1>1 DEF FormTyped
      <4>3. q.id = s.id /\ q.at = s.at /\ q \in Row /\ ~q.default
        BY <4>1, <4>2 DEF Row
      <4> QED BY <4>1, <4>3
    <3>2. CASE ~b.first
      BY <1>1, <2>1, <3>2 DEF ClearDefaults, FormTyped
    <3> QED BY <3>1, <3>2
  <2>4. ~b.first => saved' = saved
    BY <2>1 DEF ClearDefaults
  <2>5. saved' \subseteq Row
    BY <2>3
  <2>6. FormTyped'
    BY <1>1, <2>1, <2>2, <2>5 DEF FormTyped, LookedUp
  <2>7. \A q \in AnyRows' : \E s \in AnyRows : s.id = q.id /\ s.at = q.at
    <3>1. \A q : q \in AnyRows' => q \in saved' \/ q \in AnyRows
      BY <1>1 DEF AnyRows
    <3>2. saved \subseteq AnyRows
      BY DEF AnyRows
    <3> QED BY <2>3, <3>1, <3>2
  <2>8. BookKept'
    <3>1. \A p, q \in saved' : p.at = q.at => p = q
      <4>1. ASSUME b.first, NEW p \in saved', NEW q \in saved', p.at = q.at PROVE p = q
        <5>1. PICK s \in saved : p.at = s.at /\ p = [s EXCEPT !.default = FALSE]
          BY <2>3, <4>1
        <5>2. PICK r \in saved : q.at = r.at /\ q = [r EXCEPT !.default = FALSE]
          BY <2>3, <4>1
        <5>3. r = s
          BY <1>1, <4>1, <5>1, <5>2 DEF BookKept
        <5> QED BY <5>1, <5>2, <5>3
      <4>2. CASE ~b.first
        BY <1>1, <2>4, <4>2 DEF BookKept
      <4> QED BY <4>1, <4>2
    <3> QED BY <1>1, <2>7, <3>1, BookStep DEF BookKept
  <2>9. OrderKept'
    <3>1. b.at \in Places /\ \A s \in saved : s.at # b.at
      BY <1>1, <1>3 DEF AnyBody, Known
    <3>2. Acceptable(d) /\ d.kept # NoLine
      BY <1>1, <2>2 DEF OrderKept, Acceptable
    <3> QED BY <2>1, <2>2, <2>3, <3>1, <3>2 DEF OrderKept, Acceptable
  <2>10. formManner = "calm" => CalmForm' /\ CalmBook' /\ CalmAddressAgrees'
    <3> SUFFICES ASSUME formManner = "calm" PROVE CalmForm' /\ CalmBook' /\ CalmAddressAgrees'
      OBVIOUS
    <3>1. CalmForm /\ CalmBook /\ CalmAddressAgrees
      BY DEF FormInv
    <3>2. CalmForm'
      BY <1>1, <2>7, <3>1, FormStays DEF CalmForm
    <3>3. CalmBook'
      BY <2>1, <2>2, <2>3, <2>4, <3>1 DEF CalmBook
    <3>4. CalmAddressAgrees'
      BY <1>1, <2>1, <2>2, <3>1 DEF CalmAddressAgrees
    <3> QED BY <3>2, <3>3, <3>4
  <2> QED BY <1>1, <2>6, <2>8, <2>9, <2>10 DEF FormInv
<1> QED BY <1>2, <1>3

\* The row is made, with a new id.
LEMMA CreateKept ==
  ASSUME FormInv, NEW b \in placing, Create(b)
  PROVE  FormInv'
<1> DEFINE n == [id |-> savedIds + 1, at |-> b.at, line |-> b.kept, default |-> b.first]
<1>1. /\ FormTyped /\ BookKept /\ OrderKept /\ b.stage = "cleared" /\ b \in AnyBody
      /\ placing' = {} /\ savedIds < MaxSaved /\ savedIds' = savedIds + 1
      /\ saved' = saved \cup {n}
      /\ UNCHANGED <<formManner, form, locating, reverses, forward, calls, meant, formActs>>
  BY DEF Create, FormInv, FormTyped, NoBody
<1>2. savedIds \in Nat /\ MaxSaved \in Nat
  BY NamesApart, IdsCounted DEF FormInv
<1>3. b.at \in Places /\ b.kept \in Lines \ {NoLine} /\ \A s \in saved : s.at # b.at
  BY <1>1 DEF OrderKept, AnyBody
<1>4. n.id = savedIds + 1 /\ n.at = b.at /\ n.default = b.first /\ n \in Row
  BY <1>1, <1>2, <1>3 DEF Row, AnyBody
<1> HIDE DEF n
<1>5. FormTyped'
  <2>1. savedIds' \in 0 .. MaxSaved
    BY <1>1, <1>2
  <2> QED BY <1>1, <1>4, <2>1 DEF FormTyped, LookedUp
<1>6. \A q : q \in AnyRows' => q = n \/ q \in AnyRows
  BY <1>1 DEF AnyRows
<1>7. \A q \in AnyRows : q.id \in 1 .. savedIds /\ q.id # n.id
  BY <1>1, <1>2, <1>4 DEF BookKept
<1>8. BookKept'
  <2>1. \A q \in AnyRows' : q.id \in 1 .. savedIds'
    BY <1>1, <1>2, <1>4, <1>6, <1>7
  <2>2. \A p, q \in AnyRows' : p.id = q.id => p.at = q.at
    BY <1>1, <1>6, <1>7 DEF BookKept
  <2>3. \A p, q \in saved' : p.at = q.at => p = q
    BY <1>1, <1>3, <1>4 DEF BookKept
  <2>4. form'.picked \in 0 .. savedIds'
    BY <1>1, <1>2 DEF BookKept
  <2> QED BY <2>1, <2>2, <2>3, <2>4 DEF BookKept
<1>9. OrderKept'
  BY <1>1 DEF OrderKept
<1>10. formManner = "calm" => CalmForm' /\ CalmBook' /\ CalmAddressAgrees'
  <2> SUFFICES ASSUME formManner = "calm" PROVE CalmForm' /\ CalmBook' /\ CalmAddressAgrees'
    OBVIOUS
  <2>1. CalmForm /\ CalmBook
    BY DEF FormInv
  <2>2. n.id # form.picked
    BY <1>1, <1>2, <1>4 DEF BookKept
  <2>3. CalmForm'
    BY <1>1, <1>6, <2>1, <2>2, FormStays DEF CalmForm
  <2>4. CalmBook'
    BY <1>1, <1>4, <2>1 DEF CalmBook
  <2>5. CalmAddressAgrees'
    BY <1>1 DEF CalmAddressAgrees
  <2> QED BY <2>3, <2>4, <2>5
<1> QED BY <1>1, <1>5, <1>8, <1>9, <1>10 DEF FormInv

\* The page opens with an empty form and at most one saved address.
LEMMA AddressInitKept == AddressInit => FormInv
<1> SUFFICES ASSUME AddressInit PROVE FormInv
  OBVIOUS
<1> USE NamesApart
<1>1. /\ formManner \in FormManners /\ form = EmptyForm /\ locating = 0 /\ reverses = {}
      /\ forward = {} /\ calls = {[kind |-> "load"]} /\ placing = {} /\ formActs = 0
      /\ meant = [at |-> Nowhere, missed |-> FALSE, reworded |-> FALSE]
  BY DEF AddressInit, NoBody
<1>2. PICK places \in SUBSET Places :
         /\ Cardinality(places) <= 1 /\ savedIds = Cardinality(places)
         /\ saved = {[id |-> 1, at |-> p, line |-> p, default |-> TRUE] : p \in places}
  BY DEF AddressInit
<1>3. IsFiniteSet(places)
  BY <1>2, AddressAssumption, FS_Subset, Zenon DEF AddressAssumption
<1>4. savedIds \in Nat /\ savedIds <= 1 /\ (savedIds = 0 <=> places = {})
  BY <1>2, <1>3, FS_CardinalityType, FS_EmptySet
<1>5. \A p, q \in places : p = q
  <2>1. CASE Cardinality(places) = 0
    BY <1>3, <2>1, FS_EmptySet
  <2>2. CASE Cardinality(places) = 1
    BY <1>3, <2>2, FS_Singleton
  <2> QED BY <1>2, <1>4, <2>1, <2>2
<1>6. \A r \in saved : r.id = 1 /\ savedIds = 1 /\ r \in Row
  <2> SUFFICES ASSUME NEW r \in saved PROVE r.id = 1 /\ savedIds = 1 /\ r \in Row
    OBVIOUS
  <2>1. PICK p \in places : r = [id |-> 1, at |-> p, line |-> p, default |-> TRUE]
    BY <1>2
  <2>2. savedIds = 1
    BY <1>4, <2>1
  <2> QED BY <2>1, <2>2 DEF Row, Lines
<1>7. \A r, s \in saved : r = s
  BY <1>2, <1>5
<1>8. /\ form.mode = "AUTO" /\ form.text = NoLine /\ form.edit = FALSE /\ form.geo = "idle"
      /\ form.coords = Nowhere /\ form.line = NoLine /\ form.picked = 0 /\ form.list = {}
      /\ form \in AnyForm
  BY <1>1 DEF EmptyForm, AnyForm, Lines
<1>9. AnyRows = saved
  BY <1>1, <1>8 DEF AnyRows
<1>10. FormTyped
  BY <1>1, <1>4, <1>6, <1>8 DEF FormTyped, LookedUp, AnyMeant, AnyAnswer
<1>11. BookKept
  BY <1>4, <1>6, <1>7, <1>8, <1>9 DEF BookKept
<1>12. OrderKept
  BY <1>1 DEF OrderKept
<1>13. CalmForm
  BY <1>1, <1>6, <1>8, <1>9 DEF CalmForm
<1>14. CalmBook /\ CalmAddressAgrees
  BY <1>1, <1>7 DEF CalmBook, CalmAddressAgrees
<1> QED BY <1>10, <1>11, <1>12, <1>13, <1>14 DEF FormInv

\* Every step keeps the invariant.
LEMMA AddressNextKept ==
  ASSUME FormInv, [AddressNext]_formVars
  PROVE  FormInv'
<1>1. CASE UNCHANGED formVars
  <2>1. AnyRows' = AnyRows
    BY <1>1 DEF formVars, AnyRows
  <2>2. FormTyped' /\ OrderKept' /\ BookKept'
    BY <1>1, <2>1 DEF FormInv, FormTyped, LookedUp, OrderKept, BookKept, formVars
  <2>3. formManner = "calm" => CalmForm' /\ CalmBook' /\ CalmAddressAgrees'
    BY <1>1, <2>1, FormStays DEF FormInv, CalmForm, CalmBook, CalmAddressAgrees, formVars
  <2> QED BY <1>1, <2>2, <2>3 DEF FormInv, formVars
<1>2. CASE NotAnswered
  BY <1>2, NotAnsweredKept DEF NotAnswered, NoBody
<1> QED BY <1>1, <1>2, PickModeKept, RequestLocationKept, PositionArrivesKept, PositionFailsKept,
           ReverseArrivesKept, ForwardArrivesKept, TypeKept, TogglesKept,
           ApplySavedAddressKept, ListsKept, DeleteSavedAddressKept, SetDefaultKept,
           PlaceOrderKept, AnsweredKept, CreateKept
        DEF AddressNext

\* However late positions, names and answers of the address book arrive, an order's address can
\* be accepted, no place is saved twice, and a customer who waits for the answers gets his
\* order, and its label, sent to the place he chose last (checkout-screen.tsx,
\* customers.service.ts, orders.service.ts).
THEOREM AddressesMeant == AddressSpec => []AddressesSound
<1>1. AddressInit => FormInv
  BY AddressInitKept
<1>2. FormInv /\ [AddressNext]_formVars => FormInv'
  BY AddressNextKept
<1>3. FormInv => AddressesSound
  <2> SUFFICES ASSUME FormInv PROVE AddressesSound
    OBVIOUS
  <2>1. AddressTypeOK
    <3>1. FormTyped /\ BookKept
      BY DEF FormInv
    <3>2. \A r \in saved : r \in AnyRows
      BY DEF AnyRows
    <3> QED BY <3>1, <3>2 DEF AddressTypeOK, FormTyped, LookedUp, AnyForm, Row, BookKept
  <2>2. AddressAccepted
    BY DEF FormInv, OrderKept, AddressAccepted
  <2>3. CalmAddressAgrees /\ BookSound
    BY DEF FormInv, CalmAddressAgrees, BookSound, BookKept, CalmBook
  <2> QED BY <2>1, <2>2, <2>3 DEF AddressesSound
<1> QED BY <1>1, <1>2, <1>3, PTL DEF AddressSpec


-----------------------------------------------------------------------------
(* Delivery times: what is kept *)

PlanState == [date : Nat, times : SUBSET HalfHours]
PageState == [open : BOOLEAN, rules : RuleSets, today : Nat, plan : PlanState]
PlaceState == [step : {"none", "chosen", "resolved", "created", "placed", "cancelled"},
               kind : {"none", "exact", "slot"}, date : Nat, start : 0 .. Day - 1]
SlotSet == SUBSET (0 .. Day - 1)
ListState == [held : {TRUE}, rules : RuleSets, day : Nat, free : SlotSet]
ListingState == [step : {"counted"}, rules : RuleSets, day : Nat, free : SlotSet]

ScheduleTyped ==
    /\ slotManner \in SlotManners /\ clock \in Nat /\ ticks \in 0 .. MaxTicks
    /\ rules \in RuleSets /\ ruleChanges \in 0 .. MaxRuleChanges
    /\ page \in [Pickers -> PageState]
    /\ place \in [Bookers -> PlaceState]
    /\ \A c \in Bookers : place[c].step \in {"resolved", "created"} => place[c].kind = "slot"
    /\ slotList = NoList \/ (slotList \in ListState /\ slotList.day = DayOf(clock))
    /\ listing = NoListing \/ listing \in ListingState

\* The orders that are counted in a slot.
InSlot(date, start) ==
    {c \in Bookers : /\ place[c].step \in {"created", "placed"}
                     /\ place[c].kind = "slot"
                     /\ place[c].date = date /\ place[c].start = start}

\* Calls in turn: one is under way, what it has counted is still so, and the list that is
\* held is right but while an order of its day is created and the list not yet dropped.
InCall(c) == place[c].step \in {"resolved", "created"}
OneCall ==
    /\ listing = NoListing \/ \A c \in Bookers : ~InCall(c)
    /\ \A c, d \in Bookers : InCall(c) /\ InCall(d) => c = d
ResolvedHasRoom ==
    \A c \in Bookers : place[c].step = "resolved" =>
        Booked(place[c].date, place[c].start) < rules.maxOrders
CountedHasRoom ==
    listing # NoListing =>
        \A s \in listing.free : Booked(listing.day, s) < listing.rules.maxOrders
ListHasRoom ==
    slotList.held /\ (\A c \in Bookers : place[c].step = "created" => place[c].date # slotList.day)
        => \A s \in slotList.free : Booked(slotList.day, s) < slotList.rules.maxOrders
SlotsInTurn ==
    slotManner = "serial" => OneCall /\ ResolvedHasRoom /\ CountedHasRoom /\ ListHasRoom

ScheduleInv == ScheduleTyped /\ SlotsInTurn

-----------------------------------------------------------------------------
(* The minutes of a day *)

LEMMA DayFacts ==
    /\ \A t \in Nat : DayOf(t) \in Nat /\ DayOf(t) * Day <= t /\ t < DayOf(t) * Day + Day
                      /\ t % Day = t - DayOf(t) * Day
    /\ HalfHours \subseteq 0 .. Day - 1
    /\ \A date \in Nat, m \in Nat : At(date, m) = date * Day + m
  BY DEF DayOf, Day, HalfHours, WheelStep, At

LEMMA RuleFacts ==
    ASSUME NEW r \in RuleSets
    PROVE /\ r.enabled \in BOOLEAN /\ r.slotMinutes \in {30, 60} /\ r.workStart \in 0 .. 23
          /\ r.workEnd \in 1 .. 23 /\ r.minDelay \in 15 .. 1440 /\ r.maxOrders \in 1 .. 500
  BY ScheduleAssumption

LEMMA LimitTyped == \A r \in RuleSets : r.maxOrders \in Int
<1>1. \A n \in 1 .. 500 : n \in Int OBVIOUS
<1> SUFFICES ASSUME NEW r \in RuleSets PROVE r.maxOrders \in Int OBVIOUS
<1>2. PICK n \in 1 .. 500 : n = r.maxOrders BY RuleFacts
<1> QED BY <1>1, <1>2

LEMMA DelayTyped == \A r \in RuleSets : r.minDelay \in Nat
<1>1. \A n \in 15 .. 1440 : n \in Nat OBVIOUS
<1> SUFFICES ASSUME NEW r \in RuleSets PROVE r.minDelay \in Nat OBVIOUS
<1>2. PICK n \in 15 .. 1440 : n = r.minDelay BY RuleFacts
<1> QED BY <1>1, <1>2

LEMMA WheelTyped ==
    ASSUME NEW r \in RuleSets, NEW today \in Nat, NEW now
    PROVE WheelPlan(r, today, now) \in PlanState
<1>1. \A date : WheelTimes(r, today, date, now) \in SUBSET HalfHours BY DEF WheelTimes
<1>2. NoPlan \in PlanState BY DEF NoPlan, PlanState
<1>3. \A date \in Nat, times \in SUBSET HalfHours : [date |-> date, times |-> times] \in PlanState
    BY DEF PlanState
<1>4. today + 1 \in Nat OBVIOUS
<1> QED BY <1>1, <1>2, <1>3, <1>4 DEF WheelPlan

LEMMA StartsTyped ==
    ASSUME NEW r \in RuleSets PROVE SlotStarts(r) \in SlotSet
<1>1. PICK from \in 0 .. 23, to \in 1 .. 23, length \in {30, 60} :
          from = r.workStart /\ to = r.workEnd /\ length = r.slotMinutes
    BY RuleFacts
<1>2. \A m \in from * 60 .. to * 60 : m + length <= to * 60 => m \in 0 .. Day - 1
    BY DEF Day
<1> QED BY <1>1, <1>2 DEF SlotStarts, SlotSet

\* Minutes of a day, and of the next one, after a delay that ends on it.
LEMMA DelayOnDay ==
    ASSUME NEW now \in Nat, NEW delay \in Nat, DayOf(now + delay) <= DayOf(now),
           NEW m \in 0 .. Day - 1
    PROVE /\ (now + delay) % Day \in Nat
          /\ At(DayOf(now), m) >= now + delay <=> m >= (now + delay) % Day
          /\ At(DayOf(now) + 1, m) >= now + delay
<1>1. PICK today \in Nat : today = DayOf(now) /\ today * 1440 <= now /\ now < today * 1440 + 1440
    BY DEF DayOf, Day
<1>2. PICK end \in Nat : end = now + delay OBVIOUS
<1>3. PICK day \in Nat : day = end \div 1440 BY <1>2
<1>4. PICK later \in 0 .. 1439 : later = end % 1440 BY <1>2
<1>5. end = day * 1440 + later BY <1>2, <1>3, <1>4
<1>6. day = today BY <1>1, <1>2, <1>3, <1>4, <1>5 DEF DayOf, Day
<1>7. (now + delay) % Day = later BY <1>2, <1>4 DEF Day
<1>8. PICK start \in Nat : start = today * 1440 BY <1>1
<1>9. At(DayOf(now), m) = start + m /\ At(DayOf(now) + 1, m) = start + 1440 + m
    BY <1>1, <1>8 DEF At, Day
<1>10. m \in Nat BY DEF Day
<1>11. now + delay = start + later BY <1>2, <1>5, <1>6, <1>8
<1> QED BY <1>4, <1>7, <1>9, <1>10, <1>11

\* On a day that the delay does not leave, a half hour is on the wheel of today just when
\* the server accepts it.
LEMMA WheelOfToday ==
    ASSUME NEW r \in RuleSets, r.enabled, NEW now \in Nat,
           DayOf(now + r.minDelay) <= DayOf(now), NEW m \in HalfHours
    PROVE m \in WheelTimes(r, DayOf(now), DayOf(now), now)
              <=> ExactAccepted(r, DayOf(now), m, now)
<1>1. m \in 0 .. Day - 1 /\ m \in Nat /\ DayOf(now) \in Nat
    <2>1. m \in 0 .. Day - 1 /\ DayOf(now) \in Nat BY DayFacts
    <2> QED BY <2>1 DEF Day
<1>2. PICK from \in 0 .. 23 : from = r.workStart BY RuleFacts
<1>3. PICK to \in 1 .. 23 : to = r.workEnd BY RuleFacts
<1>4. r.minDelay \in Nat BY DelayTyped
<1>5. PICK later \in Nat : /\ later = (now + r.minDelay) % Day
                           /\ At(DayOf(now), m) >= now + r.minDelay <=> m >= later
    BY <1>1, <1>4, DelayOnDay
<1>6. LatestOf(r) = to * 60 - 1 BY <1>3 DEF LatestOf
<1>7. EarliestOf(r, DayOf(now), DayOf(now), now) = IF later > from * 60 THEN later ELSE from * 60
    BY <1>2, <1>5 DEF EarliestOf
<1>8. m \in WheelTimes(r, DayOf(now), DayOf(now), now)
          <=> m >= later /\ m >= from * 60 /\ m < to * 60
    BY <1>1, <1>6, <1>7 DEF WheelTimes
<1>9. DayOf(now) >= DayOf(now) /\ DayOf(now) <= DayOf(now) + MaxDaysAhead
    BY <1>1 DEF MaxDaysAhead
<1>10. ExactAccepted(r, DayOf(now), m, now)
          <=> m >= later /\ m >= from * 60 /\ m < to * 60
    BY <1>2, <1>3, <1>5, <1>9 DEF ExactAccepted
<1> QED BY <1>8, <1>10

\* ... and one on the wheel of tomorrow is accepted.
LEMMA WheelOfTomorrow ==
    ASSUME NEW r \in RuleSets, r.enabled, NEW now \in Nat,
           DayOf(now + r.minDelay) <= DayOf(now),
           NEW m \in WheelTimes(r, DayOf(now), DayOf(now) + 1, now)
    PROVE ExactAccepted(r, DayOf(now) + 1, m, now)
<1>1. m \in 0 .. Day - 1 /\ m \in Nat /\ DayOf(now) \in Nat
    <2>1. m \in 0 .. Day - 1 /\ DayOf(now) \in Nat BY DayFacts DEF WheelTimes
    <2> QED BY <2>1 DEF Day
<1>2. PICK from \in 0 .. 23 : from = r.workStart BY RuleFacts
<1>3. PICK to \in 1 .. 23 : to = r.workEnd BY RuleFacts
<1>4. r.minDelay \in Nat BY DelayTyped
<1>5. At(DayOf(now) + 1, m) >= now + r.minDelay BY <1>1, <1>4, DelayOnDay
<1>6. LatestOf(r) = to * 60 - 1 BY <1>3 DEF LatestOf
<1>7. DayOf(now) + 1 # DayOf(now) BY <1>1
<1>8. EarliestOf(r, DayOf(now), DayOf(now) + 1, now) = from * 60
    BY <1>2, <1>7 DEF EarliestOf
<1>9. m >= from * 60 /\ m < to * 60 BY <1>1, <1>6, <1>8 DEF WheelTimes
<1>10. DayOf(now) + 1 >= DayOf(now) /\ DayOf(now) + 1 <= DayOf(now) + MaxDaysAhead
    BY <1>1 DEF MaxDaysAhead
<1> QED BY <1>2, <1>3, <1>5, <1>9, <1>10 DEF ExactAccepted

\* The page asks for nothing more of a time on its wheel.
LEMMA WheelIsAccepted ==
    ASSUME NEW r, NEW today, NEW date, NEW now, DayOf(now) = today,
           NEW m \in WheelTimes(r, today, date, now), ExactAccepted(r, date, m, now)
    PROVE ClientAccepts(r, today, date, m, now)
  BY DEF WheelTimes, ExactAccepted, ClientAccepts

LEMMA WheelAgrees == ScheduleInv => PageAndServerAgree
<1> SUFFICES ASSUME ScheduleInv, ~Wraps PROVE PageAndServerAgree
    BY DEF PageAndServerAgree
<1>1. rules \in RuleSets /\ clock \in Nat /\ DayOf(clock) \in Nat
    BY DayFacts DEF ScheduleInv, ScheduleTyped
<1>2. DayOf(clock + rules.minDelay) <= DayOf(clock)
    <2>1. clock + rules.minDelay \in Nat
        <3>1. PICK delay \in 15 .. 1440 : delay = rules.minDelay BY <1>1, RuleFacts
        <3> QED BY <1>1, <3>1
    <2>2. DayOf(clock + rules.minDelay) \in Nat BY <2>1, DayFacts
    <2> QED BY <1>1, <2>2 DEF Wraps
<1> DEFINE today == DayOf(clock)
           plan == WheelPlan(rules, today, clock)
           on(date) == WheelTimes(rules, today, date, clock)
<1>3. CASE ~rules.enabled
    <2>1. plan = NoPlan BY <1>3 DEF WheelPlan
    <2>2. \A date, m : ~ExactAccepted(rules, date, m, clock) BY <1>3 DEF ExactAccepted
    <2> QED BY <2>1, <2>2 DEF PageAndServerAgree, NoPlan
<1>4. CASE rules.enabled
    <2>1. \A m \in HalfHours : m \in on(today) <=> ExactAccepted(rules, today, m, clock)
        BY <1>1, <1>2, <1>4, WheelOfToday
    <2>2. \A m \in on(today + 1) : ExactAccepted(rules, today + 1, m, clock)
        BY <1>1, <1>2, <1>4, WheelOfTomorrow
    <2>3. \A date : on(date) \subseteq HalfHours BY DEF WheelTimes
    <2>4. \A date : \A m \in on(date) : ExactAccepted(rules, date, m, clock)
                        => ClientAccepts(rules, today, date, m, clock)
        BY WheelIsAccepted
    <2>5. CASE on(today) # {}
        <3>1. plan = [date |-> today, times |-> on(today)] BY <1>4, <2>5 DEF WheelPlan
        <3>2. plan.date = today /\ plan.times = on(today) BY <3>1
        <3>3. plan # NoPlan BY <2>5, <3>2 DEF NoPlan
        <3> HIDE DEF plan, on
        <3>4. \A m \in plan.times : /\ ExactAccepted(rules, plan.date, m, clock)
                                    /\ ClientAccepts(rules, today, plan.date, m, clock)
            BY <2>1, <2>3, <2>4, <3>2
        <3> QED BY <3>2, <3>3, <3>4 DEF PageAndServerAgree, plan
    <2>6. CASE on(today) = {} /\ on(today + 1) # {}
        <3>1. plan = [date |-> today + 1, times |-> on(today + 1)]
            BY <1>4, <2>6 DEF WheelPlan
        <3>2. plan.date = today + 1 /\ plan.times = on(today + 1) BY <3>1
        <3> HIDE DEF plan, on
        <3>4. \A m \in plan.times : /\ ExactAccepted(rules, plan.date, m, clock)
                                    /\ ClientAccepts(rules, today, plan.date, m, clock)
            BY <2>2, <2>4, <3>2
        <3>5. \A m \in HalfHours : ~ExactAccepted(rules, today, m, clock) BY <2>1, <2>6
        <3> QED BY <3>4, <3>5 DEF PageAndServerAgree, plan
    <2>7. CASE on(today) = {} /\ on(today + 1) = {}
        <3>1. plan = NoPlan BY <1>4, <2>7 DEF WheelPlan
        <3>2. plan.times = {} BY <3>1 DEF NoPlan
        <3>3. \A m \in HalfHours : ~ExactAccepted(rules, today, m, clock) BY <2>1, <2>7
        <3> HIDE DEF plan, on
        <3> QED BY <3>2, <3>3 DEF PageAndServerAgree, plan
    <2> QED BY <2>5, <2>6, <2>7
<1> QED BY <1>1, <1>3, <1>4, RuleFacts

-----------------------------------------------------------------------------
(* Delivery times: calls about slots *)

LEMMA BookersFinite == IsFiniteSet(Bookers)
<1>1. IsFiniteSet(Pickers) /\ IsFiniteSet(Callers) BY ScheduleAssumption
<1> QED BY <1>1, FS_Union DEF Bookers

\* An order that leaves a slot, or enters none, makes no slot fuller.
LEMMA BookedLess ==
    ASSUME NEW date, NEW start, InSlot(date, start)' \subseteq InSlot(date, start)
    PROVE Booked(date, start)' \in Nat /\ Booked(date, start)' <= Booked(date, start)
<1>1. InSlot(date, start) \subseteq Bookers BY DEF InSlot
<1>2. IsFiniteSet(InSlot(date, start)) BY <1>1, BookersFinite, FS_Subset
<1>3. /\ Cardinality(InSlot(date, start)') \in Nat
      /\ Cardinality(InSlot(date, start)') <= Cardinality(InSlot(date, start))
    BY <1>2, FS_Subset, FS_CardinalityType
<1>4. /\ Booked(date, start) = Cardinality(InSlot(date, start))
      /\ Booked(date, start)' = Cardinality(InSlot(date, start)')
    BY DEF Booked, InSlot
<1> QED BY <1>3, <1>4

LEMMA BookedTyped == \A date, start : Booked(date, start) \in Nat
<1> SUFFICES ASSUME NEW date, NEW start PROVE Booked(date, start) \in Nat OBVIOUS
<1>1. InSlot(date, start) \subseteq Bookers BY DEF InSlot
<1>2. Cardinality(InSlot(date, start)) \in Nat
    BY <1>1, BookersFinite, FS_Subset, FS_CardinalityType
<1> QED BY <1>2 DEF Booked, InSlot

\* The order of c changes from one record to another.
LEMMA PlaceMoves ==
    ASSUME ScheduleTyped, NEW c \in Bookers, NEW e \in PlaceState,
           place' = [place EXCEPT ![c] = e],
           e.step \in {"resolved", "created"} => e.kind = "slot"
    PROVE /\ place' \in [Bookers -> PlaceState]
          /\ \A d \in Bookers : place'[d] = IF d = c THEN e ELSE place[d]
          /\ \A d \in Bookers : place'[d].step \in {"resolved", "created"}
                                    => place'[d].kind = "slot"
  BY DEF ScheduleTyped

LEMMA PlaceMade ==
    ASSUME NEW step \in {"none", "chosen", "resolved", "created", "placed", "cancelled"},
           NEW kind \in {"none", "exact", "slot"}, NEW date \in Nat, NEW start \in 0 .. Day - 1
    PROVE /\ Placing(step, kind, date, start) \in PlaceState
          /\ Placing(step, kind, date, start).step = step
          /\ Placing(step, kind, date, start).kind = kind
          /\ Placing(step, kind, date, start).date = date
          /\ Placing(step, kind, date, start).start = start
  BY DEF Placing, PlaceState

LEMMA NoPlaceMade ==
    NoPlace \in PlaceState /\ NoPlace.step = "none" /\ NoPlace.kind = "none"
  BY DEF NoPlace, PlaceState, Day

LEMMA ScheduleInitKept == ScheduleInit => ScheduleInv
<1> SUFFICES ASSUME ScheduleInit PROVE ScheduleInv OBVIOUS
<1>1. clock \in Nat BY ScheduleAssumption DEF ScheduleInit, Day
<1>2. ClosedPage \in PageState
    <2>1. NoPlan \in PlanState BY DEF NoPlan, PlanState
    <2> QED BY <2>1 DEF ClosedPage, PageState, ScheduleInit
<1>3. page \in [Pickers -> PageState] BY <1>2 DEF ScheduleInit
<1>4. \A c \in Bookers : place[c] = NoPlace BY DEF ScheduleInit
<1>5. place \in [Bookers -> PlaceState] BY NoPlaceMade DEF ScheduleInit
<1>6. 0 \in 0 .. MaxTicks /\ 0 \in 0 .. MaxRuleChanges BY ScheduleAssumption
<1>7. ScheduleTyped BY <1>1, <1>3, <1>4, <1>5, <1>6, NoPlaceMade DEF ScheduleTyped, ScheduleInit
<1>8. SlotsInTurn
    BY <1>4, NoPlaceMade
    DEF SlotsInTurn, OneCall, ResolvedHasRoom, CountedHasRoom, ListHasRoom, InCall,
        ScheduleInit, NoList
<1> QED BY <1>7, <1>8 DEF ScheduleInv

\* A step that begins no call keeps what calls in turn know, if no slot gets fuller, the
\* rules stay and the list is kept or dropped.
LEMMA TurnsGoOn ==
    ASSUME ScheduleInv, slotManner' = slotManner, rules' = rules, listing' = listing,
           slotList' \in {slotList, NoList},
           \A c \in Bookers : place'[c].step \in {"resolved", "created"} => place'[c] = place[c],
           \A c \in Bookers : place[c].step = "created" =>
               place'[c] = place[c] \/ place[c].date # slotList.day \/ slotList' = NoList,
           \A date, start : InSlot(date, start)' \subseteq InSlot(date, start)
    PROVE SlotsInTurn'
<1> SUFFICES ASSUME slotManner = "serial"
             PROVE (OneCall /\ ResolvedHasRoom /\ CountedHasRoom /\ ListHasRoom)'
    BY DEF SlotsInTurn
<1>1. OneCall /\ ResolvedHasRoom /\ CountedHasRoom /\ ListHasRoom
    BY DEF ScheduleInv, SlotsInTurn
<1>2. \A date, start : /\ Booked(date, start)' \in Nat /\ Booked(date, start) \in Nat
                       /\ Booked(date, start)' <= Booked(date, start)
    BY BookedLess, BookedTyped
<1>3. \A c \in Bookers : InCall(c)' => InCall(c) /\ place'[c] = place[c] BY DEF InCall
<1>4. OneCall' BY <1>1, <1>3 DEF OneCall
<1>5. rules.maxOrders \in Int BY LimitTyped DEF ScheduleInv, ScheduleTyped
<1>6. ResolvedHasRoom'
    <2> SUFFICES ASSUME NEW c \in Bookers, place'[c].step = "resolved"
                 PROVE Booked(place[c].date, place[c].start)' < rules.maxOrders
        BY DEF ResolvedHasRoom
    <2>1. place[c].step = "resolved" /\ place'[c] = place[c] OBVIOUS
    <2>2. Booked(place[c].date, place[c].start) < rules.maxOrders BY <1>1, <2>1 DEF ResolvedHasRoom
    <2> QED BY <1>2, <1>5, <2>2
<1>7. CountedHasRoom'
    <2> SUFFICES ASSUME listing # NoListing, NEW s \in listing.free
                 PROVE Booked(listing.day, s)' < listing.rules.maxOrders
        BY DEF CountedHasRoom
    <2>1. listing.rules.maxOrders \in Int
        BY LimitTyped DEF ScheduleInv, ScheduleTyped, ListingState
    <2>2. Booked(listing.day, s) < listing.rules.maxOrders BY <1>1 DEF CountedHasRoom
    <2> QED BY <1>2, <2>1, <2>2
<1>8. ListHasRoom'
    <2> SUFFICES ASSUME slotList'.held, slotList' = slotList, NEW s \in slotList.free,
                        \A c \in Bookers : place'[c].step = "created" =>
                            place'[c].date # slotList.day
                 PROVE Booked(slotList.day, s)' < slotList.rules.maxOrders
        BY DEF ListHasRoom, NoList
    <2>1. slotList' # NoList BY DEF NoList
    <2>2. \A c \in Bookers : place[c].step = "created" => place[c].date # slotList.day
        BY <2>1
    <2>3. Booked(slotList.day, s) < slotList.rules.maxOrders BY <1>1, <2>2 DEF ListHasRoom
    <2>4. slotList.rules.maxOrders \in Int
        BY <2>1, LimitTyped DEF ScheduleInv, ScheduleTyped, ListState
    <2> QED BY <1>2, <2>3, <2>4
<1> QED BY <1>4, <1>6, <1>7, <1>8

LEMMA OpenPickerKept == ASSUME ScheduleInv, NEW c \in Pickers, OpenPicker(c) PROVE ScheduleInv'
<1>1. rules \in RuleSets /\ clock \in Nat /\ page \in [Pickers -> PageState]
    BY DEF ScheduleInv, ScheduleTyped
<1>2. PICK plan \in PlanState : plan = WheelPlan(rules, DayOf(clock), clock)
    BY <1>1, WheelTyped, DayFacts
<1>3. PICK e \in PageState : e = [open |-> TRUE, rules |-> rules, today |-> DayOf(clock),
                                  plan |-> plan]
    BY <1>1, <1>2, DayFacts DEF PageState
<1>4. page' = [page EXCEPT ![c] = e] BY <1>2, <1>3 DEF OpenPicker
<1>5. page' \in [Pickers -> PageState] BY <1>1, <1>3, <1>4
<1>6. UNCHANGED <<slotManner, clock, ticks, rules, ruleChanges, place, slotList, listing>>
    BY DEF OpenPicker
<1>7. ScheduleTyped' BY <1>5, <1>6 DEF ScheduleInv, ScheduleTyped
<1>8. \A date, start : InSlot(date, start)' = InSlot(date, start) BY <1>6 DEF InSlot
<1>9. SlotsInTurn' BY <1>6, <1>8, TurnsGoOn
<1> QED BY <1>7, <1>9 DEF ScheduleInv

LEMMA ConfirmTimeKept ==
    ASSUME ScheduleInv, NEW c \in Pickers, NEW minute, ConfirmTime(c, minute)
    PROVE ScheduleInv'
<1>1. ScheduleTyped /\ c \in Bookers /\ page[c] \in PageState
    BY DEF ScheduleInv, ScheduleTyped, Bookers
<1>2. page[c].plan \in PlanState /\ minute \in page[c].plan.times
      /\ place[c].step \in {"none", "chosen"}
    BY <1>1 DEF ConfirmTime, PageState
<1>3. page[c].plan.date \in Nat /\ minute \in 0 .. Day - 1
    BY <1>2, DayFacts DEF PlanState
<1>4. PICK e \in PlaceState : /\ e.step \in {"none", "chosen"}
                              /\ place' = [place EXCEPT ![c] = e]
    <2>1. PICK e : e = Placing("chosen", "exact", page[c].plan.date, minute) OBVIOUS
    <2>2. e \in PlaceState /\ e.step = "chosen" BY <1>3, <2>1, PlaceMade
    <2>3. place' = [place EXCEPT ![c] = e] \/ place' = [place EXCEPT ![c] = NoPlace]
        BY <2>1 DEF ConfirmTime
    <2> QED BY <2>2, <2>3, NoPlaceMade
<1>5. UNCHANGED <<slotManner, clock, ticks, rules, ruleChanges, page, slotList, listing>>
    BY DEF ConfirmTime
<1>6. \A d \in Bookers : place'[d] = IF d = c THEN e ELSE place[d] BY <1>1, <1>4, PlaceMoves
<1>7. ScheduleTyped' BY <1>1, <1>4, <1>5, PlaceMoves DEF ScheduleTyped
<1>8. \A date, start : InSlot(date, start)' \subseteq InSlot(date, start)
    BY <1>4, <1>6 DEF InSlot
<1>9. SlotsInTurn' BY <1>2, <1>4, <1>5, <1>6, <1>8, TurnsGoOn
<1> QED BY <1>7, <1>9 DEF ScheduleInv

LEMMA PlaceExactKept == ASSUME ScheduleInv, NEW c \in Pickers, PlaceExact(c) PROVE ScheduleInv'
<1>1. ScheduleTyped /\ c \in Bookers /\ place[c] \in PlaceState /\ place[c].step = "chosen"
    BY DEF ScheduleInv, ScheduleTyped, Bookers, PlaceExact
<1>2. place[c].date \in Nat /\ place[c].start \in 0 .. Day - 1 BY <1>1 DEF PlaceState
<1>3. PICK e \in PlaceState : /\ e.step \in {"none", "placed"} /\ e.kind # "slot"
                              /\ place' = [place EXCEPT ![c] = e]
    <2>1. PICK e : e = Placing("placed", "exact", place[c].date, place[c].start) OBVIOUS
    <2>2. e \in PlaceState /\ e.step = "placed" /\ e.kind = "exact" BY <1>2, <2>1, PlaceMade
    <2>3. place' = [place EXCEPT ![c] = e] \/ place' = [place EXCEPT ![c] = NoPlace]
        BY <2>1 DEF PlaceExact
    <2> QED BY <2>2, <2>3, NoPlaceMade
<1>4. /\ UNCHANGED <<slotManner, clock, ticks, rules, ruleChanges, page, listing>>
      /\ slotList' \in {slotList, NoList}
    BY DEF PlaceExact
<1>5. \A d \in Bookers : place'[d] = IF d = c THEN e ELSE place[d] BY <1>1, <1>3, PlaceMoves
<1>6. ScheduleTyped' BY <1>1, <1>3, <1>4, PlaceMoves DEF ScheduleTyped
<1>7. \A date, start : InSlot(date, start)' \subseteq InSlot(date, start)
    BY <1>3, <1>5 DEF InSlot
<1>8. SlotsInTurn' BY <1>1, <1>3, <1>4, <1>5, <1>7, TurnsGoOn
<1> QED BY <1>6, <1>8 DEF ScheduleInv

LEMMA CancelPlacedKept ==
    ASSUME ScheduleInv, NEW c \in Bookers, CancelPlaced(c) PROVE ScheduleInv'
<1>1. ScheduleTyped /\ place[c] \in PlaceState /\ place[c].step = "placed"
    BY DEF ScheduleInv, ScheduleTyped, CancelPlaced
<1>2. PICK e : e = [place[c] EXCEPT !.step = "cancelled"] OBVIOUS
<1>3. e \in PlaceState /\ e.step = "cancelled" BY <1>1, <1>2 DEF PlaceState
<1>4. place' = [place EXCEPT ![c] = e] BY <1>1, <1>2 DEF CancelPlaced, ScheduleTyped
<1>5. UNCHANGED <<slotManner, clock, ticks, rules, ruleChanges, page, slotList, listing>>
    BY DEF CancelPlaced
<1>6. \A d \in Bookers : place'[d] = IF d = c THEN e ELSE place[d] BY <1>1, <1>3, <1>4, PlaceMoves
<1>7. ScheduleTyped' BY <1>1, <1>3, <1>4, <1>5, PlaceMoves DEF ScheduleTyped
<1>8. \A date, start : InSlot(date, start)' \subseteq InSlot(date, start)
    BY <1>3, <1>6 DEF InSlot
<1>9. SlotsInTurn' BY <1>1, <1>3, <1>5, <1>6, <1>8, TurnsGoOn
<1> QED BY <1>7, <1>9 DEF ScheduleInv

\* The list is dropped after the commit, or is of another day than the order.
LEMMA DropSlotListKept ==
    ASSUME ScheduleInv, NEW c \in Callers, DropSlotList(c) PROVE ScheduleInv'
<1>1. /\ ScheduleTyped /\ c \in Bookers /\ place[c] \in PlaceState /\ place[c].step = "created"
      /\ place[c].kind = "slot"
    BY DEF ScheduleInv, ScheduleTyped, Bookers, DropSlotList
<1>2. place[c].date \in Nat /\ place[c].start \in 0 .. Day - 1 BY <1>1 DEF PlaceState
<1>3. PICK e \in PlaceState : /\ e.step = "placed" /\ e.kind = "slot"
                              /\ e.date = place[c].date /\ e.start = place[c].start
                              /\ place' = [place EXCEPT ![c] = e]
    <2>1. PICK e : e = Placing("placed", "slot", place[c].date, place[c].start) OBVIOUS
    <2>2. place' = [place EXCEPT ![c] = e] BY <1>1, <2>1 DEF DropSlotList, ScheduleTyped
    <2>3. /\ e \in PlaceState /\ e.step = "placed" /\ e.kind = "slot"
          /\ e.date = place[c].date /\ e.start = place[c].start
        BY <1>2, <2>1, PlaceMade
    <2> QED BY <2>2, <2>3
<1>4. /\ UNCHANGED <<slotManner, clock, ticks, rules, ruleChanges, page, listing>>
      /\ slotList' = IF place[c].date = DayOf(clock) THEN NoList ELSE slotList
    BY DEF DropSlotList
<1>5. \A d \in Bookers : place'[d] = IF d = c THEN e ELSE place[d] BY <1>1, <1>3, PlaceMoves
<1>6. slotList' \in {slotList, NoList} BY <1>4
<1>7. ScheduleTyped' BY <1>1, <1>3, <1>4, <1>6, PlaceMoves DEF ScheduleTyped
<1>8. \A date, start : InSlot(date, start)' \subseteq InSlot(date, start)
    BY <1>1, <1>3, <1>5 DEF InSlot
<1>9. place[c].date # slotList.day \/ slotList' = NoList BY <1>1, <1>4 DEF ScheduleTyped
<1>10. SlotsInTurn' BY <1>3, <1>4, <1>5, <1>6, <1>8, <1>9, TurnsGoOn
<1> QED BY <1>7, <1>10 DEF ScheduleInv

\* A call about a slot begins when there is none.
LEMMA ResolveSlotKept ==
    ASSUME ScheduleInv, NEW c \in Callers, NEW start \in SlotStarts(rules), ResolveSlot(c, start)
    PROVE ScheduleInv'
<1>1. /\ ScheduleTyped /\ c \in Bookers /\ rules \in RuleSets /\ clock \in Nat
      /\ place[c] = NoPlace
    BY DEF ScheduleInv, ScheduleTyped, Bookers, ResolveSlot
<1>2. DayOf(clock) \in Nat /\ start \in 0 .. Day - 1
    BY <1>1, DayFacts, StartsTyped DEF SlotSet
<1>3. PICK e \in PlaceState : /\ e.step = "resolved" /\ e.kind = "slot"
                              /\ e.date = DayOf(clock) /\ e.start = start
                              /\ place' = [place EXCEPT ![c] = e]
    <2>1. PICK e : e = Placing("resolved", "slot", DayOf(clock), start) OBVIOUS
    <2>2. place' = [place EXCEPT ![c] = e] BY <2>1 DEF ResolveSlot
    <2>3. /\ e \in PlaceState /\ e.step = "resolved" /\ e.kind = "slot"
          /\ e.date = DayOf(clock) /\ e.start = start
        BY <1>2, <2>1, PlaceMade
    <2> QED BY <2>2, <2>3
<1>4. UNCHANGED <<slotManner, clock, ticks, rules, ruleChanges, page, slotList, listing>>
    BY DEF ResolveSlot
<1>5. \A d \in Bookers : place'[d] = IF d = c THEN e ELSE place[d] BY <1>1, <1>3, PlaceMoves
<1>6. ScheduleTyped' BY <1>1, <1>3, <1>4, PlaceMoves DEF ScheduleTyped
<1>7. \A day, s : InSlot(day, s)' \subseteq InSlot(day, s) BY <1>3, <1>5 DEF InSlot
<1>8. \A day, s : /\ Booked(day, s)' \in Nat /\ Booked(day, s) \in Nat
                  /\ Booked(day, s)' <= Booked(day, s)
    BY <1>7, BookedLess, BookedTyped
<1>9. rules.maxOrders \in Int BY <1>1, LimitTyped
<1>10. ASSUME slotManner = "serial"
       PROVE (OneCall /\ ResolvedHasRoom /\ CountedHasRoom /\ ListHasRoom)'
    <2>1. ListHasRoom /\ listing = NoListing /\ \A d \in Bookers : ~InCall(d)
        BY <1>10 DEF ScheduleInv, SlotsInTurn, ResolveSlot, MayCall, SlotsQuiet, InCall
    <2>2. \A d \in Bookers : InCall(d)' => d = c BY <1>5, <2>1 DEF InCall
    <2>3. OneCall' BY <1>4, <2>1, <2>2 DEF OneCall
    <2>4. CountedHasRoom' BY <1>4, <2>1 DEF CountedHasRoom
    <2>5. Booked(DayOf(clock), start) < rules.maxOrders BY DEF ResolveSlot, Available
    <2>6. ResolvedHasRoom'
        <3>1. PICK day : day = DayOf(clock) OBVIOUS
        <3>2. Booked(day, start)' < rules.maxOrders BY <1>8, <1>9, <2>5, <3>1
        <3>3. \A d \in Bookers : place'[d].step = "resolved" => place'[d] = e
            BY <1>5, <2>2 DEF InCall
        <3>4. e.date = day /\ e.start = start BY <1>3, <3>1
        <3> QED BY <1>4, <3>2, <3>3, <3>4 DEF ResolvedHasRoom
    <2>7. ListHasRoom'
        <3> SUFFICES ASSUME slotList.held, NEW s \in slotList.free
                     PROVE Booked(slotList.day, s)' < slotList.rules.maxOrders
            BY <1>4 DEF ListHasRoom
        <3>1. \A d \in Bookers : place[d].step # "created" BY <2>1 DEF InCall
        <3>2. Booked(slotList.day, s) < slotList.rules.maxOrders
            BY <2>1, <3>1 DEF ListHasRoom
        <3>3. slotList # NoList BY DEF NoList
        <3>4. slotList.rules.maxOrders \in Int
            BY <1>1, <3>3, LimitTyped DEF ScheduleTyped, ListState
        <3>5. PICK day : day = slotList.day OBVIOUS
        <3>6. Booked(day, s)' \in Nat /\ Booked(day, s)' <= Booked(day, s)
              /\ Booked(day, s) \in Nat
            BY <1>8
        <3>7. Booked(slotList.day, s)' = Booked(day, s)' BY <1>4, <3>5
        <3> QED BY <3>2, <3>4, <3>5, <3>6, <3>7
    <2> QED BY <2>3, <2>4, <2>6, <2>7
<1> QED BY <1>4, <1>6, <1>10 DEF ScheduleInv, SlotsInTurn

\* The one step that makes a slot fuller.
LEMMA CreateInSlotKept ==
    ASSUME ScheduleInv, NEW c \in Callers, CreateInSlot(c) PROVE ScheduleInv'
<1>1. /\ ScheduleTyped /\ c \in Bookers /\ place[c] \in PlaceState /\ place[c].step = "resolved"
    BY DEF ScheduleInv, ScheduleTyped, Bookers, CreateInSlot
<1>2. place[c].date \in Nat /\ place[c].start \in 0 .. Day - 1 BY <1>1 DEF PlaceState
<1>3. PICK e \in PlaceState : /\ e.step = "created" /\ e.kind = "slot"
                              /\ e.date = place[c].date /\ e.start = place[c].start
                              /\ place' = [place EXCEPT ![c] = e]
    <2>1. PICK e : e = Placing("created", "slot", place[c].date, place[c].start) OBVIOUS
    <2>2. place' = [place EXCEPT ![c] = e] BY <1>1, <2>1 DEF CreateInSlot, ScheduleTyped
    <2>3. /\ e \in PlaceState /\ e.step = "created" /\ e.kind = "slot"
          /\ e.date = place[c].date /\ e.start = place[c].start
        BY <1>2, <2>1, PlaceMade
    <2> QED BY <2>2, <2>3
<1>4. UNCHANGED <<slotManner, clock, ticks, rules, ruleChanges, page, slotList, listing>>
    BY DEF CreateInSlot
<1>5. \A d \in Bookers : place'[d] = IF d = c THEN e ELSE place[d] BY <1>1, <1>3, PlaceMoves
<1>6. ScheduleTyped' BY <1>1, <1>3, <1>4, PlaceMoves DEF ScheduleTyped
<1>7. ASSUME slotManner = "serial"
       PROVE (OneCall /\ ResolvedHasRoom /\ CountedHasRoom /\ ListHasRoom)'
    <2>1. /\ OneCall /\ ListHasRoom
          /\ listing = NoListing /\ \A d \in Bookers : InCall(d) => d = c
        BY <1>1, <1>7 DEF ScheduleInv, SlotsInTurn, OneCall, InCall
    <2>2. \A d \in Bookers : InCall(d)' => d = c BY <1>5, <2>1 DEF InCall
    <2>3. OneCall' BY <1>4, <2>1, <2>2 DEF OneCall
    <2>4. CountedHasRoom' BY <1>4, <2>1 DEF CountedHasRoom
    <2>5. ResolvedHasRoom' BY <1>3, <1>5, <2>2 DEF ResolvedHasRoom, InCall
    <2>6. ListHasRoom'
        <3> SUFFICES ASSUME slotList.held, NEW s \in slotList.free,
                            \A d \in Bookers : place'[d].step = "created"
                                                   => place'[d].date # slotList.day
                     PROVE Booked(slotList.day, s)' < slotList.rules.maxOrders
            BY <1>4 DEF ListHasRoom
        <3>1. \A d \in Bookers : place[d].step # "created" BY <1>1, <2>1 DEF InCall
        <3>2. Booked(slotList.day, s) < slotList.rules.maxOrders
            BY <2>1, <3>1 DEF ListHasRoom
        <3>3. e.date # slotList.day BY <1>1, <1>3, <1>5
        <3>4. InSlot(slotList.day, s)' \subseteq InSlot(slotList.day, s)
            BY <1>4, <1>5, <3>3 DEF InSlot
        <3>5. /\ Booked(slotList.day, s)' \in Nat /\ Booked(slotList.day, s) \in Nat
              /\ Booked(slotList.day, s)' <= Booked(slotList.day, s)
            <4>1. PICK day : day = slotList.day OBVIOUS
            <4>2. InSlot(day, s)' \subseteq InSlot(day, s) BY <1>4, <3>4, <4>1
            <4>3. /\ Booked(day, s)' \in Nat /\ Booked(day, s) \in Nat
                  /\ Booked(day, s)' <= Booked(day, s)
                BY <4>2, BookedLess, BookedTyped
            <4> QED BY <1>4, <4>1, <4>3
        <3>6. slotList # NoList BY DEF NoList
        <3>7. slotList.rules.maxOrders \in Int
            BY <1>1, <3>6, LimitTyped DEF ScheduleTyped, ListState
        <3> QED BY <3>2, <3>5, <3>7
    <2> QED BY <2>3, <2>4, <2>5, <2>6
<1> QED BY <1>4, <1>6, <1>7 DEF ScheduleInv, SlotsInTurn

LEMMA CountSlotsKept == ASSUME ScheduleInv, CountSlots PROVE ScheduleInv'
<1>1. ScheduleTyped /\ rules \in RuleSets /\ DayOf(clock) \in Nat
    BY DayFacts DEF ScheduleInv, ScheduleTyped
<1> DEFINE day == DayOf(clock)
           free == {s \in SlotStarts(rules) : Available(rules, day, s, Booked(day, s), clock)}
<1>2. free \in SlotSet BY <1>1, StartsTyped DEF SlotSet
<1>3. listing' = [step |-> "counted", rules |-> rules, day |-> day, free |-> free]
      /\ UNCHANGED <<slotManner, clock, ticks, rules, ruleChanges, page, place, slotList>>
    BY DEF CountSlots
<1>4. \A s \in free : Booked(day, s) < rules.maxOrders BY DEF Available
<1> HIDE DEF free, day
<1>5. listing' \in ListingState BY <1>1, <1>2, <1>3 DEF ListingState, day
<1>6. ScheduleTyped' BY <1>1, <1>3, <1>5 DEF ScheduleTyped
<1>7. ASSUME slotManner = "serial"
       PROVE (OneCall /\ ResolvedHasRoom /\ CountedHasRoom /\ ListHasRoom)'
    <2>1. OneCall /\ ResolvedHasRoom /\ ListHasRoom /\ \A d \in Bookers : ~InCall(d)
        BY <1>7 DEF ScheduleInv, SlotsInTurn, CountSlots, MayCall, SlotsQuiet, InCall
    <2>2. /\ listing'.free = free /\ listing'.day = day /\ listing'.rules = rules BY <1>3
    <2>3. CountedHasRoom' BY <1>3, <1>4, <2>2 DEF CountedHasRoom, Booked
    <2>4. OneCall' BY <1>3, <2>1 DEF OneCall, InCall
    <2>5. ResolvedHasRoom' BY <1>3, <2>1 DEF ResolvedHasRoom, Booked
    <2>6. ListHasRoom' BY <1>3, <2>1 DEF ListHasRoom, Booked
    <2> QED BY <2>3, <2>4, <2>5, <2>6
<1> QED BY <1>3, <1>6, <1>7 DEF ScheduleInv, SlotsInTurn

LEMMA StoreSlotsKept == ASSUME ScheduleInv, StoreSlots PROVE ScheduleInv'
<1>1. /\ ScheduleTyped /\ listing # NoListing /\ listing \in ListingState
      /\ listing' = NoListing
      /\ UNCHANGED <<slotManner, clock, ticks, rules, ruleChanges, page, place>>
    BY DEF ScheduleInv, ScheduleTyped, StoreSlots, NoListing
<1>2. PICK new \in ListState : /\ new.held /\ new.rules = listing.rules
                               /\ new.day = listing.day /\ new.free = listing.free
                               /\ new = [held |-> TRUE, rules |-> listing.rules,
                                         day |-> listing.day, free |-> listing.free]
    BY <1>1 DEF ListState, ListingState
<1>3. \/ slotList' = new /\ new.day = DayOf(clock)
      \/ slotList' = slotList
    BY <1>2 DEF StoreSlots
<1>4. ScheduleTyped' BY <1>1, <1>2, <1>3 DEF ScheduleTyped
<1>5. ASSUME slotManner = "serial"
       PROVE (OneCall /\ ResolvedHasRoom /\ CountedHasRoom /\ ListHasRoom)'
    <2>1. OneCall /\ ResolvedHasRoom /\ CountedHasRoom /\ ListHasRoom
        BY <1>5 DEF ScheduleInv, SlotsInTurn
    <2>2. OneCall' BY <1>1, <2>1 DEF OneCall, InCall
    <2>3. ResolvedHasRoom' BY <1>1, <2>1 DEF ResolvedHasRoom, Booked
    <2>4. CountedHasRoom' BY <1>1 DEF CountedHasRoom
    <2>5. \A s \in new.free : Booked(new.day, s) < new.rules.maxOrders
        BY <1>1, <1>2, <2>1 DEF CountedHasRoom
    <2>6. \A date, s : Booked(date, s)' = Booked(date, s) BY <1>1 DEF Booked
    <2>7. ListHasRoom'
        <3> SUFFICES ASSUME slotList'.held, NEW s \in slotList'.free,
                            \A c \in Bookers : place[c].step = "created"
                                                   => place[c].date # slotList'.day
                     PROVE Booked(slotList'.day, s) < slotList'.rules.maxOrders
            <4>1. PICK list : list = slotList' OBVIOUS
            <4> QED BY <1>1, <2>6, <4>1 DEF ListHasRoom
        <3>1. CASE slotList' = new BY <2>5, <3>1
        <3>2. CASE slotList' = slotList BY <2>1, <3>2 DEF ListHasRoom
        <3> QED BY <1>3, <3>1, <3>2
    <2> QED BY <2>2, <2>3, <2>4, <2>7
<1> QED BY <1>1, <1>4, <1>5 DEF ScheduleInv, SlotsInTurn

LEMMA SaveRulesKept == ASSUME ScheduleInv, NEW r \in RuleSets, SaveRules(r) PROVE ScheduleInv'
<1>1. /\ ScheduleTyped /\ rules' = r /\ ruleChanges' = ruleChanges + 1
      /\ ruleChanges < MaxRuleChanges
      /\ UNCHANGED <<slotManner, clock, ticks, page, place, slotList, listing>>
    BY DEF ScheduleInv, SaveRules
<1>2. ruleChanges' \in 0 .. MaxRuleChanges BY <1>1, ScheduleAssumption DEF ScheduleTyped
<1>3. ScheduleTyped' BY <1>1, <1>2 DEF ScheduleTyped
<1>4. ASSUME slotManner = "serial"
       PROVE (OneCall /\ ResolvedHasRoom /\ CountedHasRoom /\ ListHasRoom)'
    <2>1. /\ OneCall /\ CountedHasRoom /\ ListHasRoom
          /\ \A d \in Bookers : place[d].step \notin {"resolved", "created"}
        BY <1>4 DEF ScheduleInv, SlotsInTurn, SaveRules, MayCall, SlotsQuiet
    <2>2. OneCall' BY <1>1, <2>1 DEF OneCall, InCall
    <2>3. ResolvedHasRoom' BY <1>1, <2>1 DEF ResolvedHasRoom
    <2>4. CountedHasRoom' BY <1>1, <2>1 DEF CountedHasRoom, Booked
    <2>5. ListHasRoom' BY <1>1, <2>1 DEF ListHasRoom, Booked
    <2> QED BY <2>2, <2>3, <2>4, <2>5
<1> QED BY <1>1, <1>3, <1>4 DEF ScheduleInv, SlotsInTurn

LEMMA TimePassesKept == ASSUME ScheduleInv, TimePasses PROVE ScheduleInv'
<1>1. /\ ScheduleTyped /\ ticks < MaxTicks /\ ticks' = ticks + 1 /\ clock' = clock + Tick
      /\ slotList' = NoList
      /\ UNCHANGED <<slotManner, rules, ruleChanges, page, place, listing>>
    BY DEF ScheduleInv, TimePasses
<1>2. ticks' \in 0 .. MaxTicks /\ clock' \in Nat
    BY <1>1, ScheduleAssumption DEF ScheduleTyped
<1>3. ScheduleTyped' BY <1>1, <1>2 DEF ScheduleTyped
<1>4. \A date, start : InSlot(date, start)' = InSlot(date, start) BY <1>1 DEF InSlot
<1>5. SlotsInTurn' BY <1>1, <1>4, TurnsGoOn
<1> QED BY <1>3, <1>5 DEF ScheduleInv

LEMMA ScheduleStutters == ASSUME ScheduleInv, UNCHANGED scheduleVars PROVE ScheduleInv'
<1>1. UNCHANGED <<slotManner, clock, ticks, rules, ruleChanges, page, place, slotList, listing>>
    BY DEF scheduleVars
<1>2. ScheduleTyped' BY <1>1 DEF ScheduleInv, ScheduleTyped
<1>3. \A date, start : InSlot(date, start)' = InSlot(date, start) BY <1>1 DEF InSlot
<1>4. SlotsInTurn' BY <1>1, <1>3, TurnsGoOn
<1> QED BY <1>2, <1>4 DEF ScheduleInv

LEMMA ScheduleStep == ScheduleInv /\ [ScheduleNext]_scheduleVars => ScheduleInv'
<1> SUFFICES ASSUME ScheduleInv, [ScheduleNext]_scheduleVars PROVE ScheduleInv' OBVIOUS
<1>1. CASE \E c \in Pickers :
          \/ OpenPicker(c) \/ PlaceExact(c)
          \/ \E minute \in page[c].plan.times : ConfirmTime(c, minute)
    BY <1>1, OpenPickerKept, PlaceExactKept, ConfirmTimeKept
<1>2. CASE \E c \in Callers :
          \/ \E start \in SlotStarts(rules) : ResolveSlot(c, start)
          \/ CreateInSlot(c) \/ DropSlotList(c)
    BY <1>2, ResolveSlotKept, CreateInSlotKept, DropSlotListKept
<1>3. CASE \E c \in Bookers : CancelPlaced(c) BY <1>3, CancelPlacedKept
<1>4. CASE CountSlots \/ StoreSlots \/ TimePasses
    BY <1>4, CountSlotsKept, StoreSlotsKept, TimePassesKept
<1>5. CASE \E r \in RuleSets : SaveRules(r) BY <1>5, SaveRulesKept
<1>6. CASE UNCHANGED scheduleVars BY <1>6, ScheduleStutters
<1> QED BY <1>1, <1>2, <1>3, <1>4, <1>5, <1>6 DEF ScheduleNext

\* An order that is created has been resolved, with room.
LEMMA RoomKept ==
    ScheduleInv /\ [ScheduleNext]_scheduleVars =>
        [slotManner = "serial" =>
            \A c \in Bookers : place[c].step = "resolved" /\ place'[c].step = "created" =>
                Booked(place[c].date, place[c].start) < rules.maxOrders]_scheduleVars
  BY DEF ScheduleInv, SlotsInTurn, ResolvedHasRoom

LEMMA ListShowsRoom == ScheduleInv => ShownHasRoom
<1> SUFFICES ASSUME ScheduleInv, slotManner = "serial", slotList.held, slotList.rules = rules,
                    SlotsQuiet
             PROVE \A s \in slotList.free : Booked(slotList.day, s) < rules.maxOrders
    BY DEF ShownHasRoom
<1>1. ListHasRoom BY DEF ScheduleInv, SlotsInTurn
<1>2. \A c \in Bookers : place[c].step # "created" BY DEF SlotsQuiet
<1> QED BY <1>1, <1>2 DEF ListHasRoom

\* Delivery times, for any rules, openings, customers and calls: while the delay ends on the
\* same day, the page offers just what the server accepts (getTimeBoundsForDate and
\* buildWheelTimeOptions against validateScheduledDateTime); while calls about slots come in
\* turn nobody is put into a full slot (resolveDeliverySlot counts, createFromCart commits
\* later), and a slot that the cached list shows as free has room.
THEOREM TimesKept == ScheduleSpec => TimesSound
<1>1. ScheduleInv => ScheduleTypeOK
  <2> SUFFICES ASSUME ScheduleTyped PROVE ScheduleTypeOK BY DEF ScheduleInv
  <2>1. \A c \in Pickers : page[c].rules \in RuleSets BY DEF ScheduleTyped, PageState
  <2>2. \A c \in Bookers : /\ place[c].step \in {"none", "chosen", "resolved", "created",
                                                 "placed", "cancelled"}
                           /\ place[c].start \in 0 .. Day - 1
    BY DEF ScheduleTyped, PlaceState
  <2>3. slotList \in ListState => slotList.rules \in RuleSets BY DEF ListState
  <2>4. slotList = NoList => ~slotList.held BY DEF NoList
  <2> QED BY <2>1, <2>2, <2>3, <2>4 DEF ScheduleTyped, ScheduleTypeOK
<1>2. ScheduleInv => ScheduleTypeOK /\ PageAndServerAgree /\ ShownHasRoom
  BY <1>1, WheelAgrees, ListShowsRoom
<1> QED BY <1>2, ScheduleInitKept, ScheduleStep, RoomKept, PTL
      DEF ScheduleSpec, TimesSound, SlotRoomKept


-----------------------------------------------------------------------------
(* Migration: what is kept *)

OldValues == {ValueOf[v] : v \in AllVariants}
ValuePairs == OldProducts \X OldValues
RunSteps == {"stores", "read", "resolve", "vary", "list", "end"}
OldOrNone == OldProducts \cup {NothingThere}
RunState ==
    [step : RunSteps, byName : [Names -> OldOrNone], byRow : [OldProducts -> OldOrNone],
     read : [OldProducts -> Nat], todo : Nat, nth : Nat, kind : ValuePairs \cup {NothingThere},
     alone : BOOLEAN, ok : BOOLEAN]
KindState == [product : OldProducts, value : OldValues, legacy : AllVariants]
ListedState ==
    [shop : Sellers, product : OldProducts, kind : ValuePairs \cup {NothingThere},
     legacy : OldOrNone, price : Nat]

TablesTyped ==
    /\ shops \subseteq Sellers /\ catalog \in [OldProducts -> Names \cup {NothingThere}]
    /\ kinds \subseteq KindState /\ listings \subseteq ListedState
MigrationTyped ==
    /\ runManner \in MigrationManners
    /\ priced \in [OldProducts -> Nat] /\ \A p \in OldProducts : priced[p] <= edits
    /\ TablesTyped /\ run \in [Runs -> RunState \cup {NoRun}]
    /\ runsMade \in 0 .. MaxRuns[runManner] /\ edits \in 0 .. MaxEdits[runManner]

\* The rows by their numbers. A listing stands on the shelf of a row when it is of its shop
\* and its name, and shows one of the row's values, or none.
RowNumbers == 1 .. Len(Rows)
VariantNumbers(n) == 1 .. Len(VariantsOf[Rows[n]])
VariantAt(n, j) == VariantsOf[Rows[n]][j]
ValueIn(kind) == IF kind = NothingThere THEN NothingThere ELSE kind[2]
HasValue(p, val) ==
    \/ val = NothingThere /\ VariantsOf[p] = <<>>
    \/ \E j \in 1 .. Len(VariantsOf[p]) : ValueOf[VariantsOf[p][j]] = val
FirstValue(p) == IF VariantsOf[p] = <<>> THEN NothingThere ELSE ValueOf[VariantsOf[p][1]]
SameShelf(n, m) == SellerOf[Rows[n]] = SellerOf[Rows[m]] /\ NameOf[Rows[n]] = NameOf[Rows[m]]
OnShelf(l, n) == l.shop = SellerOf[Rows[n]] /\ catalog[l.product] = NameOf[Rows[n]]
AtKind(n, j, k) ==
    NameOf[Rows[n]] = catalog[k.product] /\ ValueOf[VariantAt(n, j)] = k.value
KindThere(pair) == \E k \in kinds : <<k.product, k.value>> = pair

\* The tables: a global product has the name of the product it was made of; a kind is of
\* the variant it is linked to, and a listing of the rows it was made of.
CatalogFits == \A p \in OldProducts : catalog[p] \in {NameOf[p], NothingThere}
KindFits(k) ==
    /\ catalog[k.product] # NothingThere
    /\ \E n \in RowNumbers : \E j \in VariantNumbers(n) :
          AtKind(n, j, k) /\ k.legacy = VariantAt(n, j)
ListingFits(l) ==
    /\ l.shop \in shops /\ catalog[l.product] # NothingThere
    /\ l.kind # NothingThere => catalog[l.kind[1]] = catalog[l.product] /\ KindThere(l.kind)
    /\ \E n \in RowNumbers : OnShelf(l, n) /\ HasValue(Rows[n], ValueIn(l.kind))
    /\ l.legacy # NothingThere =>
          \E n \in RowNumbers : /\ Rows[n] = l.legacy /\ OnShelf(l, n)
                                /\ FirstValue(l.legacy) = ValueIn(l.kind)
KindsUnique ==
    \A k, m \in kinds : k # m =>
        <<k.product, k.value>> # <<m.product, m.value>> /\ k.legacy # m.legacy
ListingsUnique ==
    \A l, m \in listings : l # m =>
        /\ <<l.shop, l.product, l.kind>> # <<m.shop, m.product, m.kind>>
        /\ l.legacy # NothingThere => l.legacy # m.legacy
TablesFit ==
    /\ CatalogFits /\ KindsUnique /\ ListingsUnique
    /\ \A k \in kinds : KindFits(k)
    /\ \A l \in listings : ListingFits(l)

\* A run: its maps point at global products of the name, and what it is about to list is
\* of the row it is at.
AtRow(s) == Len(Rows) - s.todo + 1
RunFits(s) ==
    /\ s.todo \in 0 .. Len(Rows)
    /\ s.step \in {"stores", "read"} => s.todo = Len(Rows)
    /\ s.step \in {"resolve", "vary", "list"} => s.todo # 0
    /\ s.step = "end" => s.todo = 0
    /\ s.step \notin {"vary", "list"} => s.nth = 1 /\ s.kind = NothingThere
    /\ s.step # "stores" => shops = Sellers
    /\ \A n \in Names : s.byName[n] # NothingThere => catalog[s.byName[n]] = n
    /\ \A p \in OldProducts : s.byRow[p] # NothingThere => catalog[s.byRow[p]] = NameOf[p]
    /\ s.step \in {"vary", "list"} => s.byRow[Rows[AtRow(s)]] # NothingThere
    /\ s.step = "vary" => s.nth \in VariantNumbers(AtRow(s))
    /\ s.step = "list" =>
          IF VariantsOf[Rows[AtRow(s)]] = <<>> THEN s.nth = 1 /\ s.kind = NothingThere
          ELSE /\ s.nth \in VariantNumbers(AtRow(s)) /\ s.kind # NothingThere
               /\ s.kind[2] = ValueOf[VariantAt(AtRow(s), s.nth)] /\ KindThere(s.kind)
               /\ catalog[s.kind[1]] = NameOf[Rows[AtRow(s)]]
    /\ s.alone /\ s.step \notin {"stores", "read"} => s.read = priced

\* What an undisturbed run without errors has done so far is there, but for what it did
\* again for a later row of the same shelf.
Done(s, n, val) ==
    \/ n < AtRow(s) /\ HasValue(Rows[n], val)
    \/ n = AtRow(s) /\ \E j \in 1 .. s.nth - 1 : ValueOf[VariantAt(n, j)] = val
FirstDone(s, n) == n < AtRow(s) \/ (n = AtRow(s) /\ s.nth > 1)
KindDone(s, n, j) ==
    \/ n < AtRow(s)
    \/ n = AtRow(s) /\ (j < s.nth \/ (j = s.nth /\ s.step = "list"))
Later(m, i, n, j) == m > n \/ (m = n /\ i > j)
SameFirst(m, n) == SameShelf(m, n) /\ FirstValue(Rows[m]) = FirstValue(Rows[n])
SameKindOf(m, i, n, j) ==
    NameOf[Rows[m]] = NameOf[Rows[n]] /\ ValueOf[VariantAt(m, i)] = ValueOf[VariantAt(n, j)]
ListedSoFar(s) ==
    \A n \in RowNumbers, val \in OldValues \cup {NothingThere} :
        /\ Done(s, n, val)
        /\ \A m \in RowNumbers : m > n /\ Done(s, m, val) => ~SameShelf(m, n)
        => \E l \in listings : /\ OnShelf(l, n) /\ ValueIn(l.kind) = val
                               /\ l.price = s.read[Rows[n]]
LegacySoFar(s) ==
    \A n \in RowNumbers :
        /\ FirstDone(s, n)
        /\ \A m \in RowNumbers : m > n /\ FirstDone(s, m) => ~SameFirst(m, n)
        => \E l \in listings : l.legacy = Rows[n]
KindsSoFar(s) ==
    \A n \in RowNumbers : \A j \in VariantNumbers(n) :
        /\ KindDone(s, n, j)
        /\ \A m \in RowNumbers : \A i \in VariantNumbers(m) :
              KindDone(s, m, i) /\ Later(m, i, n, j) => ~SameKindOf(m, i, n, j)
        => \E k \in kinds : k.legacy = VariantAt(n, j)
Progress(s) == s.alone /\ s.ok => ListedSoFar(s) /\ LegacySoFar(s) /\ KindsSoFar(s)

RunsFit == \A r \in Runs : run[r] # NoRun => RunFits(run[r]) /\ Progress(run[r])

\* One run at a time: it knows every name there is, and lists kinds of its own product.
SerialFits(s) ==
    /\ s.step # "stores" =>
          \A p \in OldProducts : catalog[p] # NothingThere => s.byName[catalog[p]] # NothingThere
    /\ s.step = "list" /\ s.kind # NothingThere => s.kind[1] = s.byRow[Rows[AtRow(s)]]

\* The tables that a clean run has left hold something for every row, and each part of them
\* is as the last row that it is of has it.
AllThere ==
    /\ \A n \in RowNumbers : \E p \in OldProducts : catalog[p] = NameOf[Rows[n]]
    /\ \A n \in RowNumbers : \A j \in VariantNumbers(n) : \E k \in kinds : AtKind(n, j, k)
    /\ \A n \in RowNumbers, val \in OldValues \cup {NothingThere} : HasValue(Rows[n], val) =>
          \E l \in listings : OnShelf(l, n) /\ ValueIn(l.kind) = val
FinalKind(k) ==
    \E n \in RowNumbers : \E j \in VariantNumbers(n) :
        /\ AtKind(n, j, k) /\ k.legacy = VariantAt(n, j)
        /\ \A m \in RowNumbers : \A i \in VariantNumbers(m) :
              Later(m, i, n, j) => ~AtKind(m, i, k)
AtListing(n, l) == OnShelf(l, n) /\ HasValue(Rows[n], ValueIn(l.kind))
FirstAt(n, l) == OnShelf(l, n) /\ FirstValue(Rows[n]) = ValueIn(l.kind)
FinalPrice(l, prices) ==
    \E n \in RowNumbers : /\ AtListing(n, l) /\ l.price = prices[Rows[n]]
                          /\ \A m \in RowNumbers : m > n => ~AtListing(m, l)
FinalLegacy(l) ==
    \/ l.legacy = NothingThere /\ \A n \in RowNumbers : ~FirstAt(n, l)
    \/ \E n \in RowNumbers : /\ FirstAt(n, l) /\ l.legacy = Rows[n]
                             /\ \A m \in RowNumbers : m > n => ~FirstAt(m, l)
PairsOf(ks) == {<<k.product, k.value>> : k \in ks}
TriplesOf(ls) == {<<l.shop, l.product, l.kind>> : l \in ls}
SettledFits ==
    settled # NothingThere =>
        /\ settled = <<settled[1], Sellers, catalog, settled[4], settled[5]>> /\ shops = Sellers
        /\ AllThere
        /\ settled[4] \subseteq KindState /\ PairsOf(settled[4]) = PairsOf(kinds)
        /\ \A k \in settled[4] : FinalKind(k)
        /\ settled[5] \subseteq ListedState /\ TriplesOf(settled[5]) = TriplesOf(listings)
        /\ \A l \in settled[5] : FinalPrice(l, settled[1]) /\ FinalLegacy(l)
SerialFit ==
    runManner = "serial" =>
        /\ \A q, r \in Runs : run[q] # NoRun /\ run[r] # NoRun => q = r
        /\ NoTwins /\ ListingsOfOneProduct
        /\ \A r \in Runs : run[r] # NoRun => SerialFits(run[r])
        /\ SettledFits

MigrationInv == MigrationTyped /\ TablesFit /\ RunsFit /\ SerialFit

-----------------------------------------------------------------------------
(* Migration: rows, states of a run *)

LEMMA RowsThere ==
    ASSUME runManner \in MigrationManners
    PROVE /\ Rows \in Seq(OldProducts) /\ Len(Rows) \in Nat
          /\ \A n \in RowNumbers : Rows[n] \in RowsOf(runManner) /\ Rows[n] \in OldProducts
          /\ \A p \in RowsOf(runManner) : p \in OldProducts /\ \E n \in RowNumbers : Rows[n] = p
<1>1. Rows \in Seq(OldProducts) BY MigrationAssumption DEF Rows
<1>2. \A n \in RowNumbers : Rows[n] \in RowsOf(runManner) BY DEF RowsOf, Rows, RowNumbers
<1>3. \A p \in RowsOf(runManner) : \E n \in RowNumbers : Rows[n] = p
    BY DEF RowsOf, Rows, RowNumbers
<1>4. \A n \in RowNumbers : Rows[n] \in OldProducts BY <1>1 DEF RowNumbers
<1> QED BY <1>1, <1>2, <1>3, <1>4

LEMMA VariantsThere ==
    ASSUME NEW p \in OldProducts
    PROVE /\ VariantsOf[p] \in Seq(AllVariants) /\ Len(VariantsOf[p]) \in Nat
          /\ VariantsOf[p] = <<>> <=> Len(VariantsOf[p]) = 0
          /\ \A j \in 1 .. Len(VariantsOf[p]) :
                /\ VariantsOf[p][j] \in AllVariants
                /\ ValueOf[VariantsOf[p][j]] \in OldValues
                /\ ValueOf[VariantsOf[p][j]] # NothingThere
<1>1. VariantsOf[p] \in Seq(AllVariants) BY MigrationAssumption
<1>2. \A j \in 1 .. Len(VariantsOf[p]) : VariantsOf[p][j] \in AllVariants BY <1>1
<1>3. \A v \in AllVariants : ValueOf[v] \in OldValues /\ ValueOf[v] # NothingThere
    BY RowsAssumption DEF OldValues
<1>4. VariantsOf[p] = <<>> <=> Len(VariantsOf[p]) = 0 BY <1>1
<1> QED BY <1>1, <1>2, <1>3, <1>4

LEMMA PairsThere ==
    /\ NothingThere \notin ValuePairs /\ NothingThere \notin OldValues
    /\ NothingThere \notin OldProducts /\ NothingThere \notin Names
<1>1. ASSUME NothingThere \in ValuePairs PROVE FALSE
    <2>1. PICK p \in OldProducts, val \in OldValues : NothingThere = <<p, val>>
        BY <1>1 DEF ValuePairs
    <2>2. PICK v \in AllVariants : val = ValueOf[v] BY DEF OldValues
    <2> QED BY <2>1, <2>2, RowsAssumption
<1>2. NothingThere \notin OldValues BY RowsAssumption DEF OldValues
<1> QED BY <1>1, <1>2, RowsAssumption

\* A set of numbers of rows has a last one.
LEMMA LastThere ==
    ASSUME NEW N \in Nat, NEW B, B \subseteq 1 .. N, B # {}
    PROVE \E m \in B : \A k \in B : k <= m
<1> DEFINE C == {N - k : k \in B}
<1>1. C \in SUBSET Nat /\ C # {}
    <2>1. \A k \in B : N - k \in Nat OBVIOUS
    <2>2. PICK k \in B : TRUE OBVIOUS
    <2>3. N - k \in C OBVIOUS
    <2> QED BY <2>1, <2>3
<1>2. PICK c \in C : \A d \in C : c <= d
    <2> HIDE DEF C
    <2> QED BY <1>1, LeastNatural
<1>3. PICK m \in B : c = N - m OBVIOUS
<1>4. \A k \in B : k <= m
    <2> SUFFICES ASSUME NEW k \in B PROVE k <= m OBVIOUS
    <2>1. c <= N - k BY <1>2
    <2> QED BY <1>3, <2>1
<1> QED BY <1>4

LEMMA BusyTyped ==
    ASSUME MigrationTyped, NEW r \in Runs, run[r] # NoRun
    PROVE run[r] \in RunState
BY DEF MigrationTyped

LEMMA NoRunIsNone == \A s \in RunState : s # NoRun
BY DEF RunState, RunSteps, NoRun

LEMMA StepIsBusy ==
    ASSUME MigrationTyped, NEW r \in Runs, run[r].step \in RunSteps
    PROVE run[r] # NoRun /\ run[r] \in RunState
BY DEF MigrationTyped, RunSteps, NoRun

-----------------------------------------------------------------------------
(* Migration: a step of one run *)

\* Nothing of the tables goes, but for what a row or a kind is linked to.
Grown ==
    /\ shops \subseteq shops'
    /\ \A p \in OldProducts : catalog[p] # NothingThere => catalog'[p] = catalog[p]
    /\ \A k \in kinds : \E m \in kinds' : m.product = k.product /\ m.value = k.value

LEMMA KindStays ==
    ASSUME Grown, NEW pair, KindThere(pair)
    PROVE KindThere(pair)'
BY DEF Grown, KindThere

\* What fits the tables fits them when they have grown.
LEMMA RunFitsGrown ==
    ASSUME MigrationTyped, Grown, TablesTyped', NEW s \in RunState, RunFits(s),
           UNCHANGED <<runManner, priced>>
    PROVE RunFits(s)'
<1>1. Rows' = Rows BY DEF Rows
<1>2. shops = Sellers => shops' = Sellers BY DEF Grown, TablesTyped
<1>3. \A n \in Names : s.byName[n] # NothingThere => catalog'[s.byName[n]] = n
    <2> SUFFICES ASSUME NEW n \in Names, s.byName[n] # NothingThere
                 PROVE catalog'[s.byName[n]] = n
        OBVIOUS
    <2>1. catalog[s.byName[n]] = n BY DEF RunFits
    <2>2. s.byName[n] \in OldProducts BY DEF RunState, OldOrNone
    <2>3. n # NothingThere BY PairsThere
    <2> QED BY <2>1, <2>2, <2>3 DEF Grown
<1>4. \A p \in OldProducts : s.byRow[p] # NothingThere => catalog'[s.byRow[p]] = NameOf[p]
    <2> SUFFICES ASSUME NEW p \in OldProducts, s.byRow[p] # NothingThere
                 PROVE catalog'[s.byRow[p]] = NameOf[p]
        OBVIOUS
    <2>1. catalog[s.byRow[p]] = NameOf[p] BY DEF RunFits
    <2>2. s.byRow[p] \in OldProducts BY DEF RunState, OldOrNone
    <2>3. NameOf[p] # NothingThere BY PairsThere, MigrationAssumption
    <2> QED BY <2>1, <2>2, <2>3 DEF Grown
<1>5. s.step = "list" =>
          IF VariantsOf[Rows[AtRow(s)]] = <<>> THEN s.nth = 1 /\ s.kind = NothingThere
          ELSE /\ s.nth \in VariantNumbers(AtRow(s)) /\ s.kind # NothingThere
               /\ s.kind[2] = ValueOf[VariantAt(AtRow(s), s.nth)] /\ KindThere(s.kind)'
               /\ catalog'[s.kind[1]] = NameOf[Rows[AtRow(s)]]
    <2> SUFFICES ASSUME s.step = "list", VariantsOf[Rows[AtRow(s)]] # <<>>
                 PROVE /\ s.nth \in VariantNumbers(AtRow(s)) /\ s.kind # NothingThere
                       /\ s.kind[2] = ValueOf[VariantAt(AtRow(s), s.nth)] /\ KindThere(s.kind)'
                       /\ catalog'[s.kind[1]] = NameOf[Rows[AtRow(s)]]
        BY DEF RunFits
    <2>1. /\ s.nth \in VariantNumbers(AtRow(s)) /\ s.kind # NothingThere
          /\ s.kind[2] = ValueOf[VariantAt(AtRow(s), s.nth)] /\ KindThere(s.kind)
          /\ catalog[s.kind[1]] = NameOf[Rows[AtRow(s)]]
        BY DEF RunFits
    <2>2. s.kind[1] \in OldProducts BY <2>1 DEF RunState, ValuePairs
    <2>3. AtRow(s) \in RowNumbers
        <3>1. s.todo \in 0 .. Len(Rows) /\ s.todo # 0 BY DEF RunFits
        <3>2. Len(Rows) \in Nat BY RowsThere DEF MigrationTyped
        <3> QED BY <3>1, <3>2 DEF AtRow, RowNumbers
    <2>4. NameOf[Rows[AtRow(s)]] # NothingThere
        BY <2>3, RowsThere, PairsThere, MigrationAssumption DEF MigrationTyped
    <2> QED BY <2>1, <2>2, <2>4, KindStays DEF Grown
<1>6. AtRow(s)' = AtRow(s) BY <1>1 DEF AtRow
<1> QED BY <1>1, <1>2, <1>3, <1>4, <1>5, <1>6 DEF RunFits, VariantNumbers, VariantAt

LEMMA AlikeRuns ==
    ASSUME NEW s, NEW r \in Runs
    PROVE /\ run[r] = s => (RunFits(run[r]) <=> RunFits(s)) /\ (Progress(run[r]) <=> Progress(s))
          /\ run[r] = s => (SerialFits(run[r]) <=> SerialFits(s))
OBVIOUS

LEMMA AlikeLater ==
    ASSUME NEW s, NEW r \in Runs, run'[r] = s
    PROVE /\ RunFits(s)' => RunFits(run[r])'
          /\ Progress(s)' => Progress(run[r])'
          /\ SerialFits(s)' => SerialFits(run[r])'
<1>1. RunFits(s)' => RunFits(run[r])' BY DEF RunFits, AtRow
<1>2. Progress(s)' => Progress(run[r])'
    BY DEF Progress, ListedSoFar, LegacySoFar, KindsSoFar, Done, FirstDone, KindDone, AtRow
<1>3. SerialFits(s)' => SerialFits(run[r])' BY DEF SerialFits, AtRow
<1> QED BY <1>1, <1>2, <1>3

\* A run that goes on beside writes of another one is no longer undisturbed.
LEMMA DisturbedFits ==
    ASSUME NEW s \in RunState, NEW d, d = [s EXCEPT !.alone = FALSE]
    PROVE d \in RunState /\ (RunFits(s) => RunFits(d)) /\ Progress(d) /\ Progress(d)'
<1>1. d \in RunState BY DEF RunState
<1>2. /\ d.step = s.step /\ d.byName = s.byName /\ d.byRow = s.byRow /\ d.todo = s.todo
      /\ d.nth = s.nth /\ d.kind = s.kind /\ d.alone = FALSE
    BY DEF RunState
<1>3. RunFits(s) => RunFits(d) BY <1>2 DEF RunFits, AtRow
<1>4. Progress(d) /\ Progress(d)' BY <1>2 DEF Progress
<1> QED BY <1>1, <1>3, <1>4

LEMMA OthersStay ==
    ASSUME MigrationInv, NEW r \in Runs, NEW q \in Runs \ {r}, NEW to, Grown, TablesTyped',
           UNCHANGED <<runManner, priced>>,
           \/ run' = [run EXCEPT ![r] = to] /\ UNCHANGED market
           \/ run' = [x \in Runs |-> IF x = r THEN to ELSE Disturbed(x)]
    PROVE /\ run[q] = NoRun => run'[q] = NoRun
          /\ run[q] # NoRun => /\ run'[q] # NoRun /\ run'[q] \in RunState
                               /\ RunFits(run[q])' /\ Progress(run[q])'
<1>1. MigrationTyped BY DEF MigrationInv
<1>2. PICK s : s = run[q] OBVIOUS
<1>3. s # NoRun => s \in RunState /\ RunFits(s) /\ Progress(s)
    BY <1>1, <1>2, BusyTyped, AlikeRuns DEF MigrationInv, RunsFit
<1>4. CASE run' = [run EXCEPT ![r] = to] /\ UNCHANGED market
    <2>1. run'[q] = s BY <1>1, <1>2, <1>4 DEF MigrationTyped
    <2>2. ASSUME s # NoRun PROVE RunFits(s)' BY <1>1, <1>3, <2>2, RunFitsGrown
    <2>3. Rows' = Rows BY DEF Rows
    <2>4. Progress(s) => Progress(s)'
        BY <1>4, <2>3 DEF Progress, ListedSoFar, LegacySoFar, KindsSoFar, Done, FirstDone,
            KindDone, AtRow, RowNumbers, VariantNumbers, VariantAt, SameShelf, SameFirst,
            SameKindOf, OnShelf, market
    <2> QED BY <1>2, <1>3, <2>1, <2>2, <2>4, AlikeLater
<1>5. CASE run' = [x \in Runs |-> IF x = r THEN to ELSE Disturbed(x)]
    <2>1. run'[q] = Disturbed(q) BY <1>5
    <2>2. s = NoRun => run'[q] = NoRun BY <1>2, <2>1 DEF Disturbed, Busy
    <2>3. ASSUME s # NoRun
          PROVE /\ run'[q] # NoRun /\ run'[q] \in RunState
                /\ RunFits(run[q])' /\ Progress(run[q])'
        <3>1. PICK d : d = [s EXCEPT !.alone = FALSE] OBVIOUS
        <3>2. run'[q] = d BY <1>2, <2>1, <2>3, <3>1 DEF Disturbed, Busy
        <3>3. d \in RunState /\ RunFits(d) /\ Progress(d)' BY <1>3, <2>3, <3>1, DisturbedFits
        <3>4. RunFits(d)' BY <1>1, <3>3, RunFitsGrown
        <3> QED BY <3>2, <3>3, <3>4, AlikeLater, NoRunIsNone
    <2> QED BY <1>2, <2>2, <2>3
<1> QED BY <1>4, <1>5

LEMMA MoveKept ==
    ASSUME MigrationInv, NEW r \in Runs, NEW to \in RunState \cup {NoRun},
           Grown, TablesTyped', TablesFit',
           UNCHANGED <<runManner, priced, edits>>, runsMade' \in 0 .. MaxRuns[runManner],
           \/ run' = [run EXCEPT ![r] = to] /\ UNCHANGED market
           \/ run' = [x \in Runs |-> IF x = r THEN to ELSE Disturbed(x)],
           to # NoRun => RunFits(to)' /\ Progress(to)',
           runManner = "serial" =>
               /\ \A q \in Runs : run[q] # NoRun => q = r
               /\ NoTwins' /\ ListingsOfOneProduct' /\ SettledFits'
               /\ to # NoRun => SerialFits(to)'
    PROVE MigrationInv'
<1> USE DEF MigrationInv
<1>1. run'[r] = to BY DEF MigrationTyped
<1>2. \A q \in Runs \ {r} :
         /\ run[q] = NoRun => run'[q] = NoRun
         /\ run[q] # NoRun => /\ run'[q] # NoRun /\ run'[q] \in RunState
                              /\ RunFits(run[q])' /\ Progress(run[q])'
    BY OthersStay
<1>3. MigrationTyped'
    <2>1. \A q \in Runs : run'[q] \in RunState \cup {NoRun} BY <1>1, <1>2
    <2>2. run' = [q \in Runs |-> run'[q]] BY DEF MigrationTyped
    <2>3. run' \in [Runs -> RunState \cup {NoRun}] BY <2>1, <2>2
    <2> QED BY <2>3 DEF MigrationTyped
<1>4. RunsFit'
    <2>1. (run'[r] # NoRun) => RunFits(run[r])' /\ Progress(run[r])' BY <1>1, AlikeLater
    <2> QED BY <1>2, <2>1 DEF RunsFit
<1>5. SerialFit'
    <2> SUFFICES ASSUME runManner = "serial" PROVE SerialFit' BY DEF SerialFit
    <2>1. \A q \in Runs \ {r} : run'[q] = NoRun BY <1>2
    <2>2. (run'[r] # NoRun) => SerialFits(run[r])' BY <1>1, AlikeLater
    <2> QED BY <2>1, <2>2 DEF SerialFit
<1> QED BY <1>3, <1>4, <1>5

LEMMA PlaceThere ==
    ASSUME MigrationTyped, NEW s \in RunState, RunFits(s)
    PROVE /\ AtRow(s) \in 1 .. Len(Rows) + 1 /\ s.todo \in Nat /\ s.todo = Len(Rows) + 1 - AtRow(s)
          /\ s.step \in {"resolve", "vary", "list"} =>
                AtRow(s) \in RowNumbers /\ Rows[AtRow(s)] \in OldProducts
          /\ s.step = "end" => AtRow(s) = Len(Rows) + 1
          /\ s.step \in {"stores", "read"} => AtRow(s) = 1
<1>1. s.todo \in 0 .. Len(Rows) /\ Len(Rows) \in Nat BY RowsThere DEF RunFits, MigrationTyped
<1>2. PICK N : N = Len(Rows) OBVIOUS
<1>3. PICK t : t = s.todo OBVIOUS
<1>4. AtRow(s) = N - t + 1 BY <1>2, <1>3 DEF AtRow
<1>5. s.step \in {"resolve", "vary", "list"} => t # 0 BY <1>3 DEF RunFits
<1>6. s.step = "end" => t = 0 BY <1>3 DEF RunFits
<1>7. s.step \in {"stores", "read"} => t = N BY <1>2, <1>3 DEF RunFits
<1>8. AtRow(s) \in 1 .. N + 1 /\ t \in Nat /\ t = N + 1 - AtRow(s)
    BY <1>1, <1>2, <1>3, <1>4
<1>9. s.step \in {"resolve", "vary", "list"} => AtRow(s) \in 1 .. N
    BY <1>1, <1>2, <1>3, <1>4, <1>5
<1>10. s.step \in {"resolve", "vary", "list"} =>
          AtRow(s) \in RowNumbers /\ Rows[AtRow(s)] \in OldProducts
    BY <1>2, <1>9, RowsThere DEF RowNumbers, MigrationTyped
<1> QED BY <1>1, <1>2, <1>3, <1>4, <1>6, <1>7, <1>8, <1>10

\* Before its first row a run has nothing to show.
LEMMA NothingDone ==
    ASSUME NEW s, AtRow(s) = 1, s.nth = 1, s.step # "list", UNCHANGED runManner,
           runManner \in MigrationManners
    PROVE Progress(s) /\ Progress(s)'
<1>1. AtRow(s)' = 1 /\ RowNumbers' = RowNumbers BY DEF AtRow, RowNumbers, Rows
<1>2. \A n \in RowNumbers : n \in Nat /\ ~(n < 1) BY RowsThere DEF RowNumbers
<1>3. \A n \in RowNumbers : ~FirstDone(s, n) /\ ~FirstDone(s, n)'
    BY <1>1, <1>2 DEF FirstDone
<1>4. \A n \in RowNumbers : \A val : ~Done(s, n, val) /\ ~Done(s, n, val)'
    BY <1>1, <1>2 DEF Done
<1>5. \A n \in RowNumbers : \A j \in VariantNumbers(n) :
          j \in Nat /\ ~KindDone(s, n, j) /\ ~KindDone(s, n, j)'
    <2> SUFFICES ASSUME NEW n \in RowNumbers, NEW j \in VariantNumbers(n)
                 PROVE j \in Nat /\ ~KindDone(s, n, j) /\ ~KindDone(s, n, j)'
        OBVIOUS
    <2>1. j \in Nat /\ ~(j < 1) BY RowsThere, VariantsThere DEF VariantNumbers
    <2> QED BY <1>1, <1>2, <2>1 DEF KindDone
<1>6. \A n \in RowNumbers : VariantNumbers(n)' = VariantNumbers(n) BY DEF VariantNumbers, Rows
<1>7. ListedSoFar(s) /\ ListedSoFar(s)' BY <1>1, <1>4 DEF ListedSoFar
<1>8. LegacySoFar(s) /\ LegacySoFar(s)' BY <1>1, <1>3 DEF LegacySoFar
<1>9. KindsSoFar(s) /\ KindsSoFar(s)' BY <1>1, <1>5, <1>6 DEF KindsSoFar
<1> QED BY <1>7, <1>8, <1>9 DEF Progress

LEMMA GrownRests == UNCHANGED market => Grown
BY DEF market, Grown

\* What the tables promise rests with the tables.
LEMMA TablesRest ==
    ASSUME MigrationInv, UNCHANGED <<runManner, market>>
    PROVE /\ Grown /\ TablesTyped' /\ TablesFit'
          /\ runManner = "serial" => NoTwins' /\ ListingsOfOneProduct'
          /\ runManner = "serial" /\ settled' = settled => SettledFits'
<1>1. Rows' = Rows BY DEF Rows
<1>2. TablesTyped' BY DEF MigrationInv, MigrationTyped, TablesTyped, market
<1>3. TablesFit'
    BY <1>1 DEF MigrationInv, TablesFit, market, CatalogFits, KindsUnique, ListingsUnique,
        KindFits, ListingFits, RowNumbers, VariantNumbers, VariantAt, AtKind, OnShelf, KindThere
<1>4. runManner = "serial" => NoTwins' /\ ListingsOfOneProduct'
    BY DEF MigrationInv, SerialFit, NoTwins, ListingsOfOneProduct, market
<1>5. ASSUME runManner = "serial", settled' = settled PROVE SettledFits'
    <2>1. SettledFits BY <1>5 DEF MigrationInv, SerialFit
    <2> QED BY <1>1, <1>5, <2>1 DEF SettledFits, market, AllThere, FinalKind, FinalPrice, FinalLegacy,
        AtListing, FirstAt, RowNumbers, VariantNumbers, VariantAt, AtKind, OnShelf
<1> QED BY <1>2, <1>3, <1>4, <1>5, GrownRests

LEMMA QuietKept ==
    ASSUME MigrationInv, NEW r \in Runs, NEW to \in RunState \cup {NoRun}, GoesQuietly(r, to),
           UNCHANGED <<runManner, priced, market, edits>>,
           runsMade' \in 0 .. MaxRuns[runManner],
           to # NoRun => RunFits(to) /\ Progress(to)',
           runManner = "serial" =>
               /\ \A q \in Runs : run[q] # NoRun => q = r
               /\ settled' = settled \/ SettledFits'
               /\ to # NoRun => SerialFits(to)
    PROVE MigrationInv'
<1>1. /\ Grown /\ TablesTyped' /\ TablesFit'
      /\ runManner = "serial" => NoTwins' /\ ListingsOfOneProduct'
      /\ runManner = "serial" /\ settled' = settled => SettledFits'
    BY TablesRest
<1>2. to # NoRun => RunFits(to)' BY <1>1, RunFitsGrown DEF MigrationInv
<1>3. SerialFits(to) => SerialFits(to)' BY DEF SerialFits, market, AtRow, Rows
<1>4. run' = [run EXCEPT ![r] = to] /\ UNCHANGED market BY DEF GoesQuietly, market
<1> QED BY <1>1, <1>2, <1>3, <1>4, MoveKept

LEMMA OnlyRun ==
    ASSUME MigrationInv, NEW r \in Runs, run[r] # NoRun, runManner = "serial"
    PROVE /\ \A q \in Runs : run[q] # NoRun => q = r
          /\ SerialFits(run[r]) /\ NoTwins /\ ListingsOfOneProduct /\ SettledFits
          /\ Others(r) = {}
BY DEF MigrationInv, SerialFit, Others, Busy

LEMMA BusyFits ==
    ASSUME MigrationInv, NEW r \in Runs, run[r].step \in RunSteps
    PROVE /\ run[r] # NoRun /\ run[r] \in RunState /\ RunFits(run[r]) /\ Progress(run[r])
          /\ MigrationTyped /\ runManner \in MigrationManners
BY StepIsBusy DEF MigrationInv, RunsFit, MigrationTyped

LEMMA EndsKept ==
    ASSUME MigrationInv, NEW r \in Runs, run[r] # NoRun, GoesQuietly(r, NoRun),
           UNCHANGED <<runManner, priced, market, runsMade, edits>>,
           settled' = settled \/ (runManner = "serial" => SettledFits')
    PROVE MigrationInv'
<1>1. runsMade' \in 0 .. MaxRuns[runManner] BY DEF MigrationInv, MigrationTyped
<1> QED BY <1>1, QuietKept, OnlyRun

LEMMA InitMigrationInv == MigrationInit => MigrationInv
<1> SUFFICES ASSUME MigrationInit PROVE MigrationInv OBVIOUS
<1> USE DEF MigrationInit
<1>1. MigrationTyped
    <2>1. \A p \in OldProducts : priced[p] = 0 BY DEF NoPrices
    <2>2. priced \in [OldProducts -> Nat] BY DEF NoPrices
    <2>3. 0 \in 0 .. MaxRuns[runManner] /\ 0 \in 0 .. MaxEdits[runManner] BY MigrationAssumption
    <2> QED BY <2>1, <2>2, <2>3 DEF MigrationTyped, TablesTyped, NoRows
<1>2. TablesFit BY DEF TablesFit, CatalogFits, NoRows, KindsUnique, ListingsUnique
<1>3. RunsFit BY DEF RunsFit
<1>4. NoTwins BY DEF NoTwins, NoRows
<1>5. SerialFit BY <1>4 DEF SerialFit, ListingsOfOneProduct, SettledFits
<1> QED BY <1>1, <1>2, <1>3, <1>5 DEF MigrationInv

LEMMA BeginKept ==
    ASSUME MigrationInv, NEW r \in Runs, Begin(r)
    PROVE MigrationInv'
<1> USE DEF Begin
<1>1. PICK alone \in BOOLEAN : alone = (Others(r) = {}) OBVIOUS
<1>2. PICK to : to = Going("stores", NoNames, NoRows, NoPrices, Len(Rows), 1, NothingThere,
                           alone, TRUE)
    OBVIOUS
<1>3. MigrationTyped BY DEF MigrationInv
<1>4. Len(Rows) \in Nat BY <1>3, RowsThere DEF MigrationTyped
<1>5. /\ to.step = "stores" /\ to.byName = NoNames /\ to.byRow = NoRows /\ to.todo = Len(Rows)
      /\ to.nth = 1 /\ to.kind = NothingThere
    BY <1>2 DEF Going
<1>6. to \in RunState
    <2>1. /\ NoNames \in [Names -> OldOrNone] /\ NoRows \in [OldProducts -> OldOrNone]
          /\ NoPrices \in [OldProducts -> Nat]
        BY DEF NoNames, NoRows, NoPrices, OldOrNone
    <2> QED BY <1>2, <1>4, <2>1 DEF Going, RunState, RunSteps
<1>7. RunFits(to)
    <2>1. to.todo \in 0 .. Len(Rows) BY <1>4, <1>5
    <2> QED BY <1>5, <2>1 DEF RunFits, NoNames, NoRows
<1>8. AtRow(to) = 1
    <2>1. PICK N \in Nat : N = Len(Rows) BY <1>4
    <2> QED BY <1>5, <2>1 DEF AtRow
<1>9. Progress(to)' BY <1>3, <1>5, <1>8, NothingDone DEF MigrationTyped
<1>10. GoesQuietly(r, to) BY <1>1, <1>2
<1>11. runsMade' \in 0 .. MaxRuns[runManner]
    <2>1. MaxRuns[runManner] \in Nat BY <1>3, MigrationAssumption DEF MigrationTyped
    <2>2. PICK N \in Nat : N = MaxRuns[runManner] BY <2>1
    <2> QED BY <1>3, <2>2 DEF MigrationTyped
<1>12. SerialFits(to) BY <1>5 DEF SerialFits
<1>13. runManner = "serial" => \A q \in Runs : run[q] = NoRun BY DEF Busy
<1> QED BY <1>6, <1>7, <1>9, <1>10, <1>11, <1>12, <1>13, QuietKept

LEMMA LoadMapsKept ==
    ASSUME MigrationInv, NEW r \in Runs, LoadMaps(r)
    PROVE MigrationInv'
<1> USE DEF LoadMaps
<1>1. PICK byName \in [Names -> OldProducts \cup {NothingThere}] :
          /\ \A n \in Names :
                LET of == {p \in OldProducts : catalog[p] = n}
                IN IF of = {} THEN byName[n] = NothingThere ELSE byName[n] \in of
          /\ GoesQuietly(r, [run[r] EXCEPT
                !.step = "read", !.byName = byName,
                !.byRow = [p \in OldProducts |-> IF catalog[p] = NothingThere THEN NothingThere
                                               ELSE p]])
    OBVIOUS
<1>2. PICK byRow : byRow = [p \in OldProducts |->
                              IF catalog[p] = NothingThere THEN NothingThere ELSE p]
    OBVIOUS
<1>3. byRow \in [OldProducts -> OldOrNone] BY <1>2 DEF OldOrNone
<1>4. run[r].step \in RunSteps BY DEF RunSteps
<1>5. PICK s \in RunState : s = run[r] BY <1>4, BusyFits
<1>6. RunFits(s) /\ Progress(s) /\ MigrationTyped /\ run[r] # NoRun BY <1>4, <1>5, BusyFits
<1>7. PICK to : to = [s EXCEPT !.step = "read", !.byName = byName, !.byRow = byRow] OBVIOUS
<1>8. /\ to.step = "read" /\ to.byName = byName /\ to.byRow = byRow /\ to.todo = s.todo
      /\ to.nth = s.nth /\ to.kind = s.kind
    BY <1>7 DEF RunState
<1>9. to \in RunState BY <1>3, <1>7 DEF RunState, RunSteps, OldOrNone
<1>10. GoesQuietly(r, to)
    BY <1>1, <1>2, <1>5, <1>7
<1>11. s.step = "stores" /\ shops = Sellers BY <1>5
<1>12. RunFits(to)
    <2>1. \A n \in Names : byName[n] # NothingThere => catalog[byName[n]] = n
        BY <1>1
    <2>2. \A p \in OldProducts : byRow[p] # NothingThere => catalog[byRow[p]] = NameOf[p]
        BY <1>2, <1>6 DEF MigrationInv, TablesFit, CatalogFits
    <2> QED BY <1>6, <1>8, <1>11, <2>1, <2>2 DEF RunFits
<1>13. AtRow(to) = 1 /\ to.nth = 1
    <2>1. AtRow(s) = 1 BY <1>6, <1>11, PlaceThere
    <2>2. s.nth = 1 BY <1>6, <1>11 DEF RunFits
    <2> QED BY <1>8, <2>1, <2>2 DEF AtRow
<1>14. Progress(to)' BY <1>6, <1>8, <1>13, NothingDone DEF MigrationTyped
<1>15. SerialFits(to)
    <2> SUFFICES ASSUME NEW p \in OldProducts, catalog[p] # NothingThere
                 PROVE byName[catalog[p]] # NothingThere
        BY <1>8 DEF SerialFits
    <2>1. catalog[p] \in Names BY <1>6 DEF MigrationTyped, TablesTyped
    <2>2. byName[catalog[p]] \in {q \in OldProducts : catalog[q] = catalog[p]} BY <1>1, <2>1
    <2> QED BY <2>2, PairsThere
<1>16. runsMade' \in 0 .. MaxRuns[runManner] BY <1>6 DEF MigrationTyped
<1> QED BY <1>6, <1>9, <1>10, <1>12, <1>14, <1>15, <1>16, QuietKept, OnlyRun

LEMMA ReadRowsKept ==
    ASSUME MigrationInv, NEW r \in Runs, ReadRows(r)
    PROVE MigrationInv'
<1> USE DEF ReadRows
<1>1. run[r].step \in RunSteps BY DEF RunSteps
<1>2. PICK s \in RunState : s = run[r] BY <1>1, BusyFits
<1>3. RunFits(s) /\ MigrationTyped /\ run[r] # NoRun BY <1>1, <1>2, BusyFits
<1>4. PICK step : step = IF Rows = <<>> THEN "end" ELSE "resolve" OBVIOUS
<1>5. PICK prices \in [OldProducts -> Nat] : prices = priced BY <1>3 DEF MigrationTyped
<1>6. PICK to : to = [s EXCEPT !.step = step, !.read = prices] OBVIOUS
<1>7. /\ to.step = step /\ to.byName = s.byName /\ to.byRow = s.byRow /\ to.todo = s.todo
      /\ to.nth = s.nth /\ to.kind = s.kind /\ to.read = priced
    BY <1>5, <1>6 DEF RunState
<1>8. to \in RunState BY <1>4, <1>5, <1>6 DEF RunState, RunSteps
<1>9. GoesQuietly(r, to) BY <1>2, <1>4, <1>5, <1>6
<1>10. s.step = "read" BY <1>2
<1>11. AtRow(s) = 1 /\ s.nth = 1 /\ s.kind = NothingThere /\ shops = Sellers /\ s.todo = Len(Rows)
    BY <1>3, <1>10, PlaceThere DEF RunFits
<1>12. step = "end" => s.todo = 0 BY <1>4, <1>11
<1>13. step = "resolve" => s.todo # 0
    <2>1. Rows \in Seq(OldProducts) BY <1>3, RowsThere DEF MigrationTyped
    <2> QED BY <1>4, <1>11, <2>1
<1>14. RunFits(to)
    <2>1. step \in {"end", "resolve"} BY <1>4
    <2> QED BY <1>3, <1>7, <1>11, <1>12, <1>13, <2>1 DEF RunFits
<1>15. AtRow(to) = 1 BY <1>7, <1>11 DEF AtRow
<1>16. Progress(to)'
    <2>1. to.step # "list" /\ to.nth = 1 BY <1>4, <1>7, <1>11
    <2> QED BY <1>3, <1>15, <2>1, NothingDone DEF MigrationTyped
<1>17. SerialFits(s) => SerialFits(to) BY <1>4, <1>7, <1>10 DEF SerialFits
<1>18. runsMade' \in 0 .. MaxRuns[runManner] BY <1>3 DEF MigrationTyped
<1> QED BY <1>2, <1>3, <1>8, <1>9, <1>14, <1>16, <1>17, <1>18, QuietKept, OnlyRun, AlikeRuns

LEMMA MakeStoreKept ==
    ASSUME MigrationInv, NEW r \in Runs, NEW b \in Sellers, MakeStore(r, b)
    PROVE MigrationInv'
<1> USE DEF MakeStore
<1>1. run[r].step \in RunSteps BY DEF RunSteps
<1>2. PICK s \in RunState : s = run[r] BY <1>1, BusyFits
<1>3. RunFits(s) /\ Progress(s) /\ MigrationTyped /\ run[r] # NoRun BY <1>1, <1>2, BusyFits
<1>4. Grown /\ TablesTyped'
    BY <1>3 DEF Grown, MigrationTyped, TablesTyped
<1>5. Rows' = Rows BY DEF Rows
<1>6. TablesFit'
    <2>1. \A l \in listings : ListingFits(l)' \/ ~ListingFits(l)
        BY <1>5 DEF ListingFits, RowNumbers, OnShelf, KindThere
    <2> QED BY <1>5, <2>1 DEF MigrationInv, TablesFit, CatalogFits, KindsUnique, ListingsUnique,
        KindFits, RowNumbers, VariantNumbers, VariantAt, AtKind
<1>7. s.step = "stores" BY <1>2
<1>8. RunFits(s)' BY <1>3, <1>4, RunFitsGrown
<1>9. Progress(s)'
    <2>1. AtRow(s) = 1 /\ s.nth = 1 BY <1>3, <1>7, PlaceThere DEF RunFits
    <2> QED BY <1>3, <1>7, <2>1, NothingDone DEF MigrationTyped
<1>10. ASSUME runManner = "serial"
       PROVE NoTwins' /\ ListingsOfOneProduct' /\ SettledFits' /\ SerialFits(s)'
    <2>1. NoTwins /\ ListingsOfOneProduct /\ SettledFits /\ SerialFits(s)
        BY <1>2, <1>3, <1>10, OnlyRun, AlikeRuns
    <2>2. settled = NothingThere BY <2>1 DEF SettledFits
    <2>3. SettledFits' BY <2>2 DEF SettledFits
    <2>4. SerialFits(s)' BY <1>7 DEF SerialFits
    <2> QED BY <2>1, <2>3, <2>4 DEF NoTwins, ListingsOfOneProduct
<1>11. run' = [x \in Runs |-> IF x = r THEN s ELSE Disturbed(x)] BY <1>2 DEF Goes
<1>12. runsMade' \in 0 .. MaxRuns[runManner] BY <1>3 DEF MigrationTyped
<1> QED BY <1>3, <1>4, <1>6, <1>8, <1>9, <1>10, <1>11, <1>12, MoveKept, OnlyRun

LEMMA EditRowKept ==
    ASSUME MigrationInv, NEW p \in RowsOf(runManner), EditRow(p)
    PROVE MigrationInv'
<1> USE DEF EditRow
<1>1. MigrationTyped BY DEF MigrationInv
<1>2. UNCHANGED <<shops, catalog, kinds, listings>> /\ UNCHANGED market /\ Rows' = Rows
    BY DEF market, Rows
<1>3. TablesTyped' /\ TablesFit' /\ (runManner = "serial" =>
          NoTwins' /\ ListingsOfOneProduct' /\ SettledFits')
    BY TablesRest, <1>2
<1>4. \A q \in Runs :
         /\ run[q] = NoRun => run'[q] = NoRun
         /\ run[q] # NoRun => /\ run'[q] # NoRun /\ run'[q] \in RunState
                              /\ RunFits(run[q])' /\ Progress(run[q])'
                              /\ SerialFits(run[q]) => SerialFits(run[q])'
    <2> SUFFICES ASSUME NEW q \in Runs
                 PROVE /\ run[q] = NoRun => run'[q] = NoRun
                       /\ run[q] # NoRun =>
                              /\ run'[q] # NoRun /\ run'[q] \in RunState
                              /\ RunFits(run[q])' /\ Progress(run[q])'
                              /\ SerialFits(run[q]) => SerialFits(run[q])'
        OBVIOUS
    <2>1. run'[q] = Disturbed(q) OBVIOUS
    <2>2. run[q] = NoRun => run'[q] = NoRun BY <2>1 DEF Disturbed, Busy
    <2>3. ASSUME run[q] # NoRun
          PROVE /\ run'[q] # NoRun /\ run'[q] \in RunState
                /\ RunFits(run[q])' /\ Progress(run[q])'
                /\ SerialFits(run[q]) => SerialFits(run[q])'
        <3>1. PICK s \in RunState : s = run[q] BY <1>1, <2>3, BusyTyped
        <3>2. RunFits(s) BY <2>3, <3>1 DEF MigrationInv, RunsFit
        <3>3. PICK d : d = [s EXCEPT !.alone = FALSE] OBVIOUS
        <3>4. run'[q] = d BY <2>1, <2>3, <3>1, <3>3 DEF Disturbed, Busy
        <3>5. d \in RunState /\ RunFits(d) /\ Progress(d)' BY <3>2, <3>3, DisturbedFits
        <3>6. d.alone = FALSE /\ d.step = s.step /\ d.byName = s.byName /\ d.byRow = s.byRow
              /\ d.todo = s.todo /\ d.kind = s.kind
            BY <3>3 DEF RunState
        <3>7. RunFits(d)'
            BY <1>2, <3>5, <3>6 DEF RunFits, AtRow, VariantNumbers, VariantAt, KindThere
        <3>8. SerialFits(s) => SerialFits(d)' BY <1>2, <3>6 DEF SerialFits, AtRow
        <3> QED BY <3>1, <3>4, <3>5, <3>7, <3>8, AlikeLater, AlikeRuns, NoRunIsNone
    <2> QED BY <2>2, <2>3
<1>5. MigrationTyped'
    <2>1. p \in OldProducts BY <1>1, RowsThere DEF MigrationTyped
    <2>2. PICK M \in Nat : M = MaxEdits[runManner] BY <1>1, MigrationAssumption DEF MigrationTyped
    <2>3. edits \in Nat /\ edits' = edits + 1 /\ edits' \in 0 .. M
        BY <1>1, <2>2 DEF MigrationTyped
    <2>4. priced' \in [OldProducts -> Nat] BY <1>1, <2>1 DEF MigrationTyped
    <2>5. \A q \in OldProducts : priced[q] \in Nat /\ priced[q] <= edits
        BY <1>1 DEF MigrationTyped
    <2>6. priced'[p] = priced[p] + 1 /\ \A q \in OldProducts \ {p} : priced'[q] = priced[q]
        BY <1>1, <2>1 DEF MigrationTyped
    <2>7. \A q \in OldProducts : priced'[q] <= edits'
        BY <2>1, <2>3, <2>5, <2>6
    <2>8. run' \in [Runs -> RunState \cup {NoRun}] BY <1>4
    <2> QED BY <1>1, <1>3, <2>2, <2>3, <2>4, <2>7, <2>8 DEF MigrationTyped
<1>6. RunsFit' BY <1>4 DEF RunsFit
<1>7. SerialFit'
    BY <1>3, <1>4 DEF SerialFit, MigrationInv
<1> QED BY <1>3, <1>5, <1>6, <1>7 DEF MigrationInv

-----------------------------------------------------------------------------
(* Migration: a product is resolved *)

LEMMA NextFits ==
    ASSUME MigrationTyped, NEW s \in RunState, RunFits(s), s.step \in {"resolve", "vary", "list"},
           NEW ok \in BOOLEAN, NEW to, to = NextRow(s, ok)
    PROVE /\ to \in RunState /\ RunFits(to) /\ AtRow(to) = AtRow(s) + 1
          /\ to.nth = 1 /\ to.step \in {"resolve", "end"} /\ to.read = s.read
          /\ to.alone = s.alone /\ (to.ok <=> s.ok /\ ok)
          /\ SerialFits(s) => SerialFits(to)
<1>1. s.todo \in 0 .. Len(Rows) /\ s.todo # 0 /\ Len(Rows) \in Nat BY RowsThere
          DEF RunFits, MigrationTyped
<1>2. PICK N \in Nat : N = Len(Rows) BY <1>1
<1>3. PICK t \in 1 .. N : t = s.todo BY <1>1, <1>2
<1>4. PICK u \in 0 .. N - 1 : u = t - 1 BY <1>2, <1>3
<1>5. PICK step \in {"resolve", "end"} : step = IF t = 1 THEN "end" ELSE "resolve" OBVIOUS
<1>6. PICK sound \in BOOLEAN : sound = (s.ok /\ ok) BY DEF RunState
<1>7. to = [s EXCEPT !.step = step, !.todo = u, !.nth = 1, !.kind = NothingThere, !.ok = sound]
    BY <1>3, <1>4, <1>5, <1>6 DEF NextRow
<1>8. /\ to.step = step /\ to.byName = s.byName /\ to.byRow = s.byRow /\ to.todo = u
      /\ to.nth = 1 /\ to.kind = NothingThere /\ to.read = s.read /\ to.alone = s.alone
      /\ to.ok = sound
    BY <1>7 DEF RunState
<1>9. to \in RunState
    <2>1. u \in Nat /\ 1 \in Nat BY <1>2, <1>4
    <2>2. PICK one \in Nat : one = 1 OBVIOUS
    <2>3. step \in RunSteps BY <1>5 DEF RunSteps
    <2>4. to = [s EXCEPT !.step = step, !.todo = u, !.nth = one, !.kind = NothingThere,
                         !.ok = sound]
        BY <1>7, <2>2
    <2> QED BY <1>6, <2>1, <2>3, <2>4 DEF RunState
<1>10. RunFits(to)
    <2>1. u \in 0 .. Len(Rows) /\ (step = "resolve" => u # 0) /\ (step = "end" => u = 0)
        BY <1>2, <1>3, <1>4, <1>5
    <2> QED BY <1>5, <1>8, <2>1 DEF RunFits
<1>11. AtRow(to) = AtRow(s) + 1 BY <1>2, <1>3, <1>4, <1>8 DEF AtRow
<1>12. SerialFits(s) => SerialFits(to) BY <1>5, <1>8 DEF SerialFits
<1> QED BY <1>5, <1>6, <1>8, <1>9, <1>10, <1>11, <1>12

\* A row that cannot be done is passed over, and the run is no longer without errors.
LEMMA FailsKept ==
    ASSUME MigrationInv, NEW r \in Runs, run[r].step \in {"resolve", "vary", "list"},
           GoesQuietly(r, NextRow(run[r], FALSE)),
           UNCHANGED <<runManner, priced, market, runsMade, edits, settled>>
    PROVE MigrationInv'
<1>1. run[r].step \in RunSteps BY DEF RunSteps
<1>2. PICK s \in RunState : s = run[r] BY <1>1, BusyFits
<1>3. RunFits(s) /\ MigrationTyped /\ run[r] # NoRun BY <1>1, <1>2, BusyFits
<1>4. PICK to : to = NextRow(s, FALSE) OBVIOUS
<1>5. s.step \in {"resolve", "vary", "list"} BY <1>2
<1>6. /\ to \in RunState /\ RunFits(to) /\ ~to.ok
      /\ SerialFits(s) => SerialFits(to)
    BY <1>3, <1>4, <1>5, NextFits
<1>7. Progress(to)' BY <1>6 DEF Progress
<1>8. GoesQuietly(r, to) BY <1>2, <1>4
<1>9. runsMade' \in 0 .. MaxRuns[runManner] BY <1>3 DEF MigrationTyped
<1> QED BY <1>2, <1>3, <1>6, <1>7, <1>8, <1>9, QuietKept, OnlyRun, AlikeRuns

LEMMA SameProgress ==
    ASSUME MigrationTyped, TablesFit, Grown, UNCHANGED <<runManner, kinds, listings>>,
           NEW s, NEW to, Progress(s), AtRow(to) = AtRow(s), to.nth = s.nth, to.read = s.read,
           to.alone = s.alone, to.ok = s.ok,
           \A n \in RowNumbers : \A j \in VariantNumbers(n) :
               KindDone(to, n, j) <=> KindDone(s, n, j)
    PROVE Progress(to)'
<1> SUFFICES ASSUME to.alone, to.ok PROVE ListedSoFar(to)' /\ LegacySoFar(to)' /\ KindsSoFar(to)'
    BY DEF Progress
<1>1. ListedSoFar(s) /\ LegacySoFar(s) /\ KindsSoFar(s) BY DEF Progress
<1>2. Rows' = Rows /\ RowNumbers' = RowNumbers BY DEF Rows, RowNumbers
<1>3. AtRow(to)' = AtRow(s) BY <1>2 DEF AtRow
<1>4. \A n \in RowNumbers : \A val : Done(to, n, val)' <=> Done(s, n, val)
    BY <1>2, <1>3 DEF Done, VariantAt
<1>5. \A n \in RowNumbers : FirstDone(to, n)' <=> FirstDone(s, n) BY <1>3 DEF FirstDone
<1>6. \A n \in RowNumbers : VariantNumbers(n)' = VariantNumbers(n) BY <1>2 DEF VariantNumbers
<1>7. \A n \in RowNumbers : \A j \in VariantNumbers(n) : KindDone(to, n, j)' <=> KindDone(s, n, j)
    BY <1>2, <1>3 DEF KindDone, AtRow
<1>8. \A l \in listings, n \in RowNumbers : OnShelf(l, n) => OnShelf(l, n)'
    <2> SUFFICES ASSUME NEW l \in listings, NEW n \in RowNumbers, OnShelf(l, n)
                 PROVE OnShelf(l, n)'
        OBVIOUS
    <2>1. l.product \in OldProducts BY DEF MigrationTyped, TablesTyped, ListedState
    <2>2. catalog[l.product] # NothingThere BY DEF TablesFit, ListingFits
    <2> QED BY <1>2, <2>1, <2>2 DEF OnShelf, Grown
<1>9. ListedSoFar(to)'
    <2> SUFFICES ASSUME NEW n \in RowNumbers, NEW val \in OldValues \cup {NothingThere},
                        Done(s, n, val),
                        \A m \in RowNumbers : m > n /\ Done(s, m, val) => ~SameShelf(m, n)
                 PROVE \E l \in listings : /\ OnShelf(l, n)' /\ ValueIn(l.kind) = val
                                           /\ l.price = s.read[Rows[n]]
        BY <1>2, <1>4 DEF ListedSoFar, SameShelf
    <2> QED BY <1>1, <1>8 DEF ListedSoFar
<1>10. LegacySoFar(to)' BY <1>1, <1>2, <1>5 DEF LegacySoFar, SameFirst, SameShelf
<1>11. KindsSoFar(to)' BY <1>1, <1>2, <1>6, <1>7 DEF KindsSoFar, SameKindOf, VariantAt
<1> QED BY <1>9, <1>10, <1>11

\* The tables when only a global product is new.
LEMMA TablesFitCatalog ==
    ASSUME MigrationTyped, TablesFit, Grown, UNCHANGED <<runManner, shops, kinds, listings>>,
           CatalogFits'
    PROVE TablesFit'
<1>1. Rows' = Rows BY DEF Rows
<1>2. \A k \in kinds : KindFits(k)'
    <2> SUFFICES ASSUME NEW k \in kinds PROVE KindFits(k)' OBVIOUS
    <2>1. KindFits(k) /\ k.product \in OldProducts
        BY DEF TablesFit, MigrationTyped, TablesTyped, KindState
    <2>2. catalog'[k.product] = catalog[k.product] BY <2>1 DEF KindFits, Grown
    <2> QED BY <1>1, <2>1, <2>2 DEF KindFits, RowNumbers, VariantNumbers, VariantAt, AtKind
<1>3. \A l \in listings : ListingFits(l)'
    <2> SUFFICES ASSUME NEW l \in listings PROVE ListingFits(l)' OBVIOUS
    <2>1. ListingFits(l) /\ l.product \in OldProducts /\ l.kind \in ValuePairs \cup {NothingThere}
        BY DEF TablesFit, MigrationTyped, TablesTyped, ListedState
    <2>2. catalog'[l.product] = catalog[l.product] BY <2>1 DEF ListingFits, Grown
    <2>3. l.kind # NothingThere => catalog'[l.kind[1]] = catalog[l.kind[1]]
        BY <2>1 DEF ListingFits, Grown, ValuePairs
    <2> QED BY <1>1, <2>1, <2>2, <2>3 DEF ListingFits, RowNumbers, OnShelf, KindThere
<1> QED BY <1>2, <1>3 DEF TablesFit, KindsUnique, ListingsUnique

ResolvedRun(s, p, known, byName) ==
    [s EXCEPT !.step = Listing(p), !.byRow[p] = known, !.byName = byName]

\* The run when its row has a global product.
LEMMA ResolvedFits ==
    ASSUME MigrationInv, Grown, TablesTyped', UNCHANGED <<runManner, priced, kinds, listings>>,
           NEW s \in RunState, RunFits(s), Progress(s), s.step = "resolve",
           NEW p, p = Rows[AtRow(s)],
           NEW known \in OldProducts, catalog'[known] = NameOf[p],
           NEW byName \in [Names -> OldOrNone],
           \A n \in Names : byName[n] # NothingThere => catalog'[byName[n]] = n,
           NEW to,
           to = ResolvedRun(s, p, known, byName)
    PROVE /\ to \in RunState /\ RunFits(to)' /\ Progress(to)'
          /\ to.byName = byName /\ to.step # "stores"
          /\ to.step = "list" => to.kind = NothingThere
<1>1. MigrationTyped /\ TablesFit /\ runManner \in MigrationManners
    BY DEF MigrationInv, MigrationTyped
<1>2. PICK c \in RowNumbers : c = AtRow(s) BY <1>1, PlaceThere
<1>3. p \in OldProducts /\ p = Rows[c] BY <1>1, <1>2, PlaceThere
<1>4. PICK byRow \in [OldProducts -> OldOrNone] : byRow = [s.byRow EXCEPT ![p] = known]
    BY DEF RunState, OldOrNone
<1>5. PICK step : step = Listing(p) OBVIOUS
<1>6. step \in {"vary", "list"} /\ step \in RunSteps BY <1>5 DEF Listing, RunSteps
<1>7. to = [s EXCEPT !.step = step, !.byRow = byRow, !.byName = byName]
    BY <1>4, <1>5 DEF ResolvedRun
<1>8. /\ to.step = step /\ to.byName = byName /\ to.byRow = byRow /\ to.todo = s.todo
      /\ to.nth = s.nth /\ to.kind = s.kind /\ to.read = s.read /\ to.alone = s.alone
      /\ to.ok = s.ok
    BY <1>7 DEF RunState
<1>9. to \in RunState BY <1>6, <1>7 DEF RunState
<1>10. s.nth = 1 /\ s.kind = NothingThere /\ s.todo # 0 /\ shops = Sellers BY DEF RunFits
<1>11. RunFits(s)' BY <1>1, RunFitsGrown
<1>12. Rows' = Rows BY DEF Rows
<1>13. AtRow(to) = c /\ AtRow(to)' = c /\ AtRow(s)' = c BY <1>2, <1>8, <1>12 DEF AtRow
<1>14. \A q \in OldProducts : byRow[q] # NothingThere => catalog'[byRow[q]] = NameOf[q]
    <2>1. s.byRow \in [OldProducts -> OldOrNone] BY DEF RunState
    <2>2. \A q \in OldProducts : byRow[q] = IF q = p THEN known ELSE s.byRow[q]
        BY <1>3, <1>4, <2>1
    <2>3. \A q \in OldProducts : s.byRow[q] # NothingThere => catalog'[s.byRow[q]] = NameOf[q]
        BY <1>11 DEF RunFits
    <2> QED BY <2>2, <2>3
<1>15. byRow[Rows[c]] # NothingThere
    <2>1. byRow[p] = known BY <1>3, <1>4 DEF RunState
    <2> QED BY <1>3, <2>1, PairsThere
<1>16. step = "vary" => 1 \in 1 .. Len(VariantsOf[Rows[c]])
    <2>1. step = "vary" => VariantsOf[p] # <<>> BY <1>5 DEF Listing
    <2>2. step = "vary" => 1 \in 1 .. Len(VariantsOf[p]) BY <1>3, <2>1, VariantsThere
    <2> QED BY <1>3, <2>2
<1>17. step = "list" => VariantsOf[Rows[c]] = <<>> BY <1>3, <1>5 DEF Listing
<1>18. RunFits(to)'
    <2>1. to.step = "vary" => to.nth \in VariantNumbers(AtRow(to))'
        BY <1>8, <1>10, <1>12, <1>13, <1>16 DEF VariantNumbers
    <2>2. to.todo \in 0 .. Len(Rows') BY <1>8, <1>11 DEF RunFits
    <2>3. shops' = Sellers BY <1>10 DEF Grown, TablesTyped
    <2>4. to.read = priced \/ ~to.alone \/ s.step \in {"stores", "read"}
        BY <1>8 DEF RunFits
    <2>5. \A n \in Names : to.byName[n] # NothingThere => catalog'[to.byName[n]] = n BY <1>8
    <2> QED BY <1>6, <1>8, <1>10, <1>12, <1>13, <1>14, <1>15, <1>17, <2>1, <2>2, <2>3, <2>4, <2>5
            DEF RunFits
<1>19. \A n \in RowNumbers : \A j \in VariantNumbers(n) :
           KindDone(to, n, j) <=> KindDone(s, n, j)
    <2> SUFFICES ASSUME NEW n \in RowNumbers, NEW j \in VariantNumbers(n)
                 PROVE KindDone(to, n, j) <=> KindDone(s, n, j)
        OBVIOUS
    <2>1. step = "list" /\ n = c => FALSE
        <3>1. step = "list" /\ n = c => j \in 1 .. 0 BY <1>3, <1>17, VariantsThere
                  DEF VariantNumbers
        <3> QED BY <3>1
    <2> QED BY <1>2, <1>8, <1>13, <2>1 DEF KindDone
<1>20. Progress(to)' BY <1>1, <1>2, <1>8, <1>13, <1>19, SameProgress
<1> QED BY <1>6, <1>8, <1>9, <1>10, <1>18, <1>20

LEMMA ResolveKept ==
    ASSUME MigrationInv, NEW r \in Runs, Resolve(r)
    PROVE MigrationInv'
<1>1. run[r].step = "resolve" /\ run[r].step \in RunSteps BY DEF Resolve, RunSteps
<1>2. PICK s \in RunState : s = run[r] BY <1>1, BusyFits
<1>3. RunFits(s) /\ Progress(s) /\ MigrationTyped /\ run[r] # NoRun /\ s.step = "resolve"
    BY <1>1, <1>2, BusyFits
<1>4. PICK p \in OldProducts : p = Rows[AtRow(s)] BY <1>3, PlaceThere
<1>5. RowAt(r) = p BY <1>2, <1>4 DEF RowAt, AtRow
<1>6. PICK name \in Names : name = NameOf[p] BY MigrationAssumption
<1>7. PICK known : known = KnownProduct(r, p) OBVIOUS
<1>8. known = IF s.byRow[p] # NothingThere THEN s.byRow[p] ELSE s.byName[name]
    BY <1>2, <1>6, <1>7 DEF KnownProduct
<1>9. UNCHANGED <<runManner, priced, shops, kinds, listings, runsMade, edits, settled>>
    BY DEF Resolve
<1>10. runsMade' \in 0 .. MaxRuns[runManner] BY <1>3, <1>9 DEF MigrationTyped
<1>11. s.byName \in [Names -> OldOrNone] /\ s.byRow \in [OldProducts -> OldOrNone]
    BY DEF RunState
<1>12. \/ /\ known # NothingThere
          /\ GoesQuietly(r, [s EXCEPT !.step = Listing(p), !.byRow[p] = known])
          /\ UNCHANGED catalog
       \/ /\ known = NothingThere /\ catalog[p] = NothingThere
          /\ catalog' = [catalog EXCEPT ![p] = name]
          /\ Goes(r, [s EXCEPT !.step = Listing(p), !.byRow[p] = p, !.byName[name] = p])
       \/ GoesQuietly(r, NextRow(s, FALSE)) /\ UNCHANGED catalog
    BY <1>2, <1>5, <1>6, <1>7 DEF Resolve
<1>13. CASE /\ known # NothingThere
            /\ GoesQuietly(r, [s EXCEPT !.step = Listing(p), !.byRow[p] = known])
            /\ UNCHANGED catalog
    <2>1. UNCHANGED market BY <1>9, <1>13 DEF market
    <2>2. known \in OldProducts BY <1>8, <1>11, <1>13 DEF OldOrNone
    <2>3. catalog[known] = NameOf[p] BY <1>3, <1>6, <1>8, <1>13 DEF RunFits
    <2>4. PICK to : to = [s EXCEPT !.step = Listing(p), !.byRow[p] = known] OBVIOUS
    <2>5. Grown /\ TablesTyped' BY <1>9, <2>1, TablesRest
    <2>6. PICK byName \in [Names -> OldOrNone] : byName = s.byName BY <1>11
    <2>7. \A n \in Names : byName[n] # NothingThere => catalog'[byName[n]] = n
        BY <1>3, <1>13, <2>6 DEF RunFits
    <2>8. to = ResolvedRun(s, p, known, byName) BY <2>4, <2>6 DEF RunState, ResolvedRun
    <2>9. catalog'[known] = NameOf[p] BY <1>13, <2>3
    <2>10. /\ to \in RunState /\ RunFits(to)' /\ Progress(to)'
           /\ to.byName = byName /\ to.step # "stores"
           /\ to.step = "list" => to.kind = NothingThere
        BY <1>3, <1>4, <1>9, <2>2, <2>8, <2>5, <2>7, <2>9, ResolvedFits
    <2>11. RunFits(to)
        BY <1>9, <2>1, <2>10 DEF RunFits, market, AtRow, Rows, VariantNumbers, VariantAt, KindThere
    <2>12. SerialFits(s) => SerialFits(to) BY <1>3, <2>6, <2>10 DEF SerialFits
    <2> QED BY <1>2, <1>3, <1>9, <1>10, <1>13, <2>1, <2>4, <2>10, <2>11, <2>12, QuietKept, OnlyRun,
            AlikeRuns
<1>14. CASE /\ known = NothingThere /\ catalog[p] = NothingThere
            /\ catalog' = [catalog EXCEPT ![p] = name]
            /\ Goes(r, [s EXCEPT !.step = Listing(p), !.byRow[p] = p, !.byName[name] = p])
    <2>1. catalog \in [OldProducts -> Names \cup {NothingThere}]
        BY <1>3 DEF MigrationTyped, TablesTyped
    <2>2. Grown BY <1>9, <1>14, <2>1 DEF Grown
    <2>3. TablesTyped'
        <3>1. catalog' \in [OldProducts -> Names \cup {NothingThere}] BY <1>14, <2>1
        <3> QED BY <1>3, <1>9, <3>1 DEF MigrationTyped, TablesTyped
    <2>4. catalog'[p] = name /\ \A q \in OldProducts \ {p} : catalog'[q] = catalog[q]
        BY <1>14, <2>1
    <2>5. CatalogFits' BY <1>6, <2>4 DEF MigrationInv, TablesFit, CatalogFits
    <2>6. TablesFit' BY <1>3, <1>9, <2>2, <2>5, TablesFitCatalog DEF MigrationInv
    <2>7. PICK byName : byName = [s.byName EXCEPT ![name] = p] OBVIOUS
    <2>8. /\ byName \in [Names -> OldOrNone] /\ byName[name] = p
          /\ \A n \in Names \ {name} : byName[n] = s.byName[n]
        BY <1>11, <2>7 DEF OldOrNone
    <2>9. RunFits(s)' BY <1>3, <1>9, <2>2, <2>3, RunFitsGrown
    <2>10. \A n \in Names : byName[n] # NothingThere => catalog'[byName[n]] = n
        BY <2>4, <2>8, <2>9 DEF RunFits
    <2>11. PICK to : to = ResolvedRun(s, p, p, byName) OBVIOUS
    <2>12. to = [s EXCEPT !.step = Listing(p), !.byRow[p] = p, !.byName[name] = p]
        BY <2>7, <2>11 DEF RunState, ResolvedRun
    <2>13. catalog'[p] = NameOf[p] BY <1>6, <2>4
    <2>14. /\ to \in RunState /\ RunFits(to)' /\ Progress(to)'
           /\ to.byName = byName /\ to.step # "stores"
           /\ to.step = "list" => to.kind = NothingThere
        BY <1>3, <1>4, <1>9, <2>2, <2>3, <2>8, <2>10, <2>11, <2>13, ResolvedFits
    <2>15. run' = [x \in Runs |-> IF x = r THEN to ELSE Disturbed(x)]
        BY <1>14, <2>12 DEF Goes
    <2>16. ASSUME runManner = "serial"
           PROVE NoTwins' /\ ListingsOfOneProduct' /\ SettledFits' /\ SerialFits(to)'
        <3>1. NoTwins /\ ListingsOfOneProduct /\ SettledFits /\ SerialFits(s)
            BY <1>2, <1>3, <2>16, OnlyRun, AlikeRuns
        <3>2. \A q \in OldProducts : catalog[q] # NothingThere =>
                  s.byName[catalog[q]] # NothingThere
            BY <1>3, <3>1 DEF SerialFits
        <3>3. s.byName[name] = NothingThere BY <1>8, <1>14
        <3>4. \A q \in OldProducts : catalog[q] # name BY <3>2, <3>3, PairsThere
        <3>5. NoTwins' BY <1>9, <2>4, <2>16, <3>1, <3>4 DEF NoTwins
        <3>6. ListingsOfOneProduct' BY <1>9, <3>1 DEF ListingsOfOneProduct
        <3>7. settled = NothingThere
            <4>1. AtRow(s) \in RowNumbers BY <1>3, PlaceThere
            <4>2. AllThere => \E q \in OldProducts : catalog[q] = name
                BY <1>4, <1>6, <4>1 DEF AllThere
            <4> QED BY <3>1, <3>4, <4>2 DEF SettledFits
        <3>8. SettledFits' BY <1>9, <3>7 DEF SettledFits
        <3>9. \A q \in OldProducts : catalog'[q] # NothingThere =>
                  byName[catalog'[q]] # NothingThere
            <4> SUFFICES ASSUME NEW q \in OldProducts, catalog'[q] # NothingThere
                         PROVE byName[catalog'[q]] # NothingThere
                OBVIOUS
            <4>1. CASE q = p BY <2>4, <2>8, <4>1, PairsThere
            <4>2. CASE q # p
                <5>1. catalog'[q] = catalog[q] /\ catalog[q] \in Names \ {name}
                    BY <2>1, <2>4, <3>4, <4>2
                <5> QED BY <2>8, <3>2, <5>1
            <4> QED BY <4>1, <4>2
        <3>10. SerialFits(to)' BY <2>14, <3>9 DEF SerialFits
        <3> QED BY <3>5, <3>6, <3>8, <3>10
    <2> QED BY <1>3, <1>9, <1>10, <2>2, <2>3, <2>6, <2>14, <2>15, <2>16, MoveKept, OnlyRun
<1>15. CASE GoesQuietly(r, NextRow(s, FALSE)) /\ UNCHANGED catalog
    <2>1. UNCHANGED market BY <1>9, <1>15 DEF market
    <2> QED BY <1>1, <1>2, <1>9, <1>15, <2>1, FailsKept
<1> QED BY <1>12, <1>13, <1>14, <1>15

-----------------------------------------------------------------------------
(* Migration: a variant is given its kind *)

\* A kind that is linked to a variant shows it wherever the variant is.
LEMMA LinkedKind ==
    ASSUME runManner \in MigrationManners, NEW k, KindFits(k), NEW n \in RowNumbers,
           NEW j \in VariantNumbers(n), k.legacy = VariantAt(n, j)
    PROVE AtKind(n, j, k)
<1>1. PICK m \in RowNumbers : \E i \in VariantNumbers(m) :
          AtKind(m, i, k) /\ k.legacy = VariantAt(m, i)
    BY DEF KindFits
<1>2. PICK i \in VariantNumbers(m) : AtKind(m, i, k) /\ k.legacy = VariantAt(m, i) BY <1>1
<1>3. Rows[m] \in OldProducts /\ Rows[n] \in OldProducts BY RowsThere
<1>4. VariantsOf[Rows[m]][i] = VariantsOf[Rows[n]][j] BY <1>2 DEF VariantAt
<1>5. Rows[m] = Rows[n]
    BY <1>3, <1>4, RowsAssumption DEF VariantNumbers
<1> QED BY <1>2, <1>4, <1>5 DEF AtKind, VariantAt

LEMMA SettledStays ==
    ASSUME SettledFits, UNCHANGED <<runManner, shops, catalog, settled>>,
           settled # NothingThere => /\ PairsOf(kinds)' = PairsOf(kinds)
                                     /\ TriplesOf(listings)' = TriplesOf(listings)
    PROVE SettledFits'
<1> SUFFICES ASSUME settled # NothingThere PROVE SettledFits' BY DEF SettledFits
<1>1. Rows' = Rows BY DEF Rows
<1>2. AllThere'
    <2>1. AllThere BY DEF SettledFits
    <2>2. \A n \in RowNumbers : \A j \in VariantNumbers(n) : \E k \in kinds' : AtKind(n, j, k)
        <3> SUFFICES ASSUME NEW n \in RowNumbers, NEW j \in VariantNumbers(n)
                     PROVE \E k \in kinds' : AtKind(n, j, k)
            OBVIOUS
        <3>1. PICK k \in kinds : AtKind(n, j, k) BY <2>1 DEF AllThere
        <3>2. <<k.product, k.value>> \in PairsOf(kinds)' BY DEF PairsOf
        <3>3. PICK m \in kinds' : <<m.product, m.value>> = <<k.product, k.value>>
            BY <3>2 DEF PairsOf
        <3>4. AtKind(n, j, m) BY <3>1, <3>3 DEF AtKind
        <3> QED BY <3>4
    <2>3. \A n \in RowNumbers, val \in OldValues \cup {NothingThere} : HasValue(Rows[n], val) =>
              \E l \in listings' : OnShelf(l, n) /\ ValueIn(l.kind) = val
        <3> SUFFICES ASSUME NEW n \in RowNumbers, NEW val \in OldValues \cup {NothingThere},
                            HasValue(Rows[n], val)
                     PROVE \E l \in listings' : OnShelf(l, n) /\ ValueIn(l.kind) = val
            OBVIOUS
        <3>1. PICK l \in listings : OnShelf(l, n) /\ ValueIn(l.kind) = val BY <2>1 DEF AllThere
        <3>2. <<l.shop, l.product, l.kind>> \in TriplesOf(listings)' BY DEF TriplesOf
        <3>3. PICK m \in listings' : <<m.shop, m.product, m.kind>> = <<l.shop, l.product, l.kind>>
            BY <3>2 DEF TriplesOf
        <3>4. OnShelf(m, n) /\ ValueIn(m.kind) = val BY <3>1, <3>3 DEF OnShelf
        <3> QED BY <3>4
    <2> QED BY <1>1, <2>1, <2>2, <2>3 DEF AllThere, RowNumbers, VariantNumbers, VariantAt, AtKind,
            OnShelf
<1>3. \A k : FinalKind(k) => FinalKind(k)'
    BY <1>1 DEF FinalKind, RowNumbers, VariantNumbers, VariantAt, AtKind
<1>4. \A l, prices : FinalPrice(l, prices) => FinalPrice(l, prices)'
    BY <1>1 DEF FinalPrice, AtListing, RowNumbers, OnShelf
<1>5. \A l : FinalLegacy(l) => FinalLegacy(l)'
    BY <1>1 DEF FinalLegacy, FirstAt, RowNumbers, OnShelf
<1>6. /\ settled = <<settled[1], Sellers, catalog, settled[4], settled[5]>> /\ shops = Sellers
      /\ settled[4] \subseteq KindState /\ PairsOf(settled[4]) = PairsOf(kinds)
      /\ \A k \in settled[4] : FinalKind(k)
      /\ settled[5] \subseteq ListedState /\ TriplesOf(settled[5]) = TriplesOf(listings)
      /\ \A l \in settled[5] : FinalPrice(l, settled[1]) /\ FinalLegacy(l)
    BY DEF SettledFits
<1>7. PICK set : set = settled OBVIOUS
<1>8. set' = set /\ settled' = set BY <1>7
<1>9. PairsOf(settled[4])' = PairsOf(settled[4]) /\ TriplesOf(settled[5])' = TriplesOf(settled[5])
    BY DEF PairsOf, TriplesOf
<1>10. \A k \in settled[4] : FinalKind(k)' BY <1>3, <1>6
<1>11. \A l \in settled[5] : FinalPrice(l, set[1])' /\ FinalLegacy(l)' BY <1>4, <1>5, <1>6, <1>7
<1>12. \A l \in settled[5] : FinalPrice(l, settled[1])' BY <1>7, <1>8, <1>11 DEF FinalPrice
<1> QED BY <1>2, <1>6, <1>9, <1>10, <1>11, <1>12 DEF SettledFits

\* The run when a variant of its row has the kind m.
VariedRun(s, m) == [s EXCEPT !.step = "list", !.kind = <<m.product, m.value>>]

LEMMA VariedFits ==
    ASSUME MigrationInv, Grown, TablesTyped',
           UNCHANGED <<runManner, priced, shops, catalog, listings>>,
           NEW s \in RunState, RunFits(s), Progress(s), s.step = "vary",
           NEW m \in kinds', m.legacy = VariantAt(AtRow(s), s.nth), AtKind(AtRow(s), s.nth, m),
           \A k \in kinds : k \notin kinds' => AtKind(AtRow(s), s.nth, k),
           NEW to, to = VariedRun(s, m)
    PROVE /\ to \in RunState /\ RunFits(to)' /\ Progress(to)'
          /\ to.step = "list" /\ to.byName = s.byName /\ to.byRow = s.byRow
          /\ AtRow(to) = AtRow(s) /\ to.kind = <<m.product, m.value>>
<1>1. MigrationTyped /\ TablesFit /\ runManner \in MigrationManners
    BY DEF MigrationInv, MigrationTyped
<1>2. PICK c \in RowNumbers : c = AtRow(s) BY <1>1, PlaceThere
<1>3. Rows[c] \in OldProducts BY <1>1, <1>2, PlaceThere
<1>4. PICK i \in VariantNumbers(c) : i = s.nth BY <1>2 DEF RunFits
<1>5. m.product \in OldProducts /\ m.value \in OldValues BY DEF TablesTyped, KindState
<1>6. PICK pair \in ValuePairs : pair = <<m.product, m.value>> BY <1>5 DEF ValuePairs
<1>7. to = [s EXCEPT !.step = "list", !.kind = pair] BY <1>6 DEF VariedRun
<1>8. /\ to.step = "list" /\ to.byName = s.byName /\ to.byRow = s.byRow /\ to.todo = s.todo
      /\ to.nth = s.nth /\ to.kind = pair /\ to.read = s.read /\ to.alone = s.alone
      /\ to.ok = s.ok
    BY <1>7 DEF RunState
<1>9. to \in RunState BY <1>7 DEF RunState, RunSteps
<1>10. Rows' = Rows /\ RowNumbers' = RowNumbers BY DEF Rows, RowNumbers
<1>11. AtRow(to) = c /\ AtRow(to)' = c /\ AtRow(s)' = c BY <1>2, <1>8, <1>10 DEF AtRow
<1>12. \A n \in RowNumbers : VariantNumbers(n)' = VariantNumbers(n)
    BY <1>10 DEF VariantNumbers
<1>13. RunFits(s)' BY <1>1, RunFitsGrown
<1>14. AtKind(c, i, m) /\ m.legacy = VariantAt(c, i) BY <1>2, <1>4
<1>15. RunFits(to)'
    <2>1. VariantsOf[Rows[c]] # <<>>
        <3>1. VariantsOf[Rows[c]] = <<>> => i \in 1 .. 0
            BY <1>3, <1>4, VariantsThere DEF VariantNumbers
        <3> QED BY <3>1
    <2>2. s.nth \in VariantNumbers(c)' BY <1>4, <1>12
    <2>3. pair # NothingThere BY PairsThere
    <2>4. pair[2] = ValueOf[VariantAt(c, i)] /\ catalog[pair[1]] = NameOf[Rows[c]]
        BY <1>6, <1>14 DEF AtKind
    <2>5. KindThere(pair)' BY <1>6 DEF KindThere
    <2>6. (VariantNumbers(AtRow(to)))' = VariantNumbers(c)' BY <1>11 DEF VariantNumbers
    <2>7. (VariantAt(AtRow(to), to.nth))' = VariantAt(c, i)
        BY <1>4, <1>8, <1>10, <1>11 DEF VariantAt
    <2>8. to.kind # NothingThere /\ to.kind[2] = ValueOf[VariantAt(c, i)] /\ KindThere(to.kind)'
          /\ catalog'[to.kind[1]] = NameOf[Rows[c]]
        BY <1>8, <2>3, <2>4, <2>5
    <2> QED BY <1>8, <1>10, <1>11, <1>13, <2>1, <2>2, <2>6, <2>7, <2>8 DEF RunFits
<1>16. Progress(to)'
    <2> SUFFICES ASSUME to.alone, to.ok PROVE ListedSoFar(to)' /\ LegacySoFar(to)' /\ KindsSoFar(to)'
        BY DEF Progress
    <2>1. ListedSoFar(s) /\ LegacySoFar(s) /\ KindsSoFar(s) BY <1>8 DEF Progress
    <2>2. \A n \in RowNumbers : \A val : Done(to, n, val)' <=> Done(s, n, val)
        BY <1>2, <1>8, <1>10, <1>11 DEF Done, VariantAt
    <2>3. \A n \in RowNumbers : FirstDone(to, n)' <=> FirstDone(s, n)
        BY <1>2, <1>8, <1>11 DEF FirstDone
    <2>4. ListedSoFar(to)'
        BY <1>8, <1>10, <2>1, <2>2 DEF ListedSoFar, SameShelf, OnShelf
    <2>5. LegacySoFar(to)' BY <1>10, <2>1, <2>3 DEF LegacySoFar, SameFirst, SameShelf
    <2>6. \A n \in RowNumbers : \A j \in VariantNumbers(n) :
              KindDone(to, n, j)' <=> KindDone(s, n, j) \/ (n = c /\ j = i)
        BY <1>2, <1>4, <1>8, <1>11 DEF KindDone
    <2>7. ASSUME NEW n \in RowNumbers, NEW j \in VariantNumbers(n),
                 KindDone(s, n, j) \/ (n = c /\ j = i),
                 \A mm \in RowNumbers : \A ii \in VariantNumbers(mm) :
                     (KindDone(s, mm, ii) \/ (mm = c /\ ii = i)) /\ Later(mm, ii, n, j)
                         => ~SameKindOf(mm, ii, n, j)
          PROVE \E k \in kinds' : k.legacy = VariantAt(n, j)
        <3>1. CASE n = c /\ j = i BY <1>14, <3>1
        <3>2. CASE ~(n = c /\ j = i)
            <4>1. KindDone(s, n, j) BY <2>7, <3>2
            <4>2. n \in Int /\ c \in Int /\ i \in Int /\ j \in Int
                <5>1. \A x \in RowNumbers : x \in Int
                    BY <1>1, RowsThere DEF RowNumbers
                <5>2. \A x \in RowNumbers : \A y \in VariantNumbers(x) : y \in Int
                    BY <1>1, RowsThere, VariantsThere DEF VariantNumbers
                <5> QED BY <5>1, <5>2
            <4>3. Later(c, i, n, j) BY <1>2, <1>4, <3>2, <4>1, <4>2 DEF KindDone, Later
            <4>4. ~SameKindOf(c, i, n, j) BY <2>7, <4>3
            <4>5. PICK k \in kinds : k.legacy = VariantAt(n, j)
                BY <2>1, <2>7, <4>1 DEF KindsSoFar
            <4>6. KindFits(k) BY <1>1 DEF TablesFit
            <4>7. AtKind(n, j, k) BY <1>1, <4>5, <4>6, LinkedKind
            <4>8. ~AtKind(c, i, k) BY <4>4, <4>7 DEF AtKind, SameKindOf
            <4> QED BY <1>2, <1>4, <4>5, <4>8
        <3> QED BY <3>1, <3>2
    <2>8. KindsSoFar(to)'
        BY <1>10, <1>12, <2>6, <2>7 DEF KindsSoFar, SameKindOf, VariantAt
    <2> QED BY <2>4, <2>5, <2>8
<1> QED BY <1>2, <1>6, <1>8, <1>9, <1>11, <1>15, <1>16

\* The tables when only the kinds are others.
LEMMA TablesFitKinds ==
    ASSUME TablesFit, Grown, UNCHANGED <<runManner, shops, catalog, listings>>,
           KindsUnique', \A k \in kinds' : KindFits(k)
    PROVE TablesFit'
<1>1. Rows' = Rows BY DEF Rows
<1>2. \A k \in kinds' : KindFits(k)'
    BY <1>1 DEF KindFits, RowNumbers, VariantNumbers, VariantAt, AtKind
<1>3. \A l \in listings : ListingFits(l)'
    <2> SUFFICES ASSUME NEW l \in listings PROVE ListingFits(l)' OBVIOUS
    <2>1. ListingFits(l) BY DEF TablesFit
    <2>2. l.kind # NothingThere => KindThere(l.kind)' BY <2>1, KindStays DEF ListingFits
    <2> QED BY <1>1, <2>1, <2>2 DEF ListingFits, RowNumbers, OnShelf
<1> QED BY <1>2, <1>3 DEF TablesFit, CatalogFits, ListingsUnique

\* Once a kind m of the variant is there, whether it was or not.
LEMMA VariedKept ==
    ASSUME MigrationInv, NEW r \in Runs, NEW s \in RunState, s = run[r], s.step = "vary",
           UNCHANGED <<runManner, priced, shops, catalog, listings, runsMade, edits, settled>>,
           NEW m \in kinds', m.legacy = VariantAt(AtRow(s), s.nth), AtKind(AtRow(s), s.nth, m),
           kinds' \subseteq KindState, Grown, KindsUnique', \A k \in kinds' : KindFits(k),
           \A k \in kinds : k \notin kinds' => AtKind(AtRow(s), s.nth, k),
           runManner = "serial" /\ settled # NothingThere => PairsOf(kinds)' = PairsOf(kinds),
           NEW to, to = VariedRun(s, m),
           \/ GoesQuietly(r, to) /\ UNCHANGED kinds
           \/ Goes(r, to)
    PROVE MigrationInv'
<1>1. run[r].step \in RunSteps BY DEF RunSteps
<1>2. RunFits(s) /\ Progress(s) /\ MigrationTyped /\ run[r] # NoRun BY <1>1, BusyFits
<1>3. TablesTyped' BY <1>2 DEF MigrationTyped, TablesTyped
<1>4. TablesFit' BY TablesFitKinds DEF MigrationInv
<1>5. /\ to \in RunState /\ RunFits(to)' /\ Progress(to)'
      /\ to.step = "list" /\ to.byName = s.byName /\ to.byRow = s.byRow
      /\ AtRow(to) = AtRow(s) /\ to.kind = <<m.product, m.value>>
    BY <1>2, <1>3, VariedFits
<1>6. ASSUME runManner = "serial"
      PROVE NoTwins' /\ ListingsOfOneProduct' /\ SettledFits' /\ SerialFits(to)'
    <2>1. NoTwins /\ ListingsOfOneProduct /\ SettledFits /\ SerialFits(s)
        BY <1>2, <1>6, OnlyRun, AlikeRuns
    <2>2. NoTwins' /\ ListingsOfOneProduct' BY <2>1 DEF NoTwins, ListingsOfOneProduct
    <2>3. TriplesOf(listings)' = TriplesOf(listings) BY DEF TriplesOf
    <2>4. SettledFits' BY <1>6, <2>1, <2>3, SettledStays
    <2>5. m.product = s.byRow[Rows[AtRow(s)]]
        <3>1. Rows[AtRow(s)] \in OldProducts BY <1>2, PlaceThere
        <3>2. PICK p \in OldProducts : p = Rows[AtRow(s)] BY <3>1
        <3>3. s.byRow[p] # NothingThere BY <1>2, <3>2 DEF RunFits
        <3>4. s.byRow[p] \in OldProducts /\ catalog[s.byRow[p]] = NameOf[p]
            BY <1>2, <3>2, <3>3 DEF RunFits, RunState, OldOrNone
        <3>5. catalog[m.product] = NameOf[p] /\ m.product \in OldProducts
            BY <1>3, <3>2 DEF AtKind, TablesTyped, KindState
        <3>6. NameOf[p] # NothingThere BY PairsThere, MigrationAssumption
        <3> QED BY <1>6, <2>1, <3>2, <3>4, <3>5, <3>6 DEF NoTwins
    <2>6. SerialFits(to)'
        <3>1. \A q \in OldProducts : catalog[q] # NothingThere =>
                  s.byName[catalog[q]] # NothingThere
            BY <2>1 DEF SerialFits
        <3>2. AtRow(to)' = AtRow(s) /\ Rows' = Rows BY <1>5 DEF AtRow, Rows
        <3>3. PICK product : product = m.product OBVIOUS
        <3>4. to.kind[1] = product BY <1>5, <3>3
        <3>5. to.kind[1] = s.byRow[Rows[AtRow(s)]] BY <2>5, <3>3, <3>4
        <3> QED BY <1>5, <3>1, <3>2, <3>5 DEF SerialFits
    <2> QED BY <2>2, <2>4, <2>6
<1>7. \/ run' = [run EXCEPT ![r] = to] /\ UNCHANGED market
      \/ run' = [x \in Runs |-> IF x = r THEN to ELSE Disturbed(x)]
    BY DEF GoesQuietly, Goes, market
<1>8. runsMade' \in 0 .. MaxRuns[runManner] BY <1>2 DEF MigrationTyped
<1> QED BY <1>2, <1>3, <1>4, <1>5, <1>6, <1>7, <1>8, MoveKept, OnlyRun

LEMMA VaryKept ==
    ASSUME MigrationInv, NEW r \in Runs, Vary(r)
    PROVE MigrationInv'
<1>1. run[r].step = "vary" /\ run[r].step \in RunSteps BY DEF Vary, RunSteps
<1>2. PICK s \in RunState : s = run[r] BY <1>1, BusyFits
<1>3. RunFits(s) /\ Progress(s) /\ MigrationTyped /\ run[r] # NoRun /\ s.step = "vary"
    BY <1>1, <1>2, BusyFits
<1>4. runManner \in MigrationManners /\ TablesFit BY <1>3 DEF MigrationTyped, MigrationInv
<1>5. PICK c \in RowNumbers : c = AtRow(s) BY <1>3, PlaceThere
<1>6. PICK p \in OldProducts : p = Rows[c] BY <1>3, <1>5, PlaceThere
<1>7. RowAt(r) = p BY <1>2, <1>5, <1>6 DEF RowAt, AtRow
<1>8. PICK i \in VariantNumbers(c) : i = s.nth BY <1>3, <1>5 DEF RunFits
<1>9. PICK v \in AllVariants : v = VariantsOf[p][i]
    BY <1>6, <1>8, VariantsThere DEF VariantNumbers
<1>10. VariantAt(c, i) = v BY <1>6, <1>9 DEF VariantAt
<1>11. PICK product \in OldProducts : product = s.byRow[p]
    BY <1>3, <1>5, <1>6 DEF RunFits, RunState, OldOrNone
<1>12. catalog[product] = NameOf[p] /\ product # NothingThere /\ NameOf[p] # NothingThere
    BY <1>3, <1>6, <1>11, PairsThere, MigrationAssumption DEF RunFits
<1>13. PICK own : own = {k \in kinds : k.legacy = v} OBVIOUS
<1>14. PICK same : same = {k \in kinds : SameKind(k, product, v)} OBVIOUS
<1>15. PICK known : known = IF own # {} THEN own ELSE same OBVIOUS
<1>16. UNCHANGED <<runManner, priced, shops, catalog, listings, runsMade, edits, settled>>
    BY DEF Vary
<1>17. \/ \E k \in known :
             LET kind == <<k.product, k.value>>
                 to == [s EXCEPT !.step = "list", !.kind = kind]
             IN /\ kinds' = (kinds \ {k}) \cup {[k EXCEPT !.legacy = v]}
                /\ IF kinds' = kinds THEN GoesQuietly(r, to) ELSE Goes(r, to)
       \/ /\ known = {}
          /\ kinds' = kinds \cup {KindOf(p, product, v)}
          /\ Goes(r, [s EXCEPT !.step = "list", !.kind = <<product, ValueOf[v]>>])
       \/ GoesQuietly(r, NextRow(s, FALSE)) /\ UNCHANGED kinds
    BY <1>2, <1>7, <1>8, <1>9, <1>11, <1>13, <1>14, <1>15 DEF Vary
<1>18. \A k \in known : k \in kinds /\ AtKind(c, i, k)
    <2> SUFFICES ASSUME NEW k \in known PROVE k \in kinds /\ AtKind(c, i, k) OBVIOUS
    <2>1. CASE k \in own
        <3>1. k \in kinds /\ k.legacy = VariantAt(c, i) BY <1>10, <1>13, <2>1
        <3>2. KindFits(k) BY <1>4, <3>1 DEF TablesFit
        <3> QED BY <1>4, <3>1, <3>2, LinkedKind
    <2>2. CASE k \in same
        <3>1. k \in kinds /\ k.product = product /\ k.value = ValueOf[v]
            BY <1>14, <2>2 DEF SameKind
        <3> QED BY <1>6, <1>10, <1>12, <3>1 DEF AtKind
    <2> QED BY <1>15, <2>1, <2>2
<1>19. kinds \subseteq KindState BY <1>3 DEF MigrationTyped, TablesTyped
<1>20. CASE \E k \in known :
             LET kind == <<k.product, k.value>>
                 to == [s EXCEPT !.step = "list", !.kind = kind]
             IN /\ kinds' = (kinds \ {k}) \cup {[k EXCEPT !.legacy = v]}
                /\ IF kinds' = kinds THEN GoesQuietly(r, to) ELSE Goes(r, to)
    <2>1. PICK k \in known : /\ kinds' = (kinds \ {k}) \cup {[k EXCEPT !.legacy = v]}
                             /\ \/ /\ kinds' = kinds
                                   /\ GoesQuietly(r, [s EXCEPT !.step = "list",
                                                               !.kind = <<k.product, k.value>>])
                                \/ Goes(r, [s EXCEPT !.step = "list",
                                                     !.kind = <<k.product, k.value>>])
        BY <1>20
    <2>2. k \in kinds /\ AtKind(c, i, k) /\ k \in KindState BY <1>18, <1>19
    <2>3. PICK m : m = [k EXCEPT !.legacy = v] OBVIOUS
    <2>4. m \in KindState /\ m.product = k.product /\ m.value = k.value /\ m.legacy = v
        BY <2>2, <2>3 DEF KindState
    <2>5. kinds' = (kinds \ {k}) \cup {m} BY <2>1, <2>3
    <2>6. PICK to : to = VariedRun(s, m) OBVIOUS
    <2>7. to = [s EXCEPT !.step = "list", !.kind = <<k.product, k.value>>]
        BY <2>4, <2>6 DEF VariedRun
    <2>8. (GoesQuietly(r, to) /\ UNCHANGED kinds) \/ Goes(r, to) BY <2>1, <2>7
    <2>9. AtKind(c, i, m) BY <2>2, <2>4 DEF AtKind
    <2>10. KindFits(m)
        <3>1. m.legacy = VariantAt(c, i) BY <1>10, <2>4
        <3>2. catalog[m.product] # NothingThere BY <1>6, <1>12, <2>9 DEF AtKind
        <3> QED BY <2>9, <3>1, <3>2 DEF KindFits
    <2>11. Grown BY <1>16, <2>4, <2>5 DEF Grown
    <2>12. \A x \in kinds \ {k} : x.legacy # v
        <3>1. CASE own # {}
            <4>1. k.legacy = v BY <1>13, <1>15, <3>1
            <4> QED BY <1>4, <2>2, <4>1 DEF TablesFit, KindsUnique
        <3>2. CASE own = {} BY <1>13, <3>2
        <3> QED BY <3>1, <3>2
    <2>13. KindsUnique'
        <3>1. KindsUnique BY <1>4 DEF TablesFit
        <3>2. \A x \in kinds \ {k} : <<x.product, x.value>> # <<m.product, m.value>>
            BY <2>2, <2>4, <3>1 DEF KindsUnique
        <3> QED BY <2>4, <2>5, <2>12, <3>1, <3>2 DEF KindsUnique
    <2>14. PairsOf(kinds)' = PairsOf(kinds)
        <3>1. \A x \in kinds : \E y \in kinds' : <<y.product, y.value>> = <<x.product, x.value>>
            BY <2>4, <2>5
        <3>2. \A y \in kinds' : \E x \in kinds : <<y.product, y.value>> = <<x.product, x.value>>
            BY <2>2, <2>4, <2>5
        <3> QED BY <3>1, <3>2 DEF PairsOf
    <2>15. \A x \in kinds' : KindFits(x) BY <1>4, <2>5, <2>10 DEF TablesFit
    <2>16. \A x \in kinds : x \notin kinds' => AtKind(c, i, x) BY <2>2, <2>5
    <2>17. kinds' \subseteq KindState BY <1>19, <2>4, <2>5
    <2>18. m \in kinds' /\ m.legacy = VariantAt(c, i) BY <1>10, <2>4, <2>5
    <2> QED BY <1>2, <1>3, <1>5, <1>8, <1>16, <2>6, <2>8, <2>9, <2>11, <2>13, <2>14, <2>15, <2>16,
            <2>17, <2>18, VariedKept
<1>21. CASE /\ known = {}
            /\ kinds' = kinds \cup {KindOf(p, product, v)}
            /\ Goes(r, [s EXCEPT !.step = "list", !.kind = <<product, ValueOf[v]>>])
    <2>1. PICK m : m = KindOf(p, product, v) OBVIOUS
    <2>2. m \in KindState /\ m.product = product /\ m.value = ValueOf[v] /\ m.legacy = v
        <3>1. ValueOf[v] \in OldValues BY DEF OldValues
        <3> QED BY <2>1, <3>1 DEF KindOf, KindState
    <2>3. kinds' = kinds \cup {m} BY <1>21, <2>1
    <2>4. PICK to : to = VariedRun(s, m) OBVIOUS
    <2>5. Goes(r, to) BY <1>21, <2>2, <2>4 DEF VariedRun
    <2>6. AtKind(c, i, m) BY <1>6, <1>10, <1>12, <2>2 DEF AtKind
    <2>7. m.legacy = VariantAt(c, i) BY <1>10, <2>2
    <2>8. KindFits(m) BY <1>12, <2>2, <2>6, <2>7 DEF KindFits
    <2>9. Grown BY <1>16, <2>3 DEF Grown
    <2>10. own = {} /\ same = {} BY <1>15, <1>21
    <2>11. \A x \in kinds : x.legacy # v BY <1>13, <2>10
    <2>12. \A x \in kinds : <<x.product, x.value>> # <<m.product, m.value>>
        BY <1>14, <2>2, <2>10 DEF SameKind
    <2>13. KindsUnique'
        <3>1. KindsUnique BY <1>4 DEF TablesFit
        <3> QED BY <2>2, <2>3, <2>11, <2>12, <3>1 DEF KindsUnique
    <2>14. \A x \in kinds' : KindFits(x) BY <1>4, <2>3, <2>8 DEF TablesFit
    <2>15. kinds' \subseteq KindState /\ m \in kinds' BY <1>19, <2>2, <2>3
    <2>16. ASSUME runManner = "serial", settled # NothingThere PROVE FALSE
        <3>1. NoTwins /\ SettledFits BY <1>3, <2>16, OnlyRun
        <3>2. PICK k \in kinds : AtKind(c, i, k) BY <2>16, <3>1 DEF SettledFits, AllThere
        <3>3. k.product \in OldProducts BY <1>19 DEF KindState
        <3>4. catalog[k.product] = catalog[product] /\ k.value = ValueOf[v]
            BY <1>6, <1>10, <1>12, <3>2 DEF AtKind
        <3>5. k.product = product BY <1>12, <2>16, <3>1, <3>3, <3>4 DEF NoTwins
        <3> QED BY <1>14, <2>10, <3>4, <3>5 DEF SameKind
    <2>17. \A x \in kinds : x \in kinds' BY <2>3
    <2> QED BY <1>2, <1>3, <1>5, <1>8, <1>16, <2>4, <2>5, <2>6, <2>7, <2>9, <2>13, <2>14, <2>15,
            <2>16, <2>17, VariedKept
<1>22. CASE GoesQuietly(r, NextRow(s, FALSE)) /\ UNCHANGED kinds
    <2>1. UNCHANGED market BY <1>16, <1>22 DEF market
    <2> QED BY <1>1, <1>2, <1>16, <1>22, <2>1, FailsKept
<1> QED BY <1>17, <1>20, <1>21, <1>22

-----------------------------------------------------------------------------
(* Migration: a row is listed *)

\* The run when the listing at hand is done.
ListedRun(s, p, ok) ==
    IF s.nth >= Len(VariantsOf[p]) THEN NextRow(s, ok)
    ELSE [s EXCEPT !.step = "vary", !.nth = @ + 1, !.ok = @ /\ ok]

LEMMA ListsAt ==
    ASSUME MigrationTyped, NEW s \in RunState, RunFits(s), s.step = "list",
           NEW c \in RowNumbers, c = AtRow(s), NEW p \in OldProducts, p = Rows[c]
    PROVE /\ s.nth \in Nat \ {0} /\ Len(VariantsOf[p]) \in Nat
          /\ VariantsOf[p] = <<>> =>
                /\ Len(VariantsOf[p]) = 0 /\ s.nth = 1 /\ s.kind = NothingThere
                /\ ValueIn(s.kind) = NothingThere
          /\ VariantsOf[p] # <<>> =>
                /\ s.nth \in VariantNumbers(c) /\ s.nth <= Len(VariantsOf[p])
                /\ ValueIn(s.kind) = ValueOf[VariantAt(c, s.nth)]
                /\ ValueIn(s.kind) \in OldValues
          /\ s.nth = 1 => ValueIn(s.kind) = FirstValue(p)
          /\ HasValue(p, ValueIn(s.kind))
          /\ s.kind # NothingThere => catalog[s.kind[1]] = NameOf[p] /\ KindThere(s.kind)
          /\ s.byRow[p] \in OldProducts /\ catalog[s.byRow[p]] = NameOf[p]
          /\ NameOf[p] # NothingThere /\ shops = Sellers
<1>1. /\ Len(VariantsOf[p]) \in Nat /\ (VariantsOf[p] = <<>> <=> Len(VariantsOf[p]) = 0)
      /\ \A j \in 1 .. Len(VariantsOf[p]) : ValueOf[VariantsOf[p][j]] \in OldValues
    BY VariantsThere
<1>2. ASSUME VariantsOf[p] = <<>>
      PROVE /\ Len(VariantsOf[p]) = 0 /\ s.nth = 1 /\ s.kind = NothingThere
            /\ ValueIn(s.kind) = NothingThere
    BY <1>1, <1>2 DEF RunFits, ValueIn
<1>3. ASSUME VariantsOf[p] # <<>>
      PROVE /\ s.nth \in VariantNumbers(c) /\ s.nth \in 1 .. Len(VariantsOf[p])
            /\ ValueIn(s.kind) = ValueOf[VariantAt(c, s.nth)]
            /\ s.kind # NothingThere /\ catalog[s.kind[1]] = NameOf[p] /\ KindThere(s.kind)
    BY <1>3 DEF RunFits, ValueIn, VariantNumbers
<1>4. VariantsOf[p] # <<>> => ValueIn(s.kind) \in OldValues /\ s.nth <= Len(VariantsOf[p])
    BY <1>1, <1>3 DEF VariantAt
<1>5. s.nth \in Nat \ {0} BY <1>1, <1>2, <1>3
<1>6. s.nth = 1 => ValueIn(s.kind) = FirstValue(p)
    BY <1>2, <1>3 DEF FirstValue, VariantAt
<1>7. HasValue(p, ValueIn(s.kind)) BY <1>2, <1>3 DEF HasValue, VariantAt
<1>8. s.byRow[p] \in OldProducts /\ catalog[s.byRow[p]] = NameOf[p]
    <2>1. s.byRow[p] # NothingThere BY DEF RunFits
    <2> QED BY <2>1 DEF RunFits, RunState, OldOrNone
<1>9. NameOf[p] # NothingThere /\ shops = Sellers
    BY PairsThere, MigrationAssumption DEF RunFits
<1> QED BY <1>1, <1>2, <1>3, <1>4, <1>5, <1>6, <1>7, <1>8, <1>9

\* What that adds to what is done.
GoesOn(s, to, c) ==
    /\ to.read = s.read /\ to.alone = s.alone /\ (to.ok => s.ok)
    /\ \A n \in RowNumbers, val \in OldValues \cup {NothingThere} :
          Done(to, n, val) <=> Done(s, n, val) \/ (n = c /\ val = ValueIn(s.kind))
    /\ \A n \in RowNumbers : FirstDone(to, n) <=> FirstDone(s, n) \/ n = c
    /\ \A n \in RowNumbers : \A j \in VariantNumbers(n) :
          KindDone(to, n, j) <=> KindDone(s, n, j)

LEMMA OnFits ==
    ASSUME MigrationTyped, NEW s \in RunState, RunFits(s), s.step = "list",
           NEW c \in RowNumbers, c = AtRow(s), NEW p \in OldProducts, p = Rows[c],
           NEW to, to = ListedRun(s, p, TRUE) \/ to = ListedRun(s, p, FALSE)
    PROVE /\ to \in RunState /\ RunFits(to) /\ GoesOn(s, to, c)
          /\ to = ListedRun(s, p, FALSE) => ~to.ok
          /\ SerialFits(s) => SerialFits(to)
<1>1. PICK ok \in BOOLEAN : to = ListedRun(s, p, ok) OBVIOUS
<1>2. PICK h \in Nat \ {0} : h = s.nth BY ListsAt
<1>3. PICK L \in Nat : L = Len(VariantsOf[p]) BY ListsAt
<1>4. PICK cur : cur = ValueIn(s.kind) OBVIOUS
<1>5. VariantNumbers(c) = 1 .. L BY <1>3 DEF VariantNumbers
<1>6. VariantsOf[p] = <<>> => L = 0 /\ h = 1 /\ cur = NothingThere BY <1>2, <1>3, <1>4, ListsAt
<1>7. VariantsOf[p] # <<>> => h <= L /\ cur = ValueOf[VariantAt(c, h)] /\ cur \in OldValues
    BY <1>2, <1>3, <1>4, ListsAt
<1>8. RowNumbers \subseteq Nat /\ c \in Nat /\ \A n \in RowNumbers :
          VariantNumbers(n) \subseteq Nat
    <2>1. \A n \in RowNumbers : n \in Nat BY RowsThere DEF RowNumbers, MigrationTyped
    <2>2. \A n \in RowNumbers : \A j \in VariantNumbers(n) : j \in Nat
        BY RowsThere, VariantsThere DEF VariantNumbers, MigrationTyped
    <2> QED BY <2>1, <2>2
<1>9. CASE h >= L
    <2>1. to = NextRow(s, ok) BY <1>1, <1>2, <1>3, <1>9 DEF ListedRun
    <2>2. /\ to \in RunState /\ RunFits(to) /\ AtRow(to) = c + 1
          /\ to.nth = 1 /\ to.step \in {"resolve", "end"} /\ to.read = s.read
          /\ to.alone = s.alone /\ (to.ok <=> s.ok /\ ok)
          /\ SerialFits(s) => SerialFits(to)
        BY <2>1, NextFits
    <2>3. ASSUME NEW n \in RowNumbers, NEW val \in OldValues \cup {NothingThere}
          PROVE Done(to, n, val) <=> Done(s, n, val) \/ (n = c /\ val = cur)
        <3>1. ~(n = c + 1 /\ \E j \in 1 .. 1 - 1 : ValueOf[VariantAt(n, j)] = val) OBVIOUS
        <3>2. Done(to, n, val) <=> n < c + 1 /\ HasValue(Rows[n], val)
            BY <2>2, <3>1 DEF Done
        <3>3. HasValue(p, val) <=>
                  val = cur \/ \E j \in 1 .. h - 1 : ValueOf[VariantAt(c, j)] = val
            <4>1. CASE VariantsOf[p] = <<>>
                BY <1>3, <1>6, <4>1 DEF HasValue
            <4>2. CASE VariantsOf[p] # <<>>
                <5>1. h = L BY <1>7, <1>9, <4>2
                <5>2. \A j \in 1 .. L : ValueOf[VariantAt(c, j)] = ValueOf[VariantsOf[p][j]]
                    BY DEF VariantAt
                <5>3. HasValue(p, val) <=> \E j \in 1 .. h : ValueOf[VariantAt(c, j)] = val
                    BY <1>3, <4>2, <5>1, <5>2 DEF HasValue
                <5>4. \A j \in 1 .. h : j = h \/ j \in 1 .. h - 1 OBVIOUS
                <5>5. h \in 1 .. h /\ \A j \in 1 .. h - 1 : j \in 1 .. h OBVIOUS
                <5> QED BY <1>7, <4>2, <5>3, <5>4, <5>5
            <4> QED BY <4>1, <4>2
        <3>4. Done(s, n, val) <=>
                  \/ n < c /\ HasValue(Rows[n], val)
                  \/ n = c /\ \E j \in 1 .. h - 1 : ValueOf[VariantAt(n, j)] = val
            BY <1>2 DEF Done
        <3>5. n < c + 1 <=> n < c \/ n = c BY <1>8
        <3> QED BY <1>8, <3>2, <3>3, <3>4, <3>5
    <2>4. \A n \in RowNumbers : FirstDone(to, n) <=> FirstDone(s, n) \/ n = c
        BY <1>8, <2>2 DEF FirstDone
    <2>5. ASSUME NEW n \in RowNumbers, NEW j \in VariantNumbers(n)
          PROVE KindDone(to, n, j) <=> KindDone(s, n, j)
        <3>1. j \in Nat /\ n \in Nat BY <1>8
        <3>2. n = c => j <= h BY <1>5, <1>6, <1>7, <1>9
        <3>3. n = c + 1 => ~(j < 1)
            <4>1. j \in 1 .. Len(VariantsOf[Rows[n]]) /\ Rows[n] \in OldProducts
                BY RowsThere DEF VariantNumbers, MigrationTyped
            <4> QED BY <3>1, <4>1, VariantsThere
        <3> QED BY <1>2, <1>8, <2>2, <3>1, <3>2, <3>3 DEF KindDone
    <2>6. to = ListedRun(s, p, FALSE) => ~to.ok
        <3>1. to = ListedRun(s, p, FALSE) => to = NextRow(s, FALSE)
            BY <1>2, <1>3, <1>9 DEF ListedRun
        <3> QED BY <3>1, NextFits
    <2> QED BY <1>4, <2>2, <2>3, <2>4, <2>5, <2>6 DEF GoesOn
<1>10. CASE ~(h >= L)
    <2>1. VariantsOf[p] # <<>> BY <1>6, <1>10
    <2>2. PICK g \in Nat : g = h + 1 OBVIOUS
    <2>3. PICK sound \in BOOLEAN : sound = (s.ok /\ ok) BY DEF RunState
    <2>4. to = [s EXCEPT !.step = "vary", !.nth = g, !.ok = sound]
        BY <1>1, <1>2, <1>3, <1>10, <2>2, <2>3 DEF ListedRun, RunState
    <2>5. /\ to.step = "vary" /\ to.byName = s.byName /\ to.byRow = s.byRow /\ to.todo = s.todo
          /\ to.nth = g /\ to.kind = s.kind /\ to.read = s.read /\ to.alone = s.alone
          /\ to.ok = sound
        BY <2>4 DEF RunState
    <2>6. to \in RunState BY <2>4 DEF RunState, RunSteps
    <2>7. AtRow(to) = c BY <2>5 DEF AtRow
    <2>8. g \in VariantNumbers(c) BY <1>5, <1>10, <2>2
    <2>9. RunFits(to) BY <2>5, <2>7, <2>8 DEF RunFits
    <2>10. SerialFits(s) => SerialFits(to) BY <2>5 DEF SerialFits
    <2>11. ASSUME NEW n \in RowNumbers, NEW val
           PROVE Done(to, n, val) <=> Done(s, n, val) \/ (n = c /\ val = cur)
        <3>1. \A j \in 1 .. g - 1 : j = h \/ j \in 1 .. h - 1 BY <2>2
        <3>2. h \in 1 .. g - 1 /\ \A j \in 1 .. h - 1 : j \in 1 .. g - 1 BY <2>2
        <3> QED BY <1>2, <1>7, <2>1, <2>5, <2>7, <3>1, <3>2 DEF Done
    <2>12. \A n \in RowNumbers : FirstDone(to, n) <=> FirstDone(s, n) \/ n = c
        BY <2>2, <2>5, <2>7 DEF FirstDone
    <2>13. \A n \in RowNumbers : \A j \in VariantNumbers(n) :
               KindDone(to, n, j) <=> KindDone(s, n, j)
        <3>1. \A j \in Nat : j < g <=> j < h \/ j = h BY <2>2
        <3> QED BY <1>2, <1>8, <2>5, <2>7, <3>1 DEF KindDone
    <2>14. to = ListedRun(s, p, FALSE) => ~to.ok
        BY <1>2, <1>3, <1>10 DEF ListedRun, RunState
    <2> QED BY <1>4, <2>3, <2>5, <2>6, <2>9, <2>10, <2>11, <2>12, <2>13, <2>14
            DEF GoesOn
<1> QED BY <1>9, <1>10

\* A listing that names a row shows what the row's first variant is, on its shelf.
LEMMA LinkedListing ==
    ASSUME NEW l, ListingFits(l), NEW n \in RowNumbers, l.legacy = Rows[n],
           Rows[n] # NothingThere
    PROVE OnShelf(l, n) /\ FirstValue(Rows[n]) = ValueIn(l.kind)
BY DEF ListingFits, OnShelf

LEMMA SameKinds ==
    ASSUME UNCHANGED <<runManner, kinds>>, NEW s, NEW to, KindsSoFar(s),
           \A n \in RowNumbers : \A j \in VariantNumbers(n) :
               KindDone(to, n, j) <=> KindDone(s, n, j)
    PROVE KindsSoFar(to)'
<1>1. Rows' = Rows /\ RowNumbers' = RowNumbers BY DEF Rows, RowNumbers
<1>2. \A n \in RowNumbers : VariantNumbers(n)' = VariantNumbers(n)
    BY <1>1 DEF VariantNumbers
<1>3. \A n \in RowNumbers : \A j \in VariantNumbers(n) : KindDone(to, n, j)' <=> KindDone(s, n, j)
    BY <1>1 DEF KindDone, AtRow
<1> QED BY <1>1, <1>2, <1>3 DEF KindsSoFar, SameKindOf, VariantAt

\* The row's listing m is there, and it took the place of no listing that shows another.
ListsAs(s, c, p, m) ==
    /\ m \in listings' /\ OnShelf(m, c) /\ ValueIn(m.kind) = ValueIn(s.kind)
    /\ m.price = s.read[p] /\ (s.nth = 1 => m.legacy = p)
    /\ \A l \in listings : l \notin listings' =>
          /\ OnShelf(l, c) /\ ValueIn(l.kind) = ValueIn(s.kind)
          /\ s.nth # 1 => m.legacy = l.legacy

LEMMA ListProgress ==
    ASSUME MigrationTyped, TablesFit, NEW s \in RunState, RunFits(s), Progress(s), s.step = "list",
           NEW c \in RowNumbers, c = AtRow(s), NEW p \in OldProducts, p = Rows[c],
           NEW to, to = ListedRun(s, p, TRUE),
           UNCHANGED <<runManner, catalog, kinds>>,
           NEW m, ListsAs(s, c, p, m)
    PROVE Progress(to)'
<1>1. /\ m \in listings' /\ OnShelf(m, c) /\ ValueIn(m.kind) = ValueIn(s.kind)
      /\ m.price = s.read[p] /\ (s.nth = 1 => m.legacy = p)
      /\ \A l \in listings : l \notin listings' =>
            /\ OnShelf(l, c) /\ ValueIn(l.kind) = ValueIn(s.kind)
            /\ s.nth # 1 => m.legacy = l.legacy
    BY DEF ListsAs
<1>2. PICK cur : cur = ValueIn(s.kind) OBVIOUS
<1>3. /\ to.read = s.read /\ to.alone = s.alone /\ (to.ok => s.ok)
      /\ \A n \in RowNumbers, val \in OldValues \cup {NothingThere} :
            Done(to, n, val) <=> Done(s, n, val) \/ (n = c /\ val = cur)
      /\ \A n \in RowNumbers : FirstDone(to, n) <=> FirstDone(s, n) \/ n = c
      /\ \A n \in RowNumbers : \A j \in VariantNumbers(n) :
            KindDone(to, n, j) <=> KindDone(s, n, j)
    <2>1. GoesOn(s, to, c) BY OnFits
    <2> QED BY <1>2, <2>1 DEF GoesOn
<1> SUFFICES ASSUME to.alone, to.ok PROVE ListedSoFar(to)' /\ LegacySoFar(to)' /\ KindsSoFar(to)'
    BY DEF Progress
<1>4. ListedSoFar(s) /\ LegacySoFar(s) /\ KindsSoFar(s) BY <1>3 DEF Progress
<1>5. Rows' = Rows /\ RowNumbers' = RowNumbers BY DEF Rows, RowNumbers
<1>6. AtRow(to)' = AtRow(to) BY <1>5 DEF AtRow
<1>7. \A n \in RowNumbers : \A val : Done(to, n, val)' <=> Done(to, n, val)
    BY <1>5, <1>6 DEF Done, VariantAt
<1>8. \A n \in RowNumbers : FirstDone(to, n)' <=> FirstDone(to, n) BY <1>6 DEF FirstDone
<1>9. RowNumbers \subseteq Nat /\ c \in Nat /\ \A n \in RowNumbers : Rows[n] \in OldProducts
    <2>1. \A n \in RowNumbers : n \in Nat BY RowsThere DEF RowNumbers, MigrationTyped
    <2> QED BY <2>1, RowsThere DEF MigrationTyped
<1>10. \A n \in RowNumbers : \A val : Done(s, n, val) => n <= c
    BY <1>9 DEF Done
<1>11. \A n \in RowNumbers : FirstDone(s, n) => n <= c BY <1>9 DEF FirstDone
<1>12. s.nth \in Nat \ {0} BY ListsAt
<1>13. ListedSoFar(to)'
    <2>1. ASSUME NEW n \in RowNumbers, NEW val \in OldValues \cup {NothingThere},
                 Done(to, n, val),
                 \A x \in RowNumbers : x > n /\ Done(to, x, val) => ~SameShelf(x, n)
          PROVE \E l \in listings' : OnShelf(l, n) /\ ValueIn(l.kind) = val
                                     /\ l.price = s.read[Rows[n]]
        <3>1. CASE n = c /\ val = cur BY <1>1, <1>2, <3>1
        <3>2. CASE ~(n = c /\ val = cur)
            <4>1. Done(s, n, val) BY <1>3, <2>1, <3>2
            <4>2. \A x \in RowNumbers : x > n /\ Done(s, x, val) => ~SameShelf(x, n)
                BY <1>3, <2>1
            <4>3. PICK l \in listings : /\ OnShelf(l, n) /\ ValueIn(l.kind) = val
                                        /\ l.price = s.read[Rows[n]]
                BY <1>4, <4>1, <4>2 DEF ListedSoFar
            <4>4. ASSUME l \notin listings' PROVE FALSE
                <5>1. OnShelf(l, c) /\ val = cur BY <1>1, <1>2, <4>3, <4>4
                <5>2. SameShelf(c, n) BY <4>3, <5>1 DEF OnShelf, SameShelf
                <5>3. n <= c /\ n # c BY <1>10, <3>2, <4>1, <5>1
                <5>4. c > n BY <1>9, <5>3
                <5>5. Done(to, c, val) BY <1>3, <5>1
                <5> QED BY <2>1, <5>2, <5>4, <5>5
            <4> QED BY <4>3, <4>4
        <3> QED BY <3>1, <3>2
    <2> SUFFICES ASSUME NEW n \in RowNumbers, NEW val \in OldValues \cup {NothingThere},
                        Done(to, n, val),
                        \A x \in RowNumbers : x > n /\ Done(to, x, val) => ~SameShelf(x, n)
                 PROVE \E l \in listings' : /\ OnShelf(l, n)' /\ ValueIn(l.kind) = val
                                            /\ l.price = s.read[Rows[n]]
        <3>1. to.read = s.read BY <1>3
        <3>2. ListedSoFar(to)' <=>
                  \A n \in RowNumbers, val \in OldValues \cup {NothingThere} :
                      /\ Done(to, n, val)'
                      /\ \A m2 \in RowNumbers : m2 > n /\ Done(to, m2, val)' => ~SameShelf(m2, n)
                      => \E l \in listings' : /\ OnShelf(l, n)' /\ ValueIn(l.kind) = val
                                              /\ l.price = to.read[Rows[n]]
            BY <1>5 DEF ListedSoFar, SameShelf
        <3> QED BY <1>7, <3>1, <3>2
    <2>2. PICK l \in listings' : OnShelf(l, n) /\ ValueIn(l.kind) = val
                                 /\ l.price = s.read[Rows[n]]
        BY <2>1
    <2> QED BY <1>5, <2>2 DEF OnShelf
<1>14. LegacySoFar(to)'
    <2>1. ASSUME NEW n \in RowNumbers, FirstDone(to, n),
                 \A x \in RowNumbers : x > n /\ FirstDone(to, x) => ~SameFirst(x, n)
          PROVE \E l \in listings' : l.legacy = Rows[n]
        <3>1. CASE n = c /\ s.nth = 1 BY <1>1, <3>1
        <3>2. CASE ~(n = c /\ s.nth = 1)
            <4>1. FirstDone(s, n)
                <5>1. PICK h \in Nat \ {0} : h = s.nth BY <1>12
                <5>2. h # 1 => h > 1 BY <5>1
                <5>3. n = c => s.nth > 1 BY <3>2, <5>1, <5>2
                <5>4. FirstDone(s, n) \/ n = c BY <1>3, <2>1
                <5> QED BY <5>3, <5>4 DEF FirstDone
            <4>2. \A x \in RowNumbers : x > n /\ FirstDone(s, x) => ~SameFirst(x, n)
                BY <1>3, <2>1
            <4>3. PICK l \in listings : l.legacy = Rows[n]
                BY <1>4, <4>1, <4>2 DEF LegacySoFar
            <4>4. CASE l \in listings' BY <4>3, <4>4
            <4>5. CASE l \notin listings' /\ s.nth # 1
                BY <1>1, <4>3, <4>5
            <4>6. CASE l \notin listings' /\ s.nth = 1
                <5>1. OnShelf(l, c) /\ ValueIn(l.kind) = cur BY <1>1, <1>2, <4>6
                <5>2. ListingFits(l) /\ Rows[n] # NothingThere BY <1>9, PairsThere DEF TablesFit
                <5>3. OnShelf(l, n) /\ FirstValue(Rows[n]) = cur
                    BY <4>3, <5>1, <5>2, LinkedListing
                <5>4. FirstValue(Rows[c]) = cur BY <1>2, <4>6, ListsAt
                <5>5. SameFirst(c, n) BY <5>1, <5>3, <5>4 DEF SameFirst, SameShelf, OnShelf
                <5>6. n <= c /\ n # c BY <1>11, <3>2, <4>1, <4>6
                <5>7. c > n BY <1>9, <5>6
                <5>8. FirstDone(to, c) BY <1>3
                <5> QED BY <2>1, <5>5, <5>7, <5>8
            <4> QED BY <4>4, <4>5, <4>6
        <3> QED BY <3>1, <3>2
    <2>2. \A x, n : SameFirst(x, n)' <=> SameFirst(x, n) BY <1>5 DEF SameFirst, SameShelf
    <2> QED BY <1>5, <1>8, <2>1, <2>2 DEF LegacySoFar
<1>15. KindsSoFar(to)' BY <1>3, <1>4, SameKinds
<1> QED BY <1>13, <1>14, <1>15

\* While a name has one global product, two listings of a shelf that show the same are one.
LEMMA SameFace ==
    ASSUME runManner = "serial", NoTwins, NEW l \in ListedState, NEW m \in ListedState,
           l.shop = m.shop, catalog[l.product] # NothingThere,
           catalog[l.product] = catalog[m.product], ValueIn(l.kind) = ValueIn(m.kind),
           l.kind # NothingThere => l.kind[1] = l.product,
           m.kind # NothingThere => m.kind[1] = m.product
    PROVE l.product = m.product /\ l.kind = m.kind
<1>1. l.product = m.product BY DEF NoTwins, ListedState
<1>2. \A x \in ListedState : x.kind # NothingThere =>
          /\ x.kind = <<x.kind[1], x.kind[2]>> /\ ValueIn(x.kind) = x.kind[2]
          /\ x.kind[2] # NothingThere
    <2> SUFFICES ASSUME NEW x \in ListedState, x.kind # NothingThere
                 PROVE /\ x.kind = <<x.kind[1], x.kind[2]>> /\ ValueIn(x.kind) = x.kind[2]
                       /\ x.kind[2] # NothingThere
        OBVIOUS
    <2>1. x.kind \in ValuePairs BY DEF ListedState
    <2>2. PICK a \in OldProducts, b \in OldValues : x.kind = <<a, b>> BY <2>1 DEF ValuePairs
    <2> QED BY <2>2, PairsThere DEF ValueIn
<1>3. \A x \in ListedState : x.kind = NothingThere => ValueIn(x.kind) = NothingThere
    BY DEF ValueIn
<1>4. CASE l.kind = NothingThere BY <1>1, <1>2, <1>3, <1>4
<1>5. CASE m.kind = NothingThere BY <1>1, <1>2, <1>3, <1>5
<1>6. CASE l.kind # NothingThere /\ m.kind # NothingThere
    <2>1. l.kind[1] = m.kind[1] BY <1>1, <1>6
    <2>2. l.kind[2] = m.kind[2] BY <1>2, <1>6
    <2> QED BY <1>1, <1>2, <1>6, <2>1, <2>2
<1> QED BY <1>4, <1>5, <1>6

\* The tables when only the listings are others.
LEMMA TablesFitListings ==
    ASSUME TablesFit, UNCHANGED <<runManner, shops, catalog, kinds>>,
           ListingsUnique', \A l \in listings' : ListingFits(l)
    PROVE TablesFit'
<1>1. Rows' = Rows BY DEF Rows
<1>2. \A l \in listings' : ListingFits(l)'
    BY <1>1 DEF ListingFits, RowNumbers, OnShelf, KindThere
<1> QED BY <1>1, <1>2 DEF TablesFit, CatalogFits, KindsUnique, KindFits, RowNumbers,
        VariantNumbers, VariantAt, AtKind

\* Once the listing m of the row is there, whether it was or not.
LEMMA ListingKept ==
    ASSUME MigrationInv, NEW r \in Runs, NEW s \in RunState, s = run[r], s.step = "list",
           NEW c \in RowNumbers, c = AtRow(s), NEW p \in OldProducts, p = Rows[c],
           UNCHANGED <<runManner, priced, shops, catalog, kinds, runsMade, edits, settled>>,
           NEW m, ListsAs(s, c, p, m),
           listings' \subseteq ListedState, ListingsUnique', \A l \in listings' : ListingFits(l),
           runManner = "serial" =>
               /\ m.kind # NothingThere => m.kind[1] = m.product
               /\ \A l \in listings' : l = m \/ l \in listings
               /\ settled # NothingThere => TriplesOf(listings)' = TriplesOf(listings),
           NEW to, to = ListedRun(s, p, TRUE),
           \/ GoesQuietly(r, to) /\ UNCHANGED listings
           \/ Goes(r, to)
    PROVE MigrationInv'
<1>1. run[r].step \in RunSteps BY DEF RunSteps
<1>2. RunFits(s) /\ Progress(s) /\ MigrationTyped /\ run[r] # NoRun BY <1>1, BusyFits
<1>3. TablesTyped' BY <1>2 DEF MigrationTyped, TablesTyped
<1>4. TablesFit' /\ TablesFit BY TablesFitListings DEF MigrationInv
<1>5. Grown BY DEF Grown
<1>6. to \in RunState /\ RunFits(to) /\ (SerialFits(s) => SerialFits(to)) BY <1>2, OnFits
<1>7. RunFits(to)' BY <1>2, <1>3, <1>5, <1>6, RunFitsGrown
<1>8. Progress(to)' BY <1>2, <1>4, ListProgress
<1>9. ASSUME runManner = "serial"
      PROVE NoTwins' /\ ListingsOfOneProduct' /\ SettledFits' /\ SerialFits(to)'
    <2>1. NoTwins /\ ListingsOfOneProduct /\ SettledFits /\ SerialFits(s)
        BY <1>2, <1>9, OnlyRun, AlikeRuns
    <2>2. NoTwins' BY <2>1 DEF NoTwins
    <2>3. ListingsOfOneProduct' BY <1>9, <2>1 DEF ListingsOfOneProduct
    <2>4. PairsOf(kinds)' = PairsOf(kinds) BY DEF PairsOf
    <2>5. SettledFits' BY <1>9, <2>1, <2>4, SettledStays
    <2>6. SerialFits(to)' BY <1>6, <2>1 DEF SerialFits, AtRow, Rows
    <2> QED BY <2>2, <2>3, <2>5, <2>6
<1>10. \/ run' = [run EXCEPT ![r] = to] /\ UNCHANGED market
       \/ run' = [x \in Runs |-> IF x = r THEN to ELSE Disturbed(x)]
    BY DEF GoesQuietly, Goes, market
<1>11. runsMade' \in 0 .. MaxRuns[runManner] BY <1>2 DEF MigrationTyped
<1> QED BY <1>2, <1>3, <1>4, <1>5, <1>6, <1>7, <1>8, <1>9, <1>10, <1>11, MoveKept, OnlyRun

LEMMA ListKept ==
    ASSUME MigrationInv, NEW r \in Runs, List(r)
    PROVE MigrationInv'
<1>1. run[r].step = "list" /\ run[r].step \in RunSteps BY DEF List, RunSteps
<1>2. PICK s \in RunState : s = run[r] BY <1>1, BusyFits
<1>3. RunFits(s) /\ Progress(s) /\ MigrationTyped /\ run[r] # NoRun /\ s.step = "list"
    BY <1>1, <1>2, BusyFits
<1>4. TablesFit BY DEF MigrationInv
<1>5. PICK c \in RowNumbers : c = AtRow(s) BY <1>3, PlaceThere
<1>6. PICK p \in OldProducts : p = Rows[c] BY <1>3, <1>5, PlaceThere
<1>7. RowAt(r) = p BY <1>2, <1>5, <1>6 DEF RowAt, AtRow
<1>8. /\ s.nth = 1 => ValueIn(s.kind) = FirstValue(p)
      /\ HasValue(p, ValueIn(s.kind))
      /\ s.kind # NothingThere => catalog[s.kind[1]] = NameOf[p] /\ KindThere(s.kind)
      /\ s.byRow[p] \in OldProducts /\ catalog[s.byRow[p]] = NameOf[p]
      /\ NameOf[p] # NothingThere /\ shops = Sellers
    BY <1>3, <1>5, <1>6, ListsAt
<1>9. listings \subseteq ListedState BY <1>3 DEF MigrationTyped, TablesTyped
<1>10. PICK row : row = IF s.nth = 1 THEN p ELSE NothingThere OBVIOUS
<1>11. row \in OldOrNone /\ (row = NothingThere <=> s.nth # 1) /\ p # NothingThere
    BY <1>10, PairsThere DEF OldOrNone
<1>12. PICK new : new = [shop |-> SellerOf[p], product |-> s.byRow[p], kind |-> s.kind,
                         legacy |-> row, price |-> s.read[p]]
    OBVIOUS
<1>13. /\ new.shop = SellerOf[p] /\ new.product = s.byRow[p] /\ new.kind = s.kind
       /\ new.legacy = row /\ new.price = s.read[p]
    BY <1>12
<1>14. s.read[p] \in Nat /\ s.kind \in ValuePairs \cup {NothingThere} /\ SellerOf[p] \in Sellers
    BY MigrationAssumption DEF RunState
<1>15. new \in ListedState BY <1>8, <1>11, <1>12, <1>14 DEF ListedState
<1>16. PICK own : own = {l \in listings : row # NothingThere /\ l.legacy = row} OBVIOUS
<1>17. PICK same : same = {l \in listings : /\ <<l.shop, l.product, l.kind>>
                                                = <<new.shop, new.product, new.kind>>}
    OBVIOUS
<1>18. PICK known : known = IF own # {} THEN own ELSE same OBVIOUS
<1>19. UNCHANGED <<runManner, priced, shops, catalog, kinds, runsMade, edits, settled>>
    BY DEF List
<1>20. \/ \E l \in known :
             LET after == Listed(l, new.price, new.kind, row)
             IN IF Refused(after, listings \ {l})
                THEN GoesQuietly(r, NextRow(s, FALSE)) /\ UNCHANGED listings
                ELSE /\ listings' = (listings \ {l}) \cup {after}
                     /\ IF after = l THEN GoesQuietly(r, ListedRun(s, p, TRUE))
                        ELSE Goes(r, ListedRun(s, p, TRUE))
       \/ /\ known = {} /\ ~Refused(new, listings)
          /\ listings' = listings \cup {new} /\ Goes(r, ListedRun(s, p, TRUE))
       \/ UNCHANGED listings /\ GoesQuietly(r, ListedRun(s, p, FALSE))
    <2>1. row = IF run[r].nth = 1 THEN RowAt(r) ELSE NothingThere BY <1>2, <1>7, <1>10
    <2>2. new = [shop |-> SellerOf[RowAt(r)], product |-> run[r].byRow[RowAt(r)],
                 kind |-> run[r].kind, legacy |-> row, price |-> run[r].read[RowAt(r)]]
        BY <1>2, <1>7, <1>12
    <2> DEFINE On(ok) == IF run[r].nth >= Len(VariantsOf[RowAt(r)]) THEN NextRow(run[r], ok)
                         ELSE [run[r] EXCEPT !.step = "vary", !.nth = @ + 1, !.ok = @ /\ ok]
    <2>3. \/ \E l \in known :
                LET after == Listed(l, new.price, new.kind, row)
                IN IF Refused(after, listings \ {l})
                   THEN GoesQuietly(r, NextRow(run[r], FALSE)) /\ UNCHANGED listings
                   ELSE /\ listings' = (listings \ {l}) \cup {after}
                        /\ IF after = l THEN GoesQuietly(r, On(TRUE)) ELSE Goes(r, On(TRUE))
          \/ /\ known = {} /\ ~Refused(new, listings)
             /\ listings' = listings \cup {new} /\ Goes(r, On(TRUE))
          \/ known = {} /\ Others(r) # {} /\ UNCHANGED listings /\ GoesQuietly(r, On(FALSE))
        BY <1>16, <1>17, <1>18, <2>1, <2>2 DEF List
    <2>4. On(TRUE) = ListedRun(s, p, TRUE) /\ On(FALSE) = ListedRun(s, p, FALSE)
        BY <1>2, <1>7 DEF ListedRun
    <2> HIDE DEF On
    <2> QED BY <1>2, <2>3, <2>4
<1>21. \A l \in known :
          /\ l \in listings /\ l \in ListedState /\ OnShelf(l, c)
          /\ ValueIn(l.kind) = ValueIn(s.kind)
          /\ s.nth # 1 => l.shop = new.shop /\ l.product = new.product /\ l.kind = s.kind
    <2> SUFFICES ASSUME NEW l \in known
                 PROVE /\ l \in listings /\ OnShelf(l, c)
                       /\ ValueIn(l.kind) = ValueIn(s.kind)
                       /\ s.nth # 1 => l.shop = new.shop /\ l.product = new.product
                                       /\ l.kind = s.kind
        BY <1>9
    <2>1. CASE l \in own
        <3>1. l \in listings /\ s.nth = 1 /\ l.legacy = Rows[c] /\ Rows[c] # NothingThere
            BY <1>6, <1>10, <1>11, <1>16, <2>1
        <3>2. ListingFits(l) BY <1>4, <3>1 DEF TablesFit
        <3>3. OnShelf(l, c) /\ FirstValue(Rows[c]) = ValueIn(l.kind)
            BY <3>1, <3>2, LinkedListing
        <3> QED BY <1>6, <1>8, <3>1, <3>3
    <2>2. CASE l \in same
        <3>1. l \in listings /\ l.shop = new.shop /\ l.product = new.product /\ l.kind = new.kind
            BY <1>17, <2>2
        <3>2. OnShelf(l, c) BY <1>6, <1>8, <1>13, <3>1 DEF OnShelf
        <3> QED BY <1>13, <3>1, <3>2
    <2> QED BY <1>18, <2>1, <2>2
<1>22. OnShelf(new, c) BY <1>6, <1>8, <1>13 DEF OnShelf
<1>23. \A l \in listings : OnShelf(l, c) =>
           l.shop = new.shop /\ catalog[l.product] = catalog[new.product]
    BY <1>6, <1>8, <1>13 DEF OnShelf
<1>24. ASSUME runManner = "serial", NEW l \in listings, OnShelf(l, c),
              ValueIn(l.kind) = ValueIn(s.kind)
       PROVE l.product = new.product /\ l.kind = new.kind /\ l.shop = new.shop
    <2>1. NoTwins /\ ListingsOfOneProduct /\ SerialFits(s)
        BY <1>2, <1>3, <1>24, OnlyRun, AlikeRuns
    <2>2. l \in ListedState /\ (l.kind # NothingThere => l.kind[1] = l.product)
        BY <1>9, <1>24, <2>1 DEF ListingsOfOneProduct
    <2>3. new.kind # NothingThere => new.kind[1] = new.product
        BY <1>3, <1>5, <1>6, <1>13, <2>1 DEF SerialFits
    <2>4. catalog[l.product] # NothingThere BY <1>8, <1>13, <1>23, <1>24
    <2>5. ValueIn(l.kind) = ValueIn(new.kind) BY <1>13, <1>24
    <2>6. l.shop = new.shop /\ catalog[l.product] = catalog[new.product] BY <1>23, <1>24
    <2> QED BY <1>15, <1>24, <2>1, <2>2, <2>3, <2>4, <2>5, <2>6, SameFace
<1>25. runManner = "serial" => (s.kind # NothingThere => s.kind[1] = s.byRow[p])
    <2>1. runManner = "serial" => SerialFits(s) BY <1>2, <1>3, OnlyRun, AlikeRuns
    <2> QED BY <1>3, <1>5, <1>6, <2>1 DEF SerialFits
<1>26. PICK to : to = ListedRun(s, p, TRUE) OBVIOUS
<1>27. CASE \E l \in known :
             LET after == Listed(l, new.price, new.kind, row)
             IN IF Refused(after, listings \ {l})
                THEN GoesQuietly(r, NextRow(s, FALSE)) /\ UNCHANGED listings
                ELSE /\ listings' = (listings \ {l}) \cup {after}
                     /\ IF after = l THEN GoesQuietly(r, ListedRun(s, p, TRUE))
                        ELSE Goes(r, ListedRun(s, p, TRUE))
    <2>1. PICK l \in known :
             LET after == Listed(l, new.price, new.kind, row)
             IN IF Refused(after, listings \ {l})
                THEN GoesQuietly(r, NextRow(s, FALSE)) /\ UNCHANGED listings
                ELSE /\ listings' = (listings \ {l}) \cup {after}
                     /\ IF after = l THEN GoesQuietly(r, ListedRun(s, p, TRUE))
                        ELSE Goes(r, ListedRun(s, p, TRUE))
        BY <1>27
    <2>2. PICK m : m = Listed(l, new.price, new.kind, row) OBVIOUS
    <2>3. CASE Refused(m, listings \ {l})
        <3>1. GoesQuietly(r, NextRow(s, FALSE)) /\ UNCHANGED listings BY <2>1, <2>2, <2>3
        <3>2. UNCHANGED market BY <1>19, <3>1 DEF market
        <3> QED BY <1>1, <1>2, <1>19, <3>1, <3>2, FailsKept
    <2>4. CASE ~Refused(m, listings \ {l})
        <3>1. /\ listings' = (listings \ {l}) \cup {m}
              /\ (m = l /\ GoesQuietly(r, to)) \/ Goes(r, to)
            BY <1>26, <2>1, <2>2, <2>4
        <3>2. /\ l \in listings /\ l \in ListedState /\ OnShelf(l, c)
              /\ ValueIn(l.kind) = ValueIn(s.kind)
              /\ s.nth # 1 => l.shop = new.shop /\ l.product = new.product /\ l.kind = s.kind
            BY <1>21
        <3>3. PICK legacy : legacy = IF row = NothingThere THEN l.legacy ELSE row OBVIOUS
        <3>4. legacy \in OldOrNone BY <1>11, <3>2, <3>3 DEF ListedState
        <3>5. m = [l EXCEPT !.price = new.price, !.kind = new.kind, !.legacy = legacy]
            BY <2>2, <3>3 DEF Listed
        <3>6. /\ m \in ListedState /\ m.shop = l.shop /\ m.product = l.product
              /\ m.kind = s.kind /\ m.price = s.read[p] /\ m.legacy = legacy
            BY <1>13, <1>14, <3>2, <3>4, <3>5 DEF ListedState
        <3>7. OnShelf(m, c) /\ ValueIn(m.kind) = ValueIn(s.kind)
            BY <3>2, <3>6 DEF OnShelf
        <3>8. (s.nth = 1 => m.legacy = p) /\ (s.nth # 1 => m.legacy = l.legacy)
            BY <1>10, <1>11, <3>3, <3>6
        <3>9. ListingFits(m)
            <4>1. ListingFits(l) BY <1>4, <3>2 DEF TablesFit
            <4>2. m.shop \in shops /\ catalog[m.product] = NameOf[p] /\ catalog[m.product] # NothingThere
                BY <1>6, <1>8, <3>2, <3>6, <4>1 DEF ListingFits, OnShelf
            <4>3. m.kind # NothingThere => catalog[m.kind[1]] = catalog[m.product] /\ KindThere(m.kind)
                BY <1>8, <3>6, <4>2
            <4>4. OnShelf(m, c) /\ HasValue(Rows[c], ValueIn(m.kind))
                BY <1>6, <1>8, <3>6, <3>7
            <4>5. m.legacy # NothingThere =>
                      \E n \in RowNumbers : /\ Rows[n] = m.legacy /\ OnShelf(m, n)
                                            /\ FirstValue(m.legacy) = ValueIn(m.kind)
                <5>1. CASE s.nth = 1
                    BY <1>6, <1>8, <3>6, <3>7, <3>8, <5>1
                <5>2. CASE s.nth # 1
                    <6>1. m.legacy = l.legacy /\ m.kind = l.kind BY <3>2, <3>6, <3>8, <5>2
                    <6>2. \A n \in RowNumbers : OnShelf(l, n) <=> OnShelf(m, n)
                        BY <3>6 DEF OnShelf
                    <6> QED BY <4>1, <6>1, <6>2 DEF ListingFits
                <5> QED BY <5>1, <5>2
            <4> QED BY <4>2, <4>3, <4>4, <4>5 DEF ListingFits
        <3>10. \A x \in listings \ {l} :
                  /\ <<x.shop, x.product, x.kind>> # <<m.shop, m.product, m.kind>>
                  /\ m.legacy # NothingThere => x.legacy # m.legacy
            BY <2>4 DEF Refused
        <3>11. ListingsUnique'
            <4>1. ListingsUnique BY <1>4 DEF TablesFit
            <4> QED BY <3>1, <3>10, <4>1 DEF ListingsUnique
        <3>12. /\ listings' \subseteq ListedState /\ m \in listings'
               /\ \A x \in listings' : ListingFits(x)
               /\ \A x \in listings' : x = m \/ x \in listings
               /\ \A x \in listings : x \notin listings' => x = l
            BY <1>4, <1>9, <3>1, <3>6, <3>9 DEF TablesFit
        <3>13. (GoesQuietly(r, to) /\ UNCHANGED listings) \/ Goes(r, to)
            <4>1. m = l => listings' = listings BY <3>1, <3>2
            <4> QED BY <3>1, <4>1
        <3>14. ASSUME runManner = "serial"
               PROVE /\ m.kind # NothingThere => m.kind[1] = m.product
                     /\ TriplesOf(listings)' = TriplesOf(listings)
            <4>1. l.product = new.product /\ l.kind = new.kind BY <1>24, <3>2, <3>14
            <4>2. m.kind # NothingThere => m.kind[1] = m.product
                BY <1>13, <1>25, <3>6, <3>14, <4>1
            <4>3. <<m.shop, m.product, m.kind>> = <<l.shop, l.product, l.kind>>
                BY <1>13, <3>6, <4>1
            <4>4. \A x \in listings : \E y \in listings' :
                     <<y.shop, y.product, y.kind>> = <<x.shop, x.product, x.kind>>
                BY <3>1, <4>3
            <4>5. \A y \in listings' : \E x \in listings :
                     <<y.shop, y.product, y.kind>> = <<x.shop, x.product, x.kind>>
                BY <3>1, <3>2, <4>3
            <4> QED BY <4>2, <4>4, <4>5 DEF TriplesOf
        <3>15. ListsAs(s, c, p, m) BY <3>2, <3>6, <3>7, <3>8, <3>12 DEF ListsAs
        <3> QED BY <1>2, <1>3, <1>5, <1>6, <1>19, <1>26, <3>11, <3>12, <3>13, <3>14, <3>15,
                ListingKept
    <2> QED BY <2>3, <2>4
<1>28. CASE /\ known = {} /\ ~Refused(new, listings)
            /\ listings' = listings \cup {new} /\ Goes(r, ListedRun(s, p, TRUE))
    <2>1. ListingFits(new)
        <3>1. new.shop \in shops /\ catalog[new.product] # NothingThere BY <1>8, <1>13, <1>14
        <3>2. new.kind # NothingThere =>
                  catalog[new.kind[1]] = catalog[new.product] /\ KindThere(new.kind)
            BY <1>8, <1>13
        <3>3. OnShelf(new, c) /\ HasValue(Rows[c], ValueIn(new.kind)) BY <1>6, <1>8, <1>13, <1>22
        <3>4. new.legacy # NothingThere => /\ Rows[c] = new.legacy /\ OnShelf(new, c)
                                           /\ FirstValue(new.legacy) = ValueIn(new.kind)
            BY <1>6, <1>8, <1>10, <1>13, <1>22
        <3> QED BY <3>1, <3>2, <3>3, <3>4 DEF ListingFits
    <2>2. \A x \in listings :
              /\ <<x.shop, x.product, x.kind>> # <<new.shop, new.product, new.kind>>
              /\ new.legacy # NothingThere => x.legacy # new.legacy
        BY <1>28 DEF Refused
    <2>3. ListingsUnique'
        <3>1. ListingsUnique BY <1>4 DEF TablesFit
        <3> QED BY <1>28, <2>2, <3>1 DEF ListingsUnique
    <2>4. /\ listings' \subseteq ListedState /\ new \in listings'
          /\ \A x \in listings' : ListingFits(x)
          /\ \A x \in listings' : x = new \/ x \in listings
          /\ \A x \in listings : x \in listings'
        BY <1>4, <1>9, <1>15, <1>28, <2>1 DEF TablesFit
    <2>5. ASSUME runManner = "serial"
          PROVE /\ new.kind # NothingThere => new.kind[1] = new.product
                /\ settled = NothingThere
        <3>1. new.kind # NothingThere => new.kind[1] = new.product BY <1>13, <1>25, <2>5
        <3>2. ASSUME settled # NothingThere PROVE FALSE
            <4>1. SettledFits BY <1>3, <2>5, OnlyRun
            <4>2. ValueIn(s.kind) \in OldValues \cup {NothingThere}
                BY <1>3, <1>5, <1>6, ListsAt
            <4>3. PICK l \in listings : OnShelf(l, c) /\ ValueIn(l.kind) = ValueIn(s.kind)
                BY <1>6, <1>8, <3>2, <4>1, <4>2 DEF SettledFits, AllThere
            <4>4. l \in same BY <1>17, <1>24, <2>5, <4>3
            <4> QED BY <1>18, <1>28, <4>4
        <3> QED BY <3>1, <3>2
    <2>6. (s.nth = 1 => new.legacy = p) /\ ValueIn(new.kind) = ValueIn(s.kind)
          /\ new.price = s.read[p]
        BY <1>10, <1>13
    <2>7. Goes(r, to) BY <1>26, <1>28
    <2>8. ListsAs(s, c, p, new) BY <1>22, <2>4, <2>6 DEF ListsAs
    <2> QED BY <1>2, <1>3, <1>5, <1>6, <1>19, <1>26, <2>3, <2>4, <2>5, <2>7, <2>8, ListingKept
<1>29. CASE UNCHANGED listings /\ GoesQuietly(r, ListedRun(s, p, FALSE))
    <2>1. UNCHANGED market BY <1>19, <1>29 DEF market
    <2>2. PICK on : on = ListedRun(s, p, FALSE) OBVIOUS
    <2>3. on \in RunState /\ RunFits(on) /\ ~on.ok /\ (SerialFits(s) => SerialFits(on))
        BY <1>3, <1>5, <1>6, <2>2, OnFits
    <2>4. Progress(on)' BY <2>3 DEF Progress
    <2>5. runsMade' \in 0 .. MaxRuns[runManner] BY <1>3, <1>19 DEF MigrationTyped
    <2>6. GoesQuietly(r, on) BY <1>29, <2>2
    <2> QED BY <1>2, <1>3, <1>19, <2>1, <2>3, <2>4, <2>5, <2>6, QuietKept, OnlyRun, AlikeRuns
<1> QED BY <1>20, <1>27, <1>28, <1>29

-----------------------------------------------------------------------------
(* Migration: the end of a clean run *)

LEMMA RowIsNumber ==
    ASSUME runManner \in MigrationManners
    PROVE /\ Len(Rows) \in Nat /\ RowNumbers = 1 .. Len(Rows) /\ RowNumbers \subseteq Int
          /\ \A n \in RowNumbers : VariantNumbers(n) \subseteq Int
<1>1. Len(Rows) \in Nat BY RowsThere
<1>2. \A n \in RowNumbers : n \in Int BY <1>1 DEF RowNumbers
<1>3. \A n \in RowNumbers : \A j \in VariantNumbers(n) : j \in Int
    BY RowsThere, VariantsThere DEF VariantNumbers
<1> QED BY <1>1, <1>2, <1>3 DEF RowNumbers

\* A clean run has done every row.
LEMMA CleanDone ==
    ASSUME MigrationInv, NEW r \in Runs, Busy(r), Clean(r)
    PROVE /\ shops = Sellers
          /\ \A n \in RowNumbers, val \in OldValues \cup {NothingThere} :
                /\ HasValue(Rows[n], val)
                /\ \A m \in RowNumbers : m > n /\ HasValue(Rows[m], val) => ~SameShelf(m, n)
                => \E l \in listings : /\ OnShelf(l, n) /\ ValueIn(l.kind) = val
                                       /\ l.price = priced[Rows[n]]
          /\ \A n \in RowNumbers :
                (\A m \in RowNumbers : m > n => ~SameFirst(m, n))
                => \E l \in listings : l.legacy = Rows[n]
          /\ \A n \in RowNumbers : \A j \in VariantNumbers(n) :
                (\A m \in RowNumbers : \A i \in VariantNumbers(m) :
                     Later(m, i, n, j) => ~SameKindOf(m, i, n, j))
                => \E k \in kinds : k.legacy = VariantAt(n, j)
<1>1. run[r].step = "end" /\ run[r].step \in RunSteps BY DEF Clean, RunSteps
<1>2. PICK s \in RunState : s = run[r] BY <1>1, BusyFits
<1>3. RunFits(s) /\ Progress(s) /\ MigrationTyped /\ runManner \in MigrationManners
    BY <1>1, <1>2, BusyFits
<1>4. s.step = "end" /\ s.alone /\ s.ok BY <1>2 DEF Clean
<1>5. s.read = priced /\ shops = Sellers BY <1>3, <1>4 DEF RunFits
<1>6. AtRow(s) = Len(Rows) + 1 BY <1>3, <1>4, PlaceThere
<1>7. \A n \in RowNumbers : n < AtRow(s) BY <1>3, <1>6, RowIsNumber
<1>8. \A n \in RowNumbers : \A val : HasValue(Rows[n], val) => Done(s, n, val)
    BY <1>7 DEF Done
<1>9. \A n \in RowNumbers : \A val : Done(s, n, val) => HasValue(Rows[n], val)
    <2>1. \A n \in RowNumbers : n # AtRow(s) BY <1>3, <1>6, RowIsNumber
    <2> QED BY <2>1 DEF Done
<1>10. \A n \in RowNumbers : FirstDone(s, n) BY <1>7 DEF FirstDone
<1>11. \A n \in RowNumbers : \A j \in VariantNumbers(n) : KindDone(s, n, j) BY <1>7 DEF KindDone
<1>12. ListedSoFar(s) /\ LegacySoFar(s) /\ KindsSoFar(s) BY <1>3, <1>4 DEF Progress
<1>13. \A n \in RowNumbers, val \in OldValues \cup {NothingThere} :
          /\ HasValue(Rows[n], val)
          /\ \A m \in RowNumbers : m > n /\ HasValue(Rows[m], val) => ~SameShelf(m, n)
          => \E l \in listings : /\ OnShelf(l, n) /\ ValueIn(l.kind) = val
                                 /\ l.price = priced[Rows[n]]
    BY <1>5, <1>8, <1>9, <1>12 DEF ListedSoFar
<1>14. \A n \in RowNumbers :
          (\A m \in RowNumbers : m > n => ~SameFirst(m, n))
          => \E l \in listings : l.legacy = Rows[n]
    BY <1>10, <1>12 DEF LegacySoFar
<1>15. \A n \in RowNumbers : \A j \in VariantNumbers(n) :
          (\A m \in RowNumbers : \A i \in VariantNumbers(m) :
               Later(m, i, n, j) => ~SameKindOf(m, i, n, j))
          => \E k \in kinds : k.legacy = VariantAt(n, j)
    BY <1>11, <1>12 DEF KindsSoFar
<1> QED BY <1>5, <1>13, <1>14, <1>15

\* The last row of a shelf that has a value is the one whose price is shown.
LEMMA LastListed ==
    ASSUME MigrationInv, NEW r \in Runs, Busy(r), Clean(r), NEW n \in RowNumbers,
           NEW val \in OldValues \cup {NothingThere}, HasValue(Rows[n], val)
    PROVE \E m \in RowNumbers :
             /\ SameShelf(m, n) /\ HasValue(Rows[m], val)
             /\ \A x \in RowNumbers : x > m /\ HasValue(Rows[x], val) => ~SameShelf(x, n)
             /\ \E l \in listings : /\ OnShelf(l, n) /\ OnShelf(l, m) /\ ValueIn(l.kind) = val
                                    /\ l.price = priced[Rows[m]]
<1>1. runManner \in MigrationManners BY DEF MigrationInv, MigrationTyped
<1> DEFINE B == {m \in RowNumbers : SameShelf(m, n) /\ HasValue(Rows[m], val)}
<1>2. n \in B BY DEF SameShelf
<1>3. PICK m \in B : \A x \in B : x <= m
    <2>1. B \subseteq 1 .. Len(Rows) /\ B # {} BY <1>1, <1>2, RowIsNumber
    <2> HIDE DEF B
    <2> QED BY <1>1, <2>1, LastThere, RowIsNumber
<1>4. m \in RowNumbers /\ SameShelf(m, n) /\ HasValue(Rows[m], val) OBVIOUS
<1>5. \A x \in RowNumbers : x > m /\ HasValue(Rows[x], val) => ~SameShelf(x, n)
    <2> SUFFICES ASSUME NEW x \in RowNumbers, x > m, HasValue(Rows[x], val), SameShelf(x, n)
                 PROVE FALSE
        OBVIOUS
    <2>1. x <= m BY <1>3
    <2> QED BY <1>1, <2>1, RowIsNumber
<1>6. \A x \in RowNumbers : SameShelf(x, m) => SameShelf(x, n) BY <1>4 DEF SameShelf
<1> HIDE DEF B
<1>7. PICK l \in listings : OnShelf(l, m) /\ ValueIn(l.kind) = val /\ l.price = priced[Rows[m]]
    BY <1>4, <1>5, <1>6, CleanDone
<1>8. OnShelf(l, n) BY <1>4, <1>7 DEF OnShelf, SameShelf
<1> QED BY <1>4, <1>5, <1>7, <1>8

\* The last variant of a name that has a value is the one the kind is linked to.
LEMMA LastLinked ==
    ASSUME MigrationInv, NEW r \in Runs, Busy(r), Clean(r), NEW n \in RowNumbers,
           NEW j \in VariantNumbers(n)
    PROVE \E m \in RowNumbers : \E i \in VariantNumbers(m) :
             /\ SameKindOf(m, i, n, j)
             /\ \A x \in RowNumbers : \A y \in VariantNumbers(x) :
                   Later(x, y, m, i) => ~SameKindOf(x, y, n, j)
             /\ \E k \in kinds : /\ k.legacy = VariantAt(m, i) /\ AtKind(m, i, k)
                                 /\ AtKind(n, j, k)
<1>1. runManner \in MigrationManners BY DEF MigrationInv, MigrationTyped
<1> DEFINE B == {m \in RowNumbers : \E i \in VariantNumbers(m) : SameKindOf(m, i, n, j)}
<1>2. n \in B BY DEF SameKindOf
<1>3. PICK m \in B : \A x \in B : x <= m
    <2>1. B \subseteq 1 .. Len(Rows) /\ B # {} BY <1>1, <1>2, RowIsNumber
    <2> HIDE DEF B
    <2> QED BY <1>1, <2>1, LastThere, RowIsNumber
<1>4. m \in RowNumbers /\ \E i \in VariantNumbers(m) : SameKindOf(m, i, n, j) OBVIOUS
<1> DEFINE C == {i \in VariantNumbers(m) : SameKindOf(m, i, n, j)}
<1>5. PICK i \in C : \A y \in C : y <= i
    <2>1. PICK L \in Nat : L = Len(VariantsOf[Rows[m]]) BY <1>1, <1>4, RowsThere, VariantsThere
    <2>2. C \subseteq 1 .. L /\ C # {} BY <1>4, <2>1 DEF VariantNumbers
    <2> HIDE DEF C
    <2> QED BY <2>2, LastThere
<1>6. i \in VariantNumbers(m) /\ SameKindOf(m, i, n, j) OBVIOUS
<1>7. ASSUME NEW x \in RowNumbers, NEW y \in VariantNumbers(x), Later(x, y, m, i),
             SameKindOf(x, y, n, j)
      PROVE FALSE
    <2>1. x \in B BY <1>7
    <2>2. x <= m BY <1>3, <2>1
    <2>3. x \in Int /\ m \in Int /\ y \in Int /\ i \in Int BY <1>1, <1>4, <1>6, RowIsNumber
    <2>4. x = m /\ y > i BY <1>7, <2>2, <2>3 DEF Later
    <2>5. y \in C BY <1>7, <2>4
    <2>6. y <= i BY <1>5, <2>5
    <2> QED BY <2>3, <2>4, <2>6
<1> HIDE DEF B, C
<1>8. \A x \in RowNumbers : \A y \in VariantNumbers(x) :
          Later(x, y, m, i) => ~SameKindOf(x, y, m, i)
    BY <1>6, <1>7 DEF SameKindOf
<1>9. PICK k \in kinds : k.legacy = VariantAt(m, i) BY <1>4, <1>6, <1>8, CleanDone
<1>10. KindFits(k) BY DEF MigrationInv, TablesFit
<1>11. AtKind(m, i, k) BY <1>1, <1>4, <1>6, <1>9, <1>10, LinkedKind
<1>12. AtKind(n, j, k) BY <1>6, <1>11 DEF AtKind, SameKindOf
<1> QED BY <1>4, <1>6, <1>7, <1>9, <1>11, <1>12

\* What a clean run leaves while runs come one at a time.
LEMMA CleanFinal ==
    ASSUME MigrationInv, NEW r \in Runs, Busy(r), Clean(r), runManner = "serial"
    PROVE /\ shops = Sellers /\ AllThere
          /\ \A k \in kinds : FinalKind(k)
          /\ \A l \in listings : FinalPrice(l, priced) /\ FinalLegacy(l)
<1>1. runManner \in MigrationManners /\ TablesTyped /\ TablesFit
    BY DEF MigrationInv, MigrationTyped
<1>2. NoTwins /\ ListingsOfOneProduct BY OnlyRun DEF Busy
<1>3. shops = Sellers BY CleanDone
<1>4. \A k \in kinds : k \in KindState /\ KindFits(k)
    BY <1>1 DEF TablesTyped, TablesFit
<1>5. \A l \in listings : /\ l \in ListedState /\ ListingFits(l) /\ l.product \in OldProducts
                          /\ ValueIn(l.kind) \in OldValues \cup {NothingThere}
    <2> SUFFICES ASSUME NEW l \in listings
                 PROVE /\ l \in ListedState /\ ListingFits(l) /\ l.product \in OldProducts
                       /\ ValueIn(l.kind) \in OldValues \cup {NothingThere}
        OBVIOUS
    <2>1. l \in ListedState /\ ListingFits(l) BY <1>1 DEF TablesTyped, TablesFit
    <2>2. l.kind \in ValuePairs \cup {NothingThere} /\ l.product \in OldProducts
        BY <2>1 DEF ListedState
    <2> QED BY <2>1, <2>2 DEF ValueIn, ValuePairs
<1>6. \A n \in RowNumbers : Rows[n] \in OldProducts /\ NameOf[Rows[n]] # NothingThere
    BY <1>1, RowsThere, PairsThere, MigrationAssumption
<1>7. \A l, m \in listings, n \in RowNumbers :
          OnShelf(l, n) /\ OnShelf(m, n) /\ ValueIn(l.kind) = ValueIn(m.kind) => l = m
    <2> SUFFICES ASSUME NEW l \in listings, NEW m \in listings, NEW n \in RowNumbers,
                        OnShelf(l, n), OnShelf(m, n), ValueIn(l.kind) = ValueIn(m.kind)
                 PROVE l = m
        OBVIOUS
    <2>1. l.shop = m.shop /\ catalog[l.product] = catalog[m.product]
          /\ catalog[l.product] # NothingThere
        BY <1>6 DEF OnShelf
    <2>2. /\ l.kind # NothingThere => l.kind[1] = l.product
          /\ m.kind # NothingThere => m.kind[1] = m.product
        BY <1>2 DEF ListingsOfOneProduct
    <2>3. l.product = m.product /\ l.kind = m.kind BY <1>2, <1>5, <2>1, <2>2, SameFace
    <2> QED BY <1>1, <2>1, <2>3 DEF TablesFit, ListingsUnique
<1>8. \A n \in RowNumbers : \E val \in OldValues \cup {NothingThere} : HasValue(Rows[n], val)
    <2> SUFFICES ASSUME NEW n \in RowNumbers
                 PROVE \E val \in OldValues \cup {NothingThere} : HasValue(Rows[n], val)
        OBVIOUS
    <2>1. CASE VariantsOf[Rows[n]] = <<>> BY <2>1 DEF HasValue
    <2>2. CASE VariantsOf[Rows[n]] # <<>>
        <3>1. 1 \in 1 .. Len(VariantsOf[Rows[n]]) BY <1>6, <2>2, VariantsThere
        <3>2. ValueOf[VariantsOf[Rows[n]][1]] \in OldValues BY <1>6, <3>1, VariantsThere
        <3> QED BY <3>1, <3>2 DEF HasValue
    <2> QED BY <2>1, <2>2
<1>9. AllThere
    <2>1. \A n \in RowNumbers, val \in OldValues \cup {NothingThere} : HasValue(Rows[n], val) =>
              \E l \in listings : OnShelf(l, n) /\ ValueIn(l.kind) = val
        BY LastListed
    <2>2. \A n \in RowNumbers : \E p \in OldProducts : catalog[p] = NameOf[Rows[n]]
        BY <1>5, <1>8, <2>1 DEF OnShelf
    <2>3. \A n \in RowNumbers : \A j \in VariantNumbers(n) : \E k \in kinds : AtKind(n, j, k)
        BY LastLinked
    <2> QED BY <2>1, <2>2, <2>3 DEF AllThere
<1>10. ASSUME NEW k \in kinds PROVE FinalKind(k)
    <2>1. PICK n \in RowNumbers : \E j \in VariantNumbers(n) : AtKind(n, j, k)
        BY <1>4 DEF KindFits
    <2>2. PICK j \in VariantNumbers(n) : AtKind(n, j, k) BY <2>1
    <2>3. PICK m \in RowNumbers : \E i \in VariantNumbers(m) :
             /\ SameKindOf(m, i, n, j)
             /\ \A x \in RowNumbers : \A y \in VariantNumbers(x) :
                   Later(x, y, m, i) => ~SameKindOf(x, y, n, j)
             /\ \E g \in kinds : /\ g.legacy = VariantAt(m, i) /\ AtKind(m, i, g)
                                 /\ AtKind(n, j, g)
        BY LastLinked
    <2>4. PICK i \in VariantNumbers(m) :
             /\ SameKindOf(m, i, n, j)
             /\ \A x \in RowNumbers : \A y \in VariantNumbers(x) :
                   Later(x, y, m, i) => ~SameKindOf(x, y, n, j)
             /\ \E g \in kinds : /\ g.legacy = VariantAt(m, i) /\ AtKind(m, i, g)
                                 /\ AtKind(n, j, g)
        BY <2>3
    <2>5. PICK g \in kinds : g.legacy = VariantAt(m, i) /\ AtKind(m, i, g) /\ AtKind(n, j, g)
        BY <2>4
    <2>6. g = k
        <3>1. g.value = k.value /\ catalog[g.product] = catalog[k.product]
              /\ catalog[g.product] # NothingThere
            BY <1>6, <2>2, <2>5 DEF AtKind
        <3>2. g.product \in OldProducts /\ k.product \in OldProducts BY <1>4 DEF KindState
        <3>3. g.product = k.product BY <1>2, <3>1, <3>2 DEF NoTwins
        <3> QED BY <1>1, <3>1, <3>3 DEF TablesFit, KindsUnique
    <2>7. \A x \in RowNumbers : \A y \in VariantNumbers(x) :
              Later(x, y, m, i) => ~AtKind(x, y, k)
        BY <2>2, <2>4 DEF AtKind, SameKindOf
    <2> QED BY <2>5, <2>6, <2>7 DEF FinalKind
<1>11. ASSUME NEW l \in listings PROVE FinalPrice(l, priced)
    <2>1. PICK n \in RowNumbers : OnShelf(l, n) /\ HasValue(Rows[n], ValueIn(l.kind))
        BY <1>5 DEF ListingFits
    <2>2. PICK val \in OldValues \cup {NothingThere} : val = ValueIn(l.kind) BY <1>5
    <2>3. PICK m \in RowNumbers :
             /\ SameShelf(m, n) /\ HasValue(Rows[m], val)
             /\ \A x \in RowNumbers : x > m /\ HasValue(Rows[x], val) => ~SameShelf(x, n)
             /\ \E g \in listings : /\ OnShelf(g, n) /\ OnShelf(g, m) /\ ValueIn(g.kind) = val
                                    /\ g.price = priced[Rows[m]]
        BY <2>1, <2>2, LastListed
    <2>4. PICK g \in listings : /\ OnShelf(g, n) /\ OnShelf(g, m) /\ ValueIn(g.kind) = val
                                /\ g.price = priced[Rows[m]]
        BY <2>3
    <2>5. g = l BY <1>7, <2>1, <2>2, <2>4
    <2>6. \A x \in RowNumbers : x > m => ~AtListing(x, l)
        BY <2>1, <2>2, <2>3 DEF AtListing, OnShelf, SameShelf
    <2>7. AtListing(m, l) BY <2>2, <2>3, <2>4, <2>5 DEF AtListing
    <2> QED BY <2>4, <2>5, <2>6, <2>7 DEF FinalPrice
<1>12. ASSUME NEW l \in listings PROVE FinalLegacy(l)
    <2>1. CASE \A n \in RowNumbers : ~FirstAt(n, l)
        <3>1. l.legacy = NothingThere BY <1>5, <2>1 DEF ListingFits, FirstAt
        <3> QED BY <2>1, <3>1 DEF FinalLegacy
    <2>2. CASE \E n \in RowNumbers : FirstAt(n, l)
        <3> DEFINE B == {m \in RowNumbers : FirstAt(m, l)}
        <3>1. PICK m \in B : \A x \in B : x <= m
            <4>1. B \subseteq 1 .. Len(Rows) /\ B # {} BY <1>1, <2>2, RowIsNumber
            <4> HIDE DEF B
            <4> QED BY <1>1, <4>1, LastThere, RowIsNumber
        <3>2. m \in RowNumbers /\ FirstAt(m, l) OBVIOUS
        <3>3. \A x \in RowNumbers : x > m => ~FirstAt(x, l)
            <4> SUFFICES ASSUME NEW x \in RowNumbers, x > m, FirstAt(x, l) PROVE FALSE
                OBVIOUS
            <4>1. x <= m BY <3>1
            <4> QED BY <1>1, <4>1, RowIsNumber
        <3> HIDE DEF B
        <3>4. \A x \in RowNumbers : x > m => ~SameFirst(x, m)
            BY <3>2, <3>3 DEF SameFirst, SameShelf, FirstAt, OnShelf
        <3>5. PICK g \in listings : g.legacy = Rows[m] BY <3>2, <3>4, CleanDone
        <3>6. Rows[m] # NothingThere BY <1>6, <3>2, PairsThere
        <3>7. OnShelf(g, m) /\ FirstValue(Rows[m]) = ValueIn(g.kind)
            BY <1>5, <3>2, <3>5, <3>6, LinkedListing
        <3>8. g = l BY <1>7, <3>2, <3>7 DEF FirstAt
        <3> QED BY <3>2, <3>3, <3>5, <3>8 DEF FinalLegacy
    <2> QED BY <2>1, <2>2
<1> QED BY <1>3, <1>9, <1>10, <1>11, <1>12

LEMMA ReportsKept ==
    ASSUME MigrationInv, NEW r \in Runs, Reports(r)
    PROVE MigrationInv'
<1> USE DEF Reports
<1>1. CASE ~Clean(r) BY <1>1, EndsKept DEF Busy
<1>2. CASE Clean(r)
    <2>1. ASSUME runManner = "serial" PROVE SettledFits'
        <3>1. /\ shops = Sellers /\ AllThere
              /\ \A k \in kinds : FinalKind(k)
              /\ \A l \in listings : FinalPrice(l, priced) /\ FinalLegacy(l)
            BY <1>2, <2>1, CleanFinal
        <3>2. settled' = <<priced, shops, catalog, kinds, listings>> BY <1>2 DEF Left
        <3>3. UNCHANGED <<runManner, priced, shops, catalog, kinds, listings>> /\ Rows' = Rows
            BY DEF market, Rows
        <3>4. kinds \subseteq KindState /\ listings \subseteq ListedState
            BY DEF MigrationInv, MigrationTyped, TablesTyped
        <3>5. settled'[1] = priced /\ settled'[4] = kinds /\ settled'[5] = listings BY <3>2
        <3>6. settled' = <<settled'[1], Sellers, catalog', settled'[4], settled'[5]>>
              /\ shops' = Sellers
            BY <3>1, <3>2, <3>3, <3>5
        <3>7. AllThere'
            BY <3>1, <3>3 DEF AllThere, RowNumbers, VariantNumbers, VariantAt, AtKind, OnShelf
        <3>8. (\A k \in settled[4] : FinalKind(k))'
            <4>1. \A k : FinalKind(k) => FinalKind(k)'
                BY <3>3 DEF FinalKind, RowNumbers, VariantNumbers, VariantAt, AtKind
            <4>2. \A k \in settled'[4] : FinalKind(k)' BY <3>1, <3>5, <4>1
            <4> QED BY <4>2
        <3>9. (\A l \in settled[5] : FinalPrice(l, settled[1]))'
            BY <3>1, <3>3, <3>5 DEF FinalPrice, AtListing, RowNumbers, OnShelf
        <3>10. (\A l \in settled[5] : FinalLegacy(l))'
            BY <3>1, <3>3, <3>5 DEF FinalLegacy, FirstAt, RowNumbers, OnShelf
        <3>11. /\ (settled[4] \subseteq KindState /\ PairsOf(settled[4]) = PairsOf(kinds))'
               /\ (settled[5] \subseteq ListedState /\ TriplesOf(settled[5]) = TriplesOf(listings))'
            BY <3>3, <3>4, <3>5 DEF PairsOf, TriplesOf
        <3> QED BY <3>6, <3>7, <3>8, <3>9, <3>10, <3>11 DEF SettledFits
    <2> QED BY <2>1, EndsKept DEF Busy
<1> QED BY <1>1, <1>2

LEMMA StepMigrationInv == MigrationInv /\ [MigrationNext]_migrationVars => MigrationInv'
<1> SUFFICES ASSUME MigrationInv, [MigrationNext]_migrationVars PROVE MigrationInv' OBVIOUS
<1>1. ASSUME NEW r \in Runs, StoreFails(r) PROVE MigrationInv'
    <2>1. run[r].step \in RunSteps BY <1>1 DEF StoreFails, RunSteps
    <2>2. run[r] # NoRun BY <2>1, BusyFits
    <2> QED BY <1>1, <2>2, EndsKept DEF StoreFails
<1>2. ASSUME NEW r \in Runs, Dies(r) PROVE MigrationInv'
    BY <1>2, EndsKept DEF Dies, Busy
<1>3. ASSUME UNCHANGED migrationVars PROVE MigrationInv'
    <2>1. run' = run /\ UNCHANGED <<runManner, priced, market, edits, runsMade, settled>>
        BY <1>3 DEF migrationVars
    <2>2. /\ TablesTyped' /\ TablesFit'
          /\ runManner = "serial" => NoTwins' /\ ListingsOfOneProduct' /\ SettledFits'
        BY <2>1, TablesRest
    <2>3. MigrationTyped' BY <2>1, <2>2 DEF MigrationInv, MigrationTyped
    <2>4. \A q \in Runs : run[q] # NoRun =>
              /\ RunFits(run[q])' /\ Progress(run[q])'
              /\ SerialFits(run[q]) => SerialFits(run[q])'
        <3> SUFFICES ASSUME NEW q \in Runs, run[q] # NoRun
                     PROVE /\ RunFits(run[q])' /\ Progress(run[q])'
                           /\ SerialFits(run[q]) => SerialFits(run[q])'
            OBVIOUS
        <3>1. PICK s \in RunState : s = run[q] BY BusyTyped DEF MigrationInv
        <3>2. RunFits(s) /\ Progress(s) BY <3>1 DEF MigrationInv, RunsFit
        <3>3. RunFits(s)' BY <2>1, <2>2, <3>2, TablesRest, RunFitsGrown DEF MigrationInv
        <3>4. Progress(s)'
            BY <2>1, <3>2, TablesRest, SameProgress DEF MigrationInv, TablesFit, market
        <3>5. SerialFits(s) => SerialFits(s)' BY <2>1 DEF SerialFits, AtRow, Rows, market
        <3> QED BY <2>1, <3>1, <3>3, <3>4, <3>5, AlikeLater, AlikeRuns
    <2>5. RunsFit' BY <2>1, <2>4 DEF RunsFit
    <2>6. SerialFit' BY <2>1, <2>2, <2>4 DEF SerialFit, MigrationInv
    <2> QED BY <2>2, <2>3, <2>5, <2>6 DEF MigrationInv
<1> QED BY <1>1, <1>2, <1>3, BeginKept, LoadMapsKept, ReadRowsKept, ResolveKept, VaryKept, ListKept,
        ReportsKept, MakeStoreKept, EditRowKept DEF MigrationNext

-----------------------------------------------------------------------------
(* Migration: what follows *)

\* Two final kinds of one product and value are one, and so are two final listings of one
\* shop, product and kind.
LEMMA FinalKindOne ==
    ASSUME runManner \in MigrationManners, NEW k \in KindState, NEW m \in KindState,
           k.product = m.product, k.value = m.value, FinalKind(k), FinalKind(m)
    PROVE k = m
<1>1. PICK n \in RowNumbers : \E j \in VariantNumbers(n) :
          /\ AtKind(n, j, k) /\ k.legacy = VariantAt(n, j)
          /\ \A x \in RowNumbers : \A y \in VariantNumbers(x) :
                Later(x, y, n, j) => ~AtKind(x, y, k)
    BY DEF FinalKind
<1>2. PICK j \in VariantNumbers(n) :
          /\ AtKind(n, j, k) /\ k.legacy = VariantAt(n, j)
          /\ \A x \in RowNumbers : \A y \in VariantNumbers(x) :
                Later(x, y, n, j) => ~AtKind(x, y, k)
    BY <1>1
<1>3. PICK h \in RowNumbers : \E i \in VariantNumbers(h) :
          /\ AtKind(h, i, m) /\ m.legacy = VariantAt(h, i)
          /\ \A x \in RowNumbers : \A y \in VariantNumbers(x) :
                Later(x, y, h, i) => ~AtKind(x, y, m)
    BY DEF FinalKind
<1>4. PICK i \in VariantNumbers(h) :
          /\ AtKind(h, i, m) /\ m.legacy = VariantAt(h, i)
          /\ \A x \in RowNumbers : \A y \in VariantNumbers(x) :
                Later(x, y, h, i) => ~AtKind(x, y, m)
    BY <1>3
<1>5. AtKind(h, i, k) /\ AtKind(n, j, m) BY <1>2, <1>4 DEF AtKind
<1>6. ~Later(h, i, n, j) /\ ~Later(n, j, h, i) BY <1>2, <1>4, <1>5
<1>7. n \in Int /\ h \in Int /\ j \in Int /\ i \in Int BY RowIsNumber
<1>8. n = h /\ j = i BY <1>6, <1>7 DEF Later
<1>9. k.legacy = m.legacy BY <1>2, <1>4, <1>8
<1> QED BY <1>9 DEF KindState

LEMMA FinalListingOne ==
    ASSUME runManner \in MigrationManners, NEW l \in ListedState, NEW m \in ListedState,
           l.shop = m.shop, l.product = m.product, l.kind = m.kind, NEW prices,
           FinalPrice(l, prices), FinalPrice(m, prices), FinalLegacy(l), FinalLegacy(m)
    PROVE l = m
<1>1. \A n : (AtListing(n, l) <=> AtListing(n, m)) /\ (FirstAt(n, l) <=> FirstAt(n, m))
    BY DEF AtListing, FirstAt, OnShelf
<1>2. l.price = m.price
    <2>1. PICK n \in RowNumbers : /\ AtListing(n, l) /\ l.price = prices[Rows[n]]
                                  /\ \A x \in RowNumbers : x > n => ~AtListing(x, l)
        BY DEF FinalPrice
    <2>2. PICK h \in RowNumbers : /\ AtListing(h, m) /\ m.price = prices[Rows[h]]
                                  /\ \A x \in RowNumbers : x > h => ~AtListing(x, m)
        BY DEF FinalPrice
    <2>3. ~(h > n) /\ ~(n > h) BY <1>1, <2>1, <2>2
    <2>4. n = h BY <2>3, RowIsNumber
    <2> QED BY <2>1, <2>2, <2>4
<1>3. l.legacy = m.legacy
    <2>1. CASE \A n \in RowNumbers : ~FirstAt(n, l) BY <1>1, <2>1 DEF FinalLegacy
    <2>2. CASE \E n \in RowNumbers : FirstAt(n, l)
        <3>1. PICK n \in RowNumbers : /\ FirstAt(n, l) /\ l.legacy = Rows[n]
                                      /\ \A x \in RowNumbers : x > n => ~FirstAt(x, l)
            BY <2>2 DEF FinalLegacy
        <3>2. PICK h \in RowNumbers : /\ FirstAt(h, m) /\ m.legacy = Rows[h]
                                      /\ \A x \in RowNumbers : x > h => ~FirstAt(x, m)
            BY <1>1, <2>2 DEF FinalLegacy
        <3>3. ~(h > n) /\ ~(n > h) BY <1>1, <3>1, <3>2
        <3>4. n = h BY <3>3, RowIsNumber
        <3> QED BY <3>1, <3>2, <3>4
    <2> QED BY <2>1, <2>2
<1> QED BY <1>2, <1>3 DEF ListedState

LEMMA MigrationTypes == MigrationInv => MigrationTypeOK
<1> SUFFICES ASSUME MigrationInv PROVE MigrationTypeOK OBVIOUS
<1>1. MigrationTyped /\ TablesTyped /\ TablesFit /\ runManner \in MigrationManners
    BY DEF MigrationInv, MigrationTyped
<1>2. priced \in [OldProducts -> 0 .. MaxEdits[runManner]]
    <2>1. PICK M \in Nat : M = MaxEdits[runManner] BY <1>1, MigrationAssumption
    <2>2. edits \in Nat /\ edits <= M BY <1>1, <2>1 DEF MigrationTyped
    <2>3. ASSUME NEW p \in OldProducts PROVE priced[p] \in 0 .. M
        <3>1. PICK x \in Nat : x = priced[p] BY <1>1 DEF MigrationTyped
        <3>2. x <= edits BY <1>1, <3>1 DEF MigrationTyped
        <3> QED BY <2>2, <3>1, <3>2
    <2>4. priced = [p \in OldProducts |-> priced[p]] BY <1>1 DEF MigrationTyped
    <2>5. priced \in [OldProducts -> 0 .. M] BY <2>3, <2>4
    <2> QED BY <2>1, <2>5
<1>3. \A k \in kinds : k.product \in OldProducts /\ catalog[k.product] # NothingThere
    BY <1>1 DEF TablesTyped, TablesFit, KindState, KindFits
<1>4. \A l \in listings : l.shop \in shops /\ catalog[l.product] # NothingThere
    BY <1>1 DEF TablesFit, ListingFits
<1>5. \A r \in Runs : run[r] = NoRun \/ run[r].todo \in 0 .. Len(Rows)
    BY DEF MigrationInv, RunsFit, RunFits
<1> QED BY <1>1, <1>2, <1>3, <1>4, <1>5
        DEF MigrationTypeOK, MigrationTyped, TablesTyped, TablesFit,
        KindsUnique, ListingsUnique

LEMMA MigrationLists == MigrationInv => CleanRunLists
<1> SUFFICES ASSUME MigrationInv, NEW r \in Runs, Busy(r), Clean(r), NEW p \in RowsOf(runManner)
             PROVE IF VariantsOf[p] = <<>> THEN Sells(p, NothingThere)
                   ELSE \A n \in 1 .. Len(VariantsOf[p]) : Sells(p, ValueOf[VariantsOf[p][n]])
    BY DEF CleanRunLists
<1>1. runManner \in MigrationManners /\ TablesTyped BY DEF MigrationInv, MigrationTyped
<1>2. PICK c \in RowNumbers : Rows[c] = p BY <1>1, RowsThere
<1>3. p \in OldProducts BY <1>1, RowsThere
<1>4. ASSUME NEW val \in OldValues \cup {NothingThere}, HasValue(p, val) PROVE Sells(p, val)
    <2>1. PICK m \in RowNumbers :
             /\ SameShelf(m, c) /\ HasValue(Rows[m], val)
             /\ \A x \in RowNumbers : x > m /\ HasValue(Rows[x], val) => ~SameShelf(x, c)
             /\ \E l \in listings : /\ OnShelf(l, c) /\ OnShelf(l, m) /\ ValueIn(l.kind) = val
                                    /\ l.price = priced[Rows[m]]
        BY <1>2, <1>4, LastListed
    <2>2. PICK l \in listings : /\ OnShelf(l, c) /\ ValueIn(l.kind) = val
                                /\ l.price = priced[Rows[m]]
        BY <2>1
    <2>3. ShownFor(p, val) = Rows[m]
        <3> DEFINE Alike(i) ==
                /\ SellerOf[Rows[i]] = SellerOf[p] /\ NameOf[Rows[i]] = NameOf[p]
                /\ \/ val = NothingThere /\ VariantsOf[Rows[i]] = <<>>
                   \/ \E j \in 1 .. Len(VariantsOf[Rows[i]]) :
                          ValueOf[VariantsOf[Rows[i]][j]] = val
            LastAlike(q) == \E n \in 1 .. Len(Rows) :
                          q = Rows[n] /\ Alike(n) /\ \A x \in n + 1 .. Len(Rows) : ~Alike(x)
        <3>1. ShownFor(p, val) = CHOOSE q \in RowsOf(runManner) : LastAlike(q) BY DEF ShownFor
        <3>2. \A i : Alike(i) <=> SameShelf(i, c) /\ HasValue(Rows[i], val)
            BY <1>2 DEF SameShelf, HasValue
        <3> HIDE DEF Alike
        <3>3. PICK N \in Nat : N = Len(Rows) BY <1>1, RowIsNumber
        <3>4. RowNumbers = 1 .. N /\ m \in 1 .. N BY <1>1, <3>3, RowIsNumber
        <3>5. Alike(m) /\ \A x \in 1 .. N : x > m => ~Alike(x) BY <2>1, <3>2, <3>4
        <3>6. \A x \in m + 1 .. N : x \in 1 .. N /\ x > m BY <3>4
        <3>7. LastAlike(Rows[m]) /\ Rows[m] \in RowsOf(runManner)
            BY <1>1, <2>1, <3>3, <3>4, <3>5, <3>6, RowsThere
        <3>8. ASSUME NEW q \in RowsOf(runManner), LastAlike(q) PROVE q = Rows[m]
            <4>1. PICK n \in 1 .. N : /\ q = Rows[n] /\ Alike(n)
                                      /\ \A x \in n + 1 .. N : ~Alike(x)
                BY <3>3, <3>8
            <4>2. ~(n > m) BY <3>5, <4>1
            <4>3. ~(m > n)
                <5>1. m > n => m \in n + 1 .. N BY <3>4
                <5> QED BY <3>5, <4>1, <5>1
            <4>4. n = m BY <3>4, <4>2, <4>3
            <4> QED BY <4>1, <4>4
        <3> HIDE DEF LastAlike
        <3> QED BY <3>1, <3>7, <3>8
    <2>4. l.shop = SellerOf[p] BY <1>2, <2>2 DEF OnShelf
    <2>5. l.kind \in ValuePairs \cup {NothingThere} BY <1>1 DEF TablesTyped, ListedState
    <2>6. l.kind # NothingThere => l.kind[2] = val /\ l.kind[2] # NothingThere
        <3>1. l.kind # NothingThere => l.kind[2] \in OldValues BY <2>5 DEF ValuePairs
        <3> QED BY <2>2, <3>1, PairsThere DEF ValueIn
    <2>7. l.kind = NothingThere => val = NothingThere BY <2>2 DEF ValueIn
    <2> QED BY <2>2, <2>3, <2>4, <2>6, <2>7 DEF Sells
<1>5. CASE VariantsOf[p] = <<>>
    <2>1. HasValue(p, NothingThere) BY <1>5 DEF HasValue
    <2> QED BY <1>4, <1>5, <2>1
<1>6. CASE VariantsOf[p] # <<>>
    <2>1. ASSUME NEW n \in 1 .. Len(VariantsOf[p]) PROVE Sells(p, ValueOf[VariantsOf[p][n]])
        <3>1. PICK val \in OldValues : val = ValueOf[VariantsOf[p][n]] BY <1>3, VariantsThere
        <3>2. HasValue(p, val) BY <3>1 DEF HasValue
        <3> QED BY <1>4, <3>1, <3>2
    <2> QED BY <1>6, <2>1
<1> QED BY <1>5, <1>6

\* A clean run that ends over tables which a clean run left, at the prices of then.
RepeatsStep ==
    \A r \in Runs : /\ runManner = "serial" /\ Busy(r) /\ Clean(r) /\ run'[r] = NoRun
                    /\ settled # NothingThere /\ settled[1] = priced
                    => settled' = settled

LEMMA MigrationRepeats == MigrationInv /\ [MigrationNext]_migrationVars => RepeatsStep
<1> SUFFICES ASSUME MigrationInv, [MigrationNext]_migrationVars, NEW r \in Runs,
                    runManner = "serial", Busy(r), Clean(r), run'[r] = NoRun,
                    settled # NothingThere, settled[1] = priced
             PROVE settled' = settled
    BY DEF RepeatsStep
<1>1. runManner \in MigrationManners /\ TablesTyped BY DEF MigrationInv, MigrationTyped
<1>2. settled' = settled \/ settled' = Left
    BY DEF MigrationNext, Begin, StoreFails, LoadMaps, ReadRows, Resolve, Vary, List, Reports, Dies,
        MakeStore, EditRow, migrationVars
<1>3. SettledFits BY OnlyRun DEF Busy
<1>4. /\ shops = Sellers /\ AllThere
      /\ \A k \in kinds : FinalKind(k)
      /\ \A l \in listings : FinalPrice(l, priced) /\ FinalLegacy(l)
    BY CleanFinal
<1>5. PICK ks, ls : ks = settled[4] /\ ls = settled[5] OBVIOUS
<1>6. /\ settled = <<priced, shops, catalog, ks, ls>>
      /\ ks \subseteq KindState /\ PairsOf(ks) = PairsOf(kinds)
      /\ \A k \in ks : FinalKind(k)
      /\ ls \subseteq ListedState /\ TriplesOf(ls) = TriplesOf(listings)
      /\ \A l \in ls : FinalPrice(l, priced) /\ FinalLegacy(l)
    BY <1>3, <1>5 DEF SettledFits
<1>7. kinds \subseteq KindState /\ listings \subseteq ListedState BY <1>1 DEF TablesTyped
<1>8. ks = kinds
    <2>1. ASSUME NEW a, NEW b, a \subseteq KindState, b \subseteq KindState, PairsOf(a) = PairsOf(b),
                 \A k \in a : FinalKind(k), \A k \in b : FinalKind(k), NEW k \in a
          PROVE k \in b
        <3>1. <<k.product, k.value>> \in PairsOf(b) BY <2>1 DEF PairsOf
        <3>2. PICK m \in b : <<m.product, m.value>> = <<k.product, k.value>>
            BY <3>1 DEF PairsOf
        <3>3. k = m BY <1>1, <2>1, <3>2, FinalKindOne
        <3> QED BY <3>2, <3>3
    <2> QED BY <1>4, <1>6, <1>7, <2>1
<1>9. ls = listings
    <2>1. ASSUME NEW a, NEW b, a \subseteq ListedState, b \subseteq ListedState,
                 TriplesOf(a) = TriplesOf(b), \A l \in a :
                     FinalPrice(l, priced) /\ FinalLegacy(l),
                 \A l \in b : FinalPrice(l, priced) /\ FinalLegacy(l), NEW l \in a
          PROVE l \in b
        <3>1. <<l.shop, l.product, l.kind>> \in TriplesOf(b) BY <2>1 DEF TriplesOf
        <3>2. PICK m \in b : <<m.shop, m.product, m.kind>> = <<l.shop, l.product, l.kind>>
            BY <3>1 DEF TriplesOf
        <3>3. PICK prices : prices = priced OBVIOUS
        <3>4. l = m BY <1>1, <2>1, <3>2, <3>3, FinalListingOne
        <3> QED BY <3>2, <3>4
    <2> QED BY <1>4, <1>6, <1>7, <2>1
<1> QED BY <1>2, <1>6, <1>8, <1>9 DEF Left

\* The backfill: whatever dies, overlaps or fails before it, a run that met no error and
\* nobody's writes leaves every row listed at its price, and while runs come one at a time
\* no name is doubled and a clean run after a clean run changes nothing.
THEOREM MigrationKept == MigrationSpec => MigrationSound
<1>1. MigrationSpec => []MigrationInv
    BY InitMigrationInv, StepMigrationInv, PTL DEF MigrationSpec
<1>2. MigrationInv => MigrationTypeOK /\ CleanRunLists /\ NoTwins /\ ListingsOfOneProduct
    BY MigrationTypes, MigrationLists DEF MigrationInv, SerialFit, NoTwins, ListingsOfOneProduct
<1>3. MigrationInv /\ [MigrationNext]_migrationVars => [RepeatsStep]_migrationVars
    BY MigrationRepeats
<1>4. MigrationSpec => [][RepeatsStep]_migrationVars BY <1>1, <1>3, PTL DEF MigrationSpec
<1>5. MigrationSpec => CleanRunRepeats BY <1>4 DEF CleanRunRepeats, RepeatsStep
<1> QED BY <1>1, <1>2, <1>5, PTL DEF MigrationSound
=============================================================================
