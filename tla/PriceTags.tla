------------------------------ MODULE PriceTags ------------------------------
(***************************************************************************)
(* What a product costs is computed in five places: on its card, on the    *)
(* sheet that opens over the card, on its own page, in the list of         *)
(* promotions, and by the server that charges it. A product has a price    *)
(* and a discounted price, and so has each of its variants; the form of    *)
(* the products page writes the discount of the product to the first row   *)
(* it shows. Here is one product, the forms and quick patches that change  *)
(* it, and a visitor who looks at it and adds it to the cart. Stock,       *)
(* cashback and amounts are left out, as are the listings of the           *)
(* marketplace, whose cards send no variant of a product.                  *)
(* Source: admin/products/page.tsx, products.service.ts, product-card.tsx, *)
(* product-sheet-content.tsx, product-detail-client.tsx,                   *)
(* promotion-product.util.ts, cart.service.ts, orders.service.ts           *)
(***************************************************************************)
EXTENDS Naturals, FiniteSetsExt, SequencesExt, Sublists

CONSTANTS Kinds,        \* variants that may ever be made
          Prices,       \* a finite set of prices
          TagAdmins,
          TagManners,   \* "serial": a save is made from what the product is; "any"
          MaxTagSaves   \* bound: saves, in each manner

ASSUME TagAssumption ==
    /\ IsFiniteSet(Kinds) /\ Kinds # {} /\ Prices \subseteq Nat \ {0}
    /\ TagManners \subseteq {"serial", "any"}
    /\ MaxTagSaves \in [TagManners -> Nat]

VARIABLES
    tagManner,   \* chosen at the start
    good,        \* the row of Product, and the ids of its active variants in their order
    tags,        \* the rows of ProductVariant
    copies,      \* what each admin's page shows of the product
    look,       \* where the visitor looks at it: the variants that are there, the one that
                 \* is shown, and whether the product is still as it was fetched
    basket,      \* history: the line of the cart and what was shown for it; a change of the
                 \* product forgets it
    tagSaves
tagVars == <<tagManner, good, tags, copies, look, basket, tagSaves>>

None == 0  \* null: no discounted price
NoTag == [price |-> 0, cut |-> None]
NoCopy == [good |-> <<>>, tags |-> <<>>]
Nowhere == [view |-> "nowhere", index |-> 1, rows |-> <<>>, fresh |-> FALSE]
EmptyBasket == [id |-> {}, shown |-> 0, from |-> Nowhere]

TagTypeOK ==
    /\ tagManner \in TagManners
    /\ good.price \in Prices /\ good.cut \in Prices \cup {None}
    /\ good.window \in {"none", "running", "over"}
    /\ good.rows \in Seq(Kinds) /\ good.rows # <<>> /\ IsInjective(good.rows)
    /\ \A v \in Kinds : tags[v] # NoTag => tags[v].price \in Prices
                                           /\ tags[v].cut \in Prices \cup {None}
    /\ basket.id \subseteq Kinds /\ Cardinality(basket.id) <= 1
    /\ tagSaves \in 0 .. MaxTagSaves[tagManner]

\* A product without discount, with one variant.
TagInit ==
    /\ tagManner \in TagManners
    /\ \E v \in Kinds, p \in Prices :
          /\ good = [price |-> p, cut |-> None, window |-> "none", rows |-> <<v>>]
          /\ tags = [k \in Kinds |-> IF k = v THEN [price |-> p, cut |-> None] ELSE NoTag]
    /\ copies = [a \in TagAdmins |-> NoCopy]
    /\ look = Nowhere /\ basket = EmptyBasket /\ tagSaves = 0

-----------------------------------------------------------------------------
(* The products page. *)

Now == [good |-> good, tags |-> tags]

\* loadProducts.
LoadProducts(a) ==
    /\ copies[a] # Now
    /\ copies' = [copies EXCEPT ![a] = Now]
    /\ UNCHANGED <<tagManner, good, tags, look, basket, tagSaves>>

\* The rows of a form: some of those it shows, in their order, and perhaps a new one.
FormRows(c) ==
    LET kept == {Sifted(c.good.rows, s) : s \in SUBSET ToSet(c.good.rows)}
        fresh == {v \in Kinds : tags[v] = NoTag}
    IN (kept \cup {Append(k, v) : k \in kept, v \in fresh}) \ {<<>>}

\* Mutant: a form without discount does not clear those of the variants.
FormCutKept(rank, cut, old) == IF cut # None /\ rank = 1 THEN cut ELSE old
\* save: the first row takes the discount of the product, the others keep theirs; a form
\* without discount clears all.
FormCut(rank, cut, old) == IF cut = None THEN None ELSE IF rank = 1 THEN cut ELSE old

\* The rows are written with prices and discounts; those that are not sent are taken off.
Write(rows, price, cuts, product) ==
    /\ tags' = [v \in Kinds |->
                  IF v \in ToSet(rows)
                  THEN [price |-> price[v], cut |-> cuts[v]] ELSE tags[v]]
    /\ good' = product
    /\ tagSaves' = tagSaves + 1
    /\ look' = [look EXCEPT !.fresh = FALSE] /\ basket' = EmptyBasket
    /\ UNCHANGED <<tagManner, copies>>

MayWrite(a) ==
    /\ copies[a] # NoCopy /\ tagSaves < MaxTagSaves[tagManner]
    /\ tagManner = "serial" => copies[a] = Now

\* save and updateByAdmin. A discount must be below the price of the product.
SaveForm(a) ==
    /\ MayWrite(a)
    /\ \E rows \in FormRows(copies[a]), p \in Prices, q \in Prices, cut \in Prices \cup {None},
          window \in {"none", "running", copies[a].good.window} :
          /\ cut < p
          \* one row at most is typed anew, at price q
          /\ \E typed \in ToSet(rows) :
                LET price == [v \in Kinds |-> IF v = typed THEN q
                                              ELSE copies[a].tags[v].price]
                IN /\ \A v \in ToSet(rows) : price[v] # 0
                   /\ Write(rows, price,
                            [v \in Kinds |->
                                FormCut(IF v = rows[1] THEN 1 ELSE 2, cut, tags[v].cut)],
                            [price |-> p, cut |-> cut, window |-> window, rows |-> rows])

\* handleStockDelta: the patch repeats the prices it knows, and every discount there was.
PatchStock(a) ==
    /\ MayWrite(a)
    /\ LET c == copies[a] IN
       Write(c.good.rows, [v \in Kinds |-> c.tags[v].price],
             [v \in Kinds |-> IF c.tags[v].cut # None THEN c.tags[v].cut ELSE tags[v].cut],
             [good EXCEPT !.price = c.good.price, !.rows = c.good.rows])

\* The promotion ends.
WindowCloses ==
    /\ good.window = "running"
    /\ good' = [good EXCEPT !.window = "over"]
    /\ UNCHANGED <<tagManner, tags, copies, look, basket, tagSaves>>

-----------------------------------------------------------------------------
(* What is shown, and what is charged. *)

\* A discount counts when it is below the price it is taken from.
Cheaper(cut, price) == cut # None /\ cut < price

\* unitPrice of a product's own page.
PagePrice(v) == IF Cheaper(tags[v].cut, tags[v].price) THEN tags[v].cut ELSE tags[v].price

\* inPromoWindow, and productDiscountPrice: a card lends the product's discount to a variant
\* that has none of its own.
InPromoWindow == good.window # "over"
CardPrice(v) ==
    IF PagePrice(v) = tags[v].price /\ InPromoWindow /\ Cheaper(good.cut, tags[v].price)
    THEN good.cut ELSE PagePrice(v)

\* The sheet computes its effectiveSalePrice in the same way again.
SheetPrice(v) == CardPrice(v)

Shown(view, v) == CASE view = "page" -> PagePrice(v)
                    [] view = "card" -> CardPrice(v)
                    [] view = "sheet" -> SheetPrice(v)

\* Mutant: a promotion that is over has no discount.
ChargedInWindow(v) ==
    IF tags[v].cut = None \/ good.window = "over" THEN tags[v].price ELSE tags[v].cut
\* createFromCart: discountPrice ?? price of the variant.
Charged(v) == IF tags[v].cut = None THEN tags[v].price ELSE tags[v].cut

\* resolvePromotionPricing: the lowest of the discounts, each below its own price.
Sales ==
    {c \in {good.cut} : Cheaper(c, good.price)}
        \cup {tags[v].cut : v \in {w \in ToSet(good.rows) : Cheaper(tags[w].cut, tags[w].price)}}
Effective == Min(Sales)

-----------------------------------------------------------------------------
(* The visitor. What an old page shows is left out: it is not what the product costs now.  *)

\* A fetch. A card stays at its variant as long as the variants are the same.
Fetch(view) ==
    /\ look' = [view |-> view, rows |-> good.rows, fresh |-> TRUE,
                 index |-> IF {view, look.view} = {"card"} /\ look.rows = good.rows
                           THEN look.index ELSE 1]
    /\ UNCHANGED <<tagManner, good, tags, copies, basket, tagSaves>>

TurnTo(i) ==
    /\ look.fresh /\ i \in DOMAIN look.rows
    /\ look' = [look EXCEPT !.index = i]
    /\ UNCHANGED <<tagManner, good, tags, copies, basket, tagSaves>>

\* The sheet opens over the card, at the first variant.
OpenSheet ==
    /\ look.fresh /\ look.view = "card"
    /\ look' = [look EXCEPT !.view = "sheet", !.index = 1]
    /\ UNCHANGED <<tagManner, good, tags, copies, basket, tagSaves>>

\* The sheet's button knows the first variant only.
SheetAdds == look.rows[1]
\* Mutant: every button does.
AddsFirst == SheetAdds
Adds == IF look.view = "sheet" THEN SheetAdds ELSE look.rows[look.index]

\* addItem refuses a variant that is not active.
Tap ==
    /\ look.fresh /\ Adds \in ToSet(good.rows)
    /\ basket' = [id |-> {Adds}, from |-> look,
                  shown |-> Shown(look.view, look.rows[look.index])]
    /\ UNCHANGED <<tagManner, good, tags, copies, look, tagSaves>>

TagNext ==
    \/ \E a \in TagAdmins : LoadProducts(a) \/ SaveForm(a) \/ PatchStock(a)
    \/ WindowCloses
    \/ \E view \in {"card", "page"} : Fetch(view)
    \/ \E i \in 1 .. Cardinality(Kinds) : TurnTo(i)
    \/ OpenSheet \/ Tap

TagSpec == TagInit /\ [][TagNext]_tagVars

-----------------------------------------------------------------------------
(* Properties. *)

\* The first variant a product shows carries its discount, and without one no variant that
\* is shown has any: however often rows are taken off, put back and patched, as long as
\* every save is made from what the product is.
FirstCarriesDiscount ==
    tagManner = "serial" =>
        /\ good.cut # None => tags[good.rows[1]].cut = good.cut
        /\ good.cut = None => \A v \in ToSet(good.rows) : tags[v].cut = None

\* No variant is cheaper than its own discount; the form compares the discount with the
\* price of the product only.
Sensible == \A v \in ToSet(good.rows) : tags[v].cut # None => tags[v].cut < tags[v].price

\* A line is charged what was shown where it was put into the cart, unless the product was
\* changed since: on its own page always, on card and sheet for the first variant, whether
\* the promotion is over or not. (Others show there the discount of the product.)
TagIsCharge ==
    \A v \in basket.id :
        /\ Sensible
        /\ \/ basket.from.view = "page"
           \/ tagManner = "serial" /\ basket.from.index = 1
        => Charged(v) = basket.shown

\* What the promotions advertise is charged for one of the product's variants.
AdvertisedIsCharged ==
    tagManner = "serial" /\ Sales # {} => \E v \in ToSet(good.rows) : Charged(v) = Effective

\* The prices that are shown, advertised and charged agree where they should.
TagsSound == TagTypeOK /\ FirstCarriesDiscount /\ TagIsCharge /\ AdvertisedIsCharged
=============================================================================
