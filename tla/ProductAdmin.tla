----------------------------- MODULE ProductAdmin -----------------------------
(***************************************************************************)
(* Editing the catalogue: the products page and the top products panel     *)
(* build a request from what they show, and the server reads the product,  *)
(* and in a transaction writes its variants, looks how many products are   *)
(* on top, writes the product and logs the change of its stock.            *)
(* The order of the top products, badges, promotions and descriptions are  *)
(* left out; the images of a product are in ImageUpload.                   *)
(* Source: products.service.ts, admin/products/page.tsx,                   *)
(* product-inventory-utils.ts, admin-top-products-panel.tsx                *)
(***************************************************************************)
EXTENDS Integers, FiniteSetsExt

CONSTANTS Clerks,         \* numbers of the requests that may be in flight together
          Goods,          \* products
          Stocked,        \* those that are there at the start, each with one variant
          MaxVariants,    \* bound: variants ever made of a product; one may be there at the start
          Amounts,        \* the stocks an admin types
          TopMax,         \* TOP_PRODUCTS_MAX
          ClerkManners,   \* "serial": one request at a time; "any"
          MaxRequests     \* bound: requests, by manner

ASSUME ProductAssumption ==
    /\ IsFiniteSet(Clerks) /\ Clerks \subseteq Nat /\ IsFiniteSet(Goods)
    /\ Stocked \subseteq Goods
    /\ MaxVariants \in Nat \ {0} /\ Amounts \subseteq Nat /\ TopMax \in Nat \ {0}
    /\ ClerkManners \subseteq {"serial", "any"}
    /\ MaxRequests \in [ClerkManners -> 0 .. MaxVariants - 1]

Ids == 1 .. MaxVariants

VARIABLES
    clerkManner,  \* chosen at the start
    productRow,   \* the rows of Product
    variantRow,   \* the rows of ProductVariant of each product
    logged,       \* InventoryLog: the sum of INCOME and ADJUSTMENT of each product
    request,      \* what each request is doing
    requests      \* requests made so far

productVars == <<clerkManner, productRow, variantRow, logged, request, requests>>

NoProductRow == [state |-> "none", top |-> FALSE, total |-> 0, sale |-> FALSE]
NoVariant == [state |-> "none", stock |-> 0, sale |-> FALSE]
NoRequest == [step |-> "idle", of |-> {}]

ProductTypeOK ==
    /\ clerkManner \in ClerkManners
    /\ \A p \in Goods :
          /\ productRow[p].state \in {"none", "active", "removed"}
          /\ productRow[p].total \in Nat
          /\ {productRow[p].top, productRow[p].sale} \subseteq BOOLEAN
          /\ variantRow[p] \in [Ids -> [state : {"none", "active", "inactive"},
                                      stock : Nat, sale : BOOLEAN]]
    /\ logged \in [Goods -> Int]
    /\ \A c \in Clerks : request[c].step \in
          {"idle", "sent", "read", "written", "weighed", "bulk", "removing"}

ProductInit ==
    /\ clerkManner \in ClerkManners
    /\ productRow = [p \in Goods |-> IF p \in Stocked
                                     THEN [NoProductRow EXCEPT !.state = "active"]
                                     ELSE NoProductRow]
    /\ variantRow = [p \in Goods |-> [v \in Ids |->
                       IF p \in Stocked /\ v = 1
                       THEN [NoVariant EXCEPT !.state = "active"] ELSE NoVariant]]
    /\ logged = [p \in Goods |-> 0]
    /\ request = [c \in Clerks |-> NoRequest] /\ requests = 0

-----------------------------------------------------------------------------
(* What the pages send. *)

Made(p) == {v \in Ids : variantRow[p][v].state # "none"}
Offered(p) == {v \in Ids : variantRow[p][v].state = "active"}
Tops == {p \in Goods : productRow[p].top}

\* The lowest free number is given to the next request.
MaySend(c) ==
    /\ request[c] = NoRequest /\ \A d \in Clerks : d < c => request[d] # NoRequest
    /\ requests < MaxRequests[clerkManner]
    /\ clerkManner = "serial" => \A d \in Clerks : request[d] = NoRequest

Submits(c, r) ==
    /\ request' = [request EXCEPT ![c] = r]
    /\ requests' = requests + 1
    /\ UNCHANGED <<clerkManner, productRow, variantRow, logged>>

\* A row of a form: its stock, and whether the variant has a discount ("same": as before).
Row(stock, sale) == [stock |-> stock, sale |-> sale]
SumOf(rows) == MapThenSumSet(LAMBDA v : rows[v].stock, DOMAIN rows)

\* A patch of product p: rows of variants it has, at most one new row, what else is set.
Patch(kind, p, rows, new, total, top, sale) ==
    [step |-> "sent", kind |-> kind, of |-> {p}, rows |-> rows, new |-> new,
     total |-> total, top |-> top, sale |-> sale,
     seen |-> NoProductRow, wrote |-> variantRow[p]]

\* Mutant: the first row has the discount of the form, be it on or off.
FormRowAlways(stock, first, sale) == Row(stock, IF first THEN "yes" ELSE "same")

\* save. Only the first row takes the discount of the product; without one all lose it.
FormRow(stock, first, sale) ==
    Row(stock, IF sale = "no" THEN "no" ELSE IF first THEN "yes" ELSE "same")

SubmitNew(c, p) ==
    /\ MaySend(c) /\ productRow[p].state = "none"
    /\ \A d \in Clerks : p \notin request[d].of
    /\ \E n \in Amounts, top \in {"yes", "no"}, sale \in {"yes", "no"} :
          Submits(c, Patch("create", p, <<>>, {FormRow(n, TRUE, sale)}, n, top, sale))

\* Rows are taken out, one is put in or typed anew; one at least is sent.
SubmitForm(c, p) ==
    /\ MaySend(c) /\ productRow[p].state # "none"
    /\ \E kept \in SUBSET Offered(p), typed \in Offered(p) \cup {0}, n \in Amounts,
          top \in {"yes", "no"}, sale \in {"yes", "no"} :
          /\ typed \in kept \cup {0}
          /\ LET first(v) == \A w \in kept : v <= w
                 rows == [v \in kept |->
                    FormRow(IF v = typed THEN n ELSE variantRow[p][v].stock, first(v), sale)]
                 new == IF typed = 0 THEN {FormRow(n, kept = {}, sale)} ELSE {}
             IN Submits(c, Patch("edit", p, rows, new,
                               SumOf(rows) + (IF typed = 0 THEN n ELSE 0), top, sale))

\* Mutant: the new total is not kept at 0.
NewTotalBelow(p, delta) == productRow[p].total + delta
NewTotal(p, delta) ==
    IF productRow[p].total + delta < 0 THEN 0 ELSE productRow[p].total + delta

\* handleStockDelta: the first row takes what the others leave of the new total.
SubmitStock(c, p, delta) ==
    /\ MaySend(c) /\ productRow[p].state # "none"
    /\ NewTotal(p, delta) # productRow[p].total
    /\ LET first == CHOOSE v \in Offered(p) : \A w \in Offered(p) : v <= w
           rest == SumOf([v \in Offered(p) \ {first} |-> variantRow[p][v]])
           total == NewTotal(p, delta)
           stock(v) == IF v # first THEN variantRow[p][v].stock
                       ELSE IF total > rest THEN total - rest ELSE 0
           rows == [v \in Offered(p) |->
                      Row(stock(v), IF variantRow[p][v].sale THEN "yes" ELSE "same")]
       IN Submits(c, Patch("edit", p, rows, {}, total, "same", "same"))

\* The panel of top products: what is on top is ordered anew, one is taken off, its badge
\* is changed, or one is added; it adds none when it shows TopMax.
Bulk(left, top) ==
    [step |-> "bulk", kind |-> "bulk", of |-> left, left |-> left, top |-> top,
     seen |-> {}, wrote |-> {}]

SubmitTops(c) ==
    /\ MaySend(c)
    /\ \/ Tops # {} /\ Submits(c, Bulk(Tops, "yes"))
       \/ \E p \in Tops, top \in {"no", "same"} : Submits(c, Bulk({p}, top))
       \/ \E p \in Goods :
             /\ productRow[p].state # "none" /\ Cardinality(Tops) < TopMax
             /\ Submits(c, Bulk({p}, "yes"))

SubmitRemoval(c, p) ==
    /\ MaySend(c) /\ productRow[p].state # "none"
    /\ Submits(c, [step |-> "removing", of |-> {p}])

-----------------------------------------------------------------------------
(* The server. *)

Proceeds(c, r) ==
    /\ request' = [request EXCEPT ![c] = r]
    /\ UNCHANGED <<clerkManner, productRow, variantRow, logged, requests>>

\* A field that is not sent stays as it is.
Flag(sent, old) == IF sent = "same" THEN old ELSE sent = "yes"

Only(c) == CHOOSE p \in request[c].of : TRUE

\* Rows that an open transaction has written stay locked until it ends.
HoldsVariants(c, p) == request[c].step \in {"written", "weighed"} /\ p \in request[c].of
HoldsProduct(c, p) == request[c].step = "bulk" /\ p \in request[c].seen

\* updateByAdmin reads the product before its transaction.
ReadsProduct(c) ==
    /\ request[c].step = "sent"
    /\ Proceeds(c, [request[c] EXCEPT !.step = "read", !.seen = productRow[Only(c)]])

\* Mutant: a variant that was taken off meanwhile stays off, though it has a row.
WrittenAsItWas(r, p, v, w) ==
    [state |-> IF v \in DOMAIN r.rows THEN variantRow[p][v].state ELSE "active",
     stock |-> w.stock, sale |-> FALSE]
\* Variant v as row w writes it. A discount that is switched off is taken from every row.
Written(r, p, v, w) ==
    [state |-> "active", stock |-> w.stock,
     sale |-> ~(r.kind = "edit" /\ r.sale = "no") /\ Flag(w.sale, variantRow[p][v].sale)]

\* The variants as the transaction leaves them: those without a row are taken off, those
\* with a row are written, and a new row makes one.
VariantsWritten(r, p) ==
    LET fresh == {v \in Ids \ Made(p) : \A w \in Ids \ Made(p) : v <= w}
        row(v) == IF v \in DOMAIN r.rows THEN {r.rows[v]}
                  ELSE IF v \in fresh THEN r.new ELSE {}
        left(v) == [variantRow[p][v] EXCEPT !.state = IF @ = "active" THEN "inactive" ELSE @]
    IN [v \in Ids |-> IF row(v) = {} THEN left(v)
                     ELSE Written(r, p, v, CHOOSE w \in row(v) : TRUE)]

WritesVariants(c) ==
    /\ request[c].step = "read"
    /\ \A d \in Clerks : ~HoldsVariants(d, Only(c))
    /\ Proceeds(c, [request[c] EXCEPT !.step = "written",
                                  !.wrote = VariantsWritten(request[c], Only(c))])

\* Mutant: one more is let in.
IsFullAbove == Cardinality(Tops) > TopMax
IsFull == Cardinality(Tops) >= TopMax

\* buildTopProductPatch, for a product that was not on top when it was read.
Weighs(c) ==
    LET r == request[c] IN
    /\ r.step = "written"
    /\ IF r.top = "yes" /\ ~r.seen.top /\ IsFull
       THEN Proceeds(c, NoRequest)
       ELSE Proceeds(c, [r EXCEPT !.step = "weighed"])

\* Mutant: the whole stock is logged.
ChangeIsStock(r) == r.total
Change(r) == r.total - r.seen.total

Commits(c) ==
    LET r == request[c]  p == Only(c) IN
    /\ r.step = "weighed"
    /\ \A d \in Clerks : ~HoldsProduct(d, p)
    /\ productRow' = [productRow EXCEPT ![p] =
                    [state |-> IF r.kind = "create" THEN "active" ELSE @.state,
                     top |-> Flag(r.top, @.top), total |-> r.total,
                     sale |-> Flag(r.sale, @.sale)]]
    /\ variantRow' = [variantRow EXCEPT ![p] = r.wrote]
    /\ logged' = [logged EXCEPT ![p] = @ + Change(r)]
    /\ request' = [request EXCEPT ![c] = NoRequest]
    /\ UNCHANGED <<clerkManner, requests>>

\* updateTopProductsBulk, one product after the other. It counts nothing.
BulkWrites(c, p) ==
    LET r == request[c] IN
    /\ r.step = "bulk" /\ p \in r.left
    /\ \A d \in Clerks : ~HoldsProduct(d, p)
    /\ Proceeds(c, [r EXCEPT !.left = @ \ {p}, !.seen = @ \cup {p},
                         !.wrote = IF Flag(r.top, productRow[p].top) THEN @ \cup {p} ELSE @])

BulkCommits(c) ==
    LET r == request[c] IN
    /\ r.step = "bulk" /\ r.left = {}
    /\ productRow' = [p \in Goods |-> IF p \in r.seen
                                   THEN [productRow[p] EXCEPT !.top = p \in r.wrote]
                                   ELSE productRow[p]]
    /\ request' = [request EXCEPT ![c] = NoRequest]
    /\ UNCHANGED <<clerkManner, variantRow, logged, requests>>

\* Two of them that wait for each other: the database ends one.
BulkDeadlocks(c) ==
    /\ request[c].step = "bulk" /\ request[c].seen # {} /\ request[c].left # {}
    /\ \A p \in request[c].left : \E d \in Clerks : HoldsProduct(d, p)
    /\ Proceeds(c, NoRequest)

\* removeByAdmin. The product keeps its place on top.
Removes(c) ==
    LET p == Only(c) IN
    /\ request[c].step = "removing"
    /\ \A d \in Clerks : ~HoldsProduct(d, p)
    /\ productRow' = [productRow EXCEPT ![p].state = "removed"]
    /\ request' = [request EXCEPT ![c] = NoRequest]
    /\ UNCHANGED <<clerkManner, variantRow, logged, requests>>

ProductNext ==
    \E c \in Clerks :
        \/ \E p \in Goods : \/ SubmitNew(c, p) \/ SubmitForm(c, p) \/ SubmitRemoval(c, p)
                            \/ \E delta \in {-1, 1} : SubmitStock(c, p, delta)
                            \/ BulkWrites(c, p)
        \/ SubmitTops(c) \/ ReadsProduct(c) \/ WritesVariants(c) \/ Weighs(c) \/ Commits(c)
        \/ BulkCommits(c) \/ BulkDeadlocks(c) \/ Removes(c)

ProductSpec == ProductInit /\ [][ProductNext]_productVars

-----------------------------------------------------------------------------
(* Properties. *)

\* Requests that do not overlap keep the number of top products within its limit, whether
\* the form counts them or the panel.
TopWithinLimit == clerkManner = "serial" => Cardinality(Tops) <= TopMax

\* ... and leave in the log what the product's stock is, sales apart.
LogIsTotal == clerkManner = "serial" => \A p \in Goods : logged[p] = productRow[p].total

\* ... and leave no discount on a variant whose product has none.
SaleReachesVariants ==
    clerkManner = "serial" =>
        \A p \in Goods : ~productRow[p].sale => \A v \in Offered(p) : ~variantRow[p][v].sale

\* A product can always be bought in some variant: requests that overlap do not take off
\* each other's last one.
SomeVariantOffered == \A p \in Goods : productRow[p].state # "none" => Offered(p) # {}

\* The rows that an edit writes one after the other fit together when it is over.
ProductsSound ==
    /\ ProductTypeOK /\ TopWithinLimit /\ LogIsTotal /\ SaleReachesVariants
    /\ SomeVariantOffered
=============================================================================
