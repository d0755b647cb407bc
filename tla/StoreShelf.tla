------------------------------ MODULE StoreShelf ------------------------------
(***************************************************************************)
(* The listings of one store: the goods of the platform's catalogue that   *)
(* the store has put on its shelf, their stock, and which of them are on   *)
(* top. The operators' pages import goods in bulk, change a stock by one   *)
(* and choose the top ones; a listing can also be made by a request of its *)
(* own. The administrator meanwhile adds variants to goods and switches    *)
(* goods off. Prices, names, visibility, search and the pages of the       *)
(* import list are left out, as is the store itself.                       *)
(* Source: store-catalog.service.ts, store-panel.service.ts,               *)
(* global-catalog-admin.service.ts, components/business/*.tsx              *)
(***************************************************************************)
EXTENDS Naturals, FiniteSetsExt, SequencesExt

CONSTANTS Goods, Sorts,  \* products of the global catalogue, and variants of a product
          Opened,        \* pages that operators of the store have open
          ShelfManners,  \* "calm": one page, and nothing is done before the last was answered;
                         \* "hasty"
          DefaultStock, Low,  \* GlobalProduct.defaultStock, LOW_STOCK_THRESHOLD
          MaxTop,        \* MAX_TOP_LISTINGS
          MaxShelfActs,  \* bound: what is done on the pages, in each manner
          MaxReforms     \* bound: changes of the catalogue

ASSUME ShelfAssumption ==
    /\ Goods # {} /\ IsFiniteSet(Goods) /\ IsFiniteSet(Sorts) /\ 0 \notin Sorts \cup Opened
    /\ IsFiniteSet(Opened) /\ Opened # {}
    /\ ShelfManners \subseteq {"calm", "hasty"}
    /\ {DefaultStock, Low, MaxTop, MaxReforms} \subseteq Nat
    /\ MaxShelfActs \in [ShelfManners -> Nat]

VARIABLES
    shelfManner,  \* chosen at the start
    catalog,      \* GlobalProduct: which goods are active, which have an active variant
    shelf,        \* the rows of StoreProduct, in the order they were made
    desks,        \* what each page shows
    sheets,       \* requests on their way, with what they carry or have read
    tally,        \* history: for each row of shelf, its stock had every tap counted
    shelfActs
shelfVars == <<shelfManner, catalog, shelf, desks, sheets, tally, shelfActs>>

Base == 0  \* globalVariantId is null
Gone == 0  \* the page, or the panel of it, that asked is no longer there
Catalogue == {"import", "mine"}  \* two modes of one panel, which stays mounted

Panels == {"import", "mine", "stock", "top"}
Panel(q) == [panel |-> q, rows |-> <<>>, items |-> {}, busy |-> 0,
             loading |-> FALSE, saving |-> FALSE]
NewRow(g, v, s, early) == [good |-> g, variant |-> v, stock |-> s, isTop |-> FALSE,
                           topOrder |-> 0, early |-> early]
Sheet(p, kind) == [id |-> shelfActs, page |-> p, kind |-> kind, at |-> "sent", row |-> 0,
                   stock |-> 0, rows |-> <<>>, goods |-> {}, variant |-> Base, plain |-> {}]

ShelfTypeOK ==
    /\ shelfManner \in ShelfManners
    /\ catalog.active \subseteq Goods /\ catalog.varied \subseteq Goods
    /\ \A i \in DOMAIN shelf : shelf[i].good \in Goods /\ shelf[i].variant \in Sorts \cup {Base}
                               /\ shelf[i].stock \in Nat
    /\ DOMAIN tally = DOMAIN shelf
    /\ \A p \in Opened : /\ desks[p].panel \in Panels
                        /\ Len(desks[p].rows) <= Len(shelf)
                        /\ desks[p].busy \in 0 .. Len(shelf)
    /\ \A c \in sheets : c.page \in Opened \cup {Gone} /\ c.row \in 0 .. Len(shelf)
    /\ shelfActs \in 0 .. MaxShelfActs[shelfManner]

(* The goods a page of the import panel offers: active, without variants, not yet listed. *)
Unlisted(goods, v) ==
    {g \in goods : \A i \in DOMAIN shelf : <<shelf[i].good, shelf[i].variant>> # <<g, v>>}

\* mutant: goods with variants are imported as they are
WholePlain(goods) == goods \cap catalog.active

Plain(goods) == goods \cap (catalog.active \ catalog.varied)
Importable == Unlisted(Plain(Goods), Base)

\* The store has listed none of the goods, which have no variants; or all of them, one good
\* by its variants. Each page has loaded one panel.
Sorted == CHOOSE g \in Goods : TRUE
Assortment == SetToSeq(((Goods \ {Sorted}) \X {Base}) \cup ({Sorted} \X Sorts))
FullShelf == [i \in DOMAIN Assortment |->
               NewRow(Assortment[i][1], Assortment[i][2], DefaultStock, TRUE)]

ShelfInit ==
    /\ shelfManner \in ShelfManners
    /\ \/ shelf = <<>> /\ catalog = [active |-> Goods, varied |-> {}]
       \/ shelf = FullShelf /\ catalog = [active |-> Goods, varied |-> {Sorted}]
    /\ \E q \in Panels :
          desks = [p \in Opened |-> [Panel(q) EXCEPT !.rows = shelf, !.items = Importable]]
    /\ sheets = {}
    /\ tally = [i \in DOMAIN shelf |-> DefaultStock]
    /\ shelfActs = 0

(* The page of p may be used: when calm, only one page is, and it waits. *)
TheOne == CHOOSE p \in Opened : TRUE
Usable(p) ==
    /\ shelfActs < MaxShelfActs[shelfManner]
    /\ shelfManner = "calm" => sheets = {} /\ p = TheOne

Ready(p) == ~desks[p].loading /\ Usable(p)

Desk(p, d) == desks' = [desks EXCEPT ![p] = d]
Send(c) == sheets' = sheets \cup {c} /\ shelfActs' = shelfActs + 1
Becomes(c, d) == sheets' = (sheets \ {c}) \cup {d}
Ends(c) == sheets' = sheets \ {c}
-----------------------------------------------------------------------------
(* Another panel is opened and loads its rows. Answers to the panel that was left change  *)
(* nothing any more; only an import is still heard by the panel it was made on.           *)
OpenPanel(p, q) ==
    /\ Usable(p) /\ q \in Panels \ {desks[p].panel}
    /\ Desk(p, [Panel(q) EXCEPT !.loading = TRUE])
    /\ sheets' = {IF c.page = p /\ ~(c.kind = "import" /\ {desks[p].panel, q} = Catalogue)
                  THEN [c EXCEPT !.page = Gone] ELSE c : c \in sheets}
                 \cup {Sheet(p, "load")}
    /\ shelfActs' = shelfActs + 1
    /\ UNCHANGED <<shelfManner, catalog, shelf, tally>>

LoadReads(c) ==
    /\ c.kind = "load" /\ c.at = "sent"
    /\ Becomes(c, [c EXCEPT !.at = "read", !.rows = shelf, !.goods = Importable])
    /\ UNCHANGED <<shelfManner, catalog, shelf, desks, tally, shelfActs>>

(* load(): the answer replaces the rows, and a load after a patch frees every button. *)
LoadShown(desk, c) ==
    [desk EXCEPT !.rows = c.rows, !.items = c.goods, !.loading = FALSE,
                 !.busy = IF c.row # 0 THEN 0 ELSE @]

LoadAnswered(c) ==
    /\ c.kind = "load" /\ c.at = "read"
    /\ Ends(c)
    /\ desks' = IF c.page = Gone THEN desks ELSE [desks EXCEPT ![c.page] = LoadShown(@, c)]
    /\ UNCHANGED <<shelfManner, catalog, shelf, tally, shelfActs>>
-----------------------------------------------------------------------------
(* adjustStock, and the buttons of the list: the new stock is worked out from the row that  *)
(* is shown; only the button of the row that was tapped last is disabled.                  *)
Stepped(stock, d) == IF d = "more" THEN stock + 1 ELSE Max({1, stock}) - 1

TapStock(p, i, d) ==
    /\ Ready(p) /\ desks[p].panel \in {"mine", "stock"}
    /\ i \in DOMAIN desks[p].rows /\ desks[p].busy # i
    /\ desks[p].panel = "stock" => desks[p].rows[i].stock <= Low
    /\ Desk(p, [desks[p] EXCEPT !.busy = i])
    /\ Send([Sheet(p, "patch") EXCEPT !.row = i,
                                      !.stock = Stepped(desks[p].rows[i].stock, d)])
    /\ tally' = [tally EXCEPT ![i] = Stepped(@, d)]
    /\ UNCHANGED <<shelfManner, catalog, shelf>>

(* updateListing: the row gets the stock that was sent. *)
PatchLands(c) ==
    /\ c.kind = "patch" /\ c.at = "sent"
    /\ shelf' = [shelf EXCEPT ![c.row].stock = c.stock]
    /\ Becomes(c, [c EXCEPT !.at = "landed"])
    /\ UNCHANGED <<shelfManner, catalog, desks, tally, shelfActs>>

\* mutant: the rows are not loaded again after a tap
StalePatchAnswered(c) ==
    /\ c.kind = "patch" /\ c.at = "landed"
    /\ Ends(c)
    /\ desks' = IF c.page = Gone THEN desks ELSE [desks EXCEPT ![c.page].busy = 0]
    /\ UNCHANGED <<shelfManner, catalog, shelf, tally, shelfActs>>

(* After the answer the panel, if it is still there, loads its rows again. *)
PatchAnswered(c) ==
    /\ c.kind = "patch" /\ c.at = "landed"
    /\ IF c.page = Gone THEN Ends(c) /\ UNCHANGED desks
       ELSE /\ Becomes(c, [c EXCEPT !.kind = "load", !.at = "sent"])
            /\ Desk(c.page, [desks[c.page] EXCEPT !.loading = TRUE])
    /\ UNCHANGED <<shelfManner, catalog, shelf, tally, shelfActs>>

(* A patch, or its answer, is lost: nothing is said, and the buttons are free again. *)
PatchLost(c) ==
    /\ shelfManner = "hasty" /\ c.kind = "patch"
    /\ Ends(c)
    /\ desks' = IF c.page = Gone THEN desks ELSE [desks EXCEPT ![c.page].busy = 0]
    /\ UNCHANGED <<shelfManner, catalog, shelf, tally, shelfActs>>
-----------------------------------------------------------------------------
TopOrders(rows) == {rows[i].topOrder : i \in {j \in DOMAIN rows : rows[j].isTop}}

\* mutant: the place of the last top row is given again
SharedTop(rows) == Max({1} \cup TopOrders(rows))

(* toggleTop: a row that becomes top goes after the last one that is. *)
NextTop(rows) == Max({0} \cup TopOrders(rows)) + 1

ToggleTop(p, i) ==
    /\ Ready(p) /\ desks[p].panel = "top" /\ i \in DOMAIN desks[p].rows
    /\ LET rows == desks[p].rows
           top == ~rows[i].isTop
       IN Desk(p, [desks[p] EXCEPT
              !.rows[i].isTop = top, !.rows[i].topOrder = IF top THEN NextTop(rows) ELSE 0])
    /\ shelfActs' = shelfActs + 1
    /\ UNCHANGED <<shelfManner, catalog, shelf, sheets, tally>>

SaveTop(p) ==
    /\ Ready(p) /\ desks[p].panel = "top" /\ ~desks[p].saving
    /\ Desk(p, [desks[p] EXCEPT !.saving = TRUE])
    /\ Send([Sheet(p, "save") EXCEPT !.rows = desks[p].rows])
    /\ UNCHANGED <<shelfManner, catalog, shelf, tally>>

TopCount(rows) == Cardinality({i \in DOMAIN rows : rows[i].isTop})

(* updateTopListings: too many are refused, else the rows that were sent are written. *)
SaveLands(c) ==
    /\ c.kind = "save" /\ c.at = "sent"
    /\ IF TopCount(c.rows) > MaxTop
       THEN /\ Becomes(c, [c EXCEPT !.at = "refused"])
            /\ UNCHANGED shelf
       ELSE /\ shelf' = [i \in DOMAIN shelf |->
                IF i \notin DOMAIN c.rows THEN shelf[i]
                ELSE [shelf[i] EXCEPT !.isTop = c.rows[i].isTop,
                          !.topOrder = IF c.rows[i].isTop THEN c.rows[i].topOrder ELSE 0]]
            /\ Becomes(c, [c EXCEPT !.at = "written"])
    /\ UNCHANGED <<shelfManner, catalog, desks, tally, shelfActs>>

(* It answers with the rows as they are then. *)
SaveReads(c) ==
    /\ c.kind = "save" /\ c.at = "written"
    /\ Becomes(c, [c EXCEPT !.at = "read", !.rows = shelf])
    /\ UNCHANGED <<shelfManner, catalog, shelf, desks, tally, shelfActs>>

SaveAnswered(c) ==
    /\ c.kind = "save" /\ c.at \in {"refused", "read"}
    /\ Ends(c)
    /\ desks' = IF c.page = Gone THEN desks
                ELSE [desks EXCEPT ![c.page].saving = FALSE,
                                   ![c.page].rows = IF c.at = "read" THEN c.rows ELSE @]
    /\ UNCHANGED <<shelfManner, catalog, shelf, tally, shelfActs>>
-----------------------------------------------------------------------------
(* done(): the goods that were chosen are sent. *)
Import(p, chosen) ==
    /\ Ready(p) /\ desks[p].panel = "import" /\ ~desks[p].saving
    /\ chosen # {} /\ chosen \subseteq desks[p].items
    /\ Desk(p, [desks[p] EXCEPT !.saving = TRUE])
    /\ Send([Sheet(p, "import") EXCEPT !.goods = chosen, !.plain = Goods \ catalog.varied])
    /\ UNCHANGED <<shelfManner, catalog, shelf, tally>>

(* bulkImportListings reads the goods: those that are switched off are not found, those      *)
(* with a variant are skipped.                                                             *)
ImportReadsGoods(c) ==
    /\ c.kind = "import" /\ c.at = "sent"
    /\ Becomes(c, [c EXCEPT !.at = "goods", !.goods = Plain(@)])
    /\ UNCHANGED <<shelfManner, catalog, shelf, desks, tally, shelfActs>>

(* Then which of them are listed. *)
ImportReadsListed(c) ==
    /\ c.kind = "import" /\ c.at = "goods"
    /\ Becomes(c, [c EXCEPT !.at = "listed", !.goods = Unlisted(@, Base)])
    /\ UNCHANGED <<shelfManner, catalog, shelf, desks, tally, shelfActs>>

\* mutant: one index over the three columns, which holds two nulls for different
NullsFit(rows, g, v) ==
    \A i \in DOMAIN rows : v # Base => <<rows[i].good, rows[i].variant>> # <<g, v>>

(* Two partial unique indexes keep a good, or a variant of it, from being listed twice. *)
Fits(rows, g, v) == \A i \in DOMAIN rows : <<rows[i].good, rows[i].variant>> # <<g, v>>

Listed(g, v, stock, early) ==
    IF Fits(shelf, g, v)
    THEN /\ shelf' = Append(shelf, NewRow(g, v, stock, early))
         /\ tally' = Append(tally, stock)
    ELSE UNCHANGED <<shelf, tally>>

(* One statement for each good; one that the index refuses counts as skipped. *)
ImportCreates(c, g) ==
    /\ c.kind = "import" /\ c.at = "listed" /\ g \in c.goods
    /\ Listed(g, Base, DefaultStock, g \in c.plain)
    /\ Becomes(c, [c EXCEPT !.goods = @ \ {g}])
    /\ UNCHANGED <<shelfManner, catalog, desks, shelfActs>>

(* The answer turns the panel to the store's own listings. *)
ImportAnswered(c) ==
    /\ c.kind = "import" /\ c.at = "listed" /\ c.goods = {}
    /\ IF c.page # Gone /\ desks[c.page].panel = "import"
       THEN /\ Becomes(c, [c EXCEPT !.kind = "load", !.at = "sent"])
            /\ Desk(c.page, [Panel("mine") EXCEPT !.loading = TRUE])
       ELSE Ends(c) /\ UNCHANGED desks
    /\ UNCHANGED <<shelfManner, catalog, shelf, tally, shelfActs>>
-----------------------------------------------------------------------------
(* createListing: the target is checked, then that it is not listed, then it is listed. *)
Offer(g, v) ==
    /\ shelfManner = "hasty" /\ shelfActs < MaxShelfActs[shelfManner]
    /\ Send([Sheet(Gone, "offer") EXCEPT !.goods = {g}, !.variant = v,
                                         !.plain = Goods \ catalog.varied])
    /\ UNCHANGED <<shelfManner, catalog, shelf, desks, tally>>

(* assertListingTarget: a good with variants is listed by variant, any other as it is. *)
RightTarget(c, g) == g \in catalog.active /\ (g \in catalog.varied <=> c.variant # Base)

OfferChecksTarget(c) ==
    /\ c.kind = "offer" /\ c.at = "sent"
    /\ IF \A g \in c.goods : RightTarget(c, g) THEN Becomes(c, [c EXCEPT !.at = "goods"])
       ELSE Ends(c)
    /\ UNCHANGED <<shelfManner, catalog, shelf, desks, tally, shelfActs>>

OfferChecksListed(c) ==
    /\ c.kind = "offer" /\ c.at = "goods"
    /\ IF Unlisted(c.goods, c.variant) = c.goods THEN Becomes(c, [c EXCEPT !.at = "listed"])
       ELSE Ends(c)
    /\ UNCHANGED <<shelfManner, catalog, shelf, desks, tally, shelfActs>>

OfferCreates(c, g) ==
    /\ c.kind = "offer" /\ c.at = "listed" /\ g \in c.goods
    /\ Listed(g, c.variant, 0, g \in c.plain)
    /\ Ends(c)
    /\ UNCHANGED <<shelfManner, catalog, desks, shelfActs>>
-----------------------------------------------------------------------------
(* addVariant, and the switch of the global catalogue's page. *)
MayReform == Cardinality(catalog.varied) + Cardinality(Goods \ catalog.active) < MaxReforms

AddVariant(g) ==
    /\ MayReform /\ g \notin catalog.varied
    /\ catalog' = [catalog EXCEPT !.varied = @ \cup {g}]
    /\ UNCHANGED <<shelfManner, shelf, desks, sheets, tally, shelfActs>>

SwitchGood(g) ==
    /\ MayReform \/ g \notin catalog.active
    /\ catalog' = [catalog EXCEPT !.active = IF g \in @ THEN @ \ {g} ELSE @ \cup {g}]
    /\ UNCHANGED <<shelfManner, shelf, desks, sheets, tally, shelfActs>>

ShelfNext ==
    \/ \E p \in Opened :
          \/ \E q \in Panels : OpenPanel(p, q)
          \/ \E i \in DOMAIN desks[p].rows : ToggleTop(p, i)
          \/ \E i \in DOMAIN desks[p].rows, d \in {"more", "less"} : TapStock(p, i, d)
          \/ SaveTop(p)
          \/ \E chosen \in SUBSET desks[p].items : Import(p, chosen)
    \/ \E c \in sheets :
          \/ LoadReads(c) \/ LoadAnswered(c)
          \/ PatchLands(c) \/ PatchAnswered(c) \/ PatchLost(c)
          \/ SaveLands(c) \/ SaveReads(c) \/ SaveAnswered(c)
          \/ ImportReadsGoods(c) \/ ImportReadsListed(c) \/ ImportAnswered(c)
          \/ \E g \in c.goods : ImportCreates(c, g)
          \/ OfferChecksTarget(c) \/ OfferChecksListed(c)
          \/ \E g \in c.goods : OfferCreates(c, g)
    \/ \E g \in Goods : AddVariant(g) \/ SwitchGood(g) \/ \E v \in Sorts \cup {Base} : Offer(g, v)

ShelfSpec == ShelfInit /\ [][ShelfNext]_shelfVars
-----------------------------------------------------------------------------
(* No good and no variant is listed twice, however imports and requests overlap. *)
ListedOnce ==
    \A i, j \in DOMAIN shelf :
        i # j => <<shelf[i].good, shelf[i].variant>> # <<shelf[j].good, shelf[j].variant>>

(* A good that is listed without a variant had none when the request came: one that has  *)
(* variants by then is never listed as a whole.                                            *)
WholeWasPlain ==
    \A i \in DOMAIN shelf : shelf[i].variant = Base => shelf[i].early

(* On a page that is used calmly no tap is lost, a row that waits for no answer has the   *)
(* stock its taps add up to, and what is shown is what is stored.                           *)
CalmTapsCount ==
    shelfManner = "calm" =>
        /\ \A i \in DOMAIN shelf : shelf[i].stock = tally[i]
               \/ \E c \in sheets : c.kind = "patch" /\ c.at = "sent" /\ c.row = i
        /\ sheets = {} /\ desks[TheOne].panel \in {"mine", "stock"} =>
               desks[TheOne].rows = shelf

(* Likewise no more are on top than may be, and no two have one place among them. *)
CalmTopFits ==
    shelfManner = "calm" =>
        /\ TopCount(shelf) <= MaxTop
        /\ \A i, j \in DOMAIN shelf : i # j /\ shelf[i].isTop /\ shelf[j].isTop =>
               shelf[i].topOrder # shelf[j].topOrder

(* What is promised of a store's shelf. *)
ShelfSound == ShelfTypeOK /\ ListedOnce /\ WholeWasPlain /\ CalmTapsCount /\ CalmTopFits
=============================================================================
