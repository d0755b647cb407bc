--------------------------- MODULE MarketMigration ---------------------------
(***************************************************************************)
(* The backfill of the marketplace from the tables of the single shop:     *)
(* stores for businesses, global products and variants for names and       *)
(* values, and a listing for each row. It runs from the command line or    *)
(* from an admin's request, may die at any point and be run again, and     *)
(* nothing keeps two runs apart but the unique indexes of the tables.      *)
(* Source: marketplace-migration.service.ts                                *)
(***************************************************************************)
EXTENDS Naturals, FiniteSets, Sequences

CONSTANTS Runs,             \* numbers of the runs that may go on at the same time
          OldTables,        \* the products of the old table, oldest first, by manner
          Sellers,          \* businesses
          Names,            \* catalogDedupeKey: name and category
          SellerOf, NameOf, \* by product
          VariantsOf,       \* by product: its active variants in their order
          ValueOf,          \* by variant: variantTypeValue
          NothingThere,     \* a missing row or id
          MigrationManners, \* "serial": runs do not overlap; "any"
          MaxRuns, MaxEdits \* bounds, by manner

RowsOf(m) == {OldTables[m][n] : n \in 1 .. Len(OldTables[m])}
OldProducts == UNION {RowsOf(m) : m \in MigrationManners}
AllVariants == UNION {{VariantsOf[p][n] : n \in 1 .. Len(VariantsOf[p])} : p \in OldProducts}

ASSUME MigrationAssumption ==
    /\ MigrationManners \subseteq {"serial", "any"}
    /\ IsFiniteSet(Runs) /\ Runs \subseteq Nat /\ IsFiniteSet(Names)
    /\ OldTables \in [MigrationManners -> Seq(OldProducts)]
    /\ SellerOf \in [OldProducts -> Sellers] /\ NameOf \in [OldProducts -> Names]
    /\ VariantsOf \in [OldProducts -> Seq(AllVariants)] /\ AllVariants \subseteq DOMAIN ValueOf
    /\ MaxRuns \in [MigrationManners -> Nat] /\ MaxEdits \in [MigrationManners -> Nat]

\* A variant is of one product, and what is missing is nothing that there may be.
ASSUME RowsAssumption ==
    /\ \A p, q \in OldProducts : p # q =>
          \A i \in 1 .. Len(VariantsOf[p]), j \in 1 .. Len(VariantsOf[q]) :
              VariantsOf[p][i] # VariantsOf[q][j]
    /\ NothingThere \notin OldProducts \cup Names
    /\ \A v \in AllVariants : /\ NothingThere # ValueOf[v]
                              /\ \A p \in OldProducts : NothingThere # <<p, ValueOf[v]>>

VARIABLES
    runManner,  \* chosen at the start
    priced,     \* Product.price: how often it was changed
    shops,      \* the businesses that have a store
    catalog,    \* GlobalProduct, by the product it was made of: its name
    kinds,      \* GlobalVariant: [product, value, legacy]
    listings,   \* StoreProduct: [shop, product, kind, legacy, price]
    run,        \* what each run is doing
    runsMade, edits,
    settled     \* history: the tables as the last clean run left them

Rows == OldTables[runManner]
market == <<shops, catalog, kinds, listings>>
migrationVars == <<runManner, priced, market, run, runsMade, edits, settled>>

\* A run: what is left to do, the maps it loaded, the products it read, the kind it is
\* about to list, whether nothing else has changed a table since it began, and whether
\* it has reported no error.
NoRun == [step |-> "idle"]
Going(step, byName, byRow, read, todo, nth, kind, alone, ok) ==
    [step |-> step, byName |-> byName, byRow |-> byRow, read |-> read, todo |-> todo,
     nth |-> nth, kind |-> kind, alone |-> alone, ok |-> ok]
NoNames == [n \in Names |-> NothingThere]
NoRows == [p \in OldProducts |-> NothingThere]
NoPrices == [p \in OldProducts |-> 0]

\* The unique indexes.
MigrationTypeOK ==
    /\ runManner \in MigrationManners
    /\ priced \in [OldProducts -> 0 .. MaxEdits[runManner]]
    /\ shops \subseteq Sellers /\ catalog \in [OldProducts -> Names \cup {NothingThere}]
    /\ \A k \in kinds : k.product \in OldProducts /\ catalog[k.product] # NothingThere
    /\ \A k, m \in kinds : k # m => /\ <<k.product, k.value>> # <<m.product, m.value>>
                                    /\ k.legacy # m.legacy
    /\ \A l \in listings : l.shop \in shops /\ catalog[l.product] # NothingThere
    /\ \A l, m \in listings : l # m =>
          /\ <<l.shop, l.product, l.kind>> # <<m.shop, m.product, m.kind>>
          /\ l.legacy # NothingThere => l.legacy # m.legacy
    /\ \A r \in Runs : run[r] = NoRun \/ run[r].todo \in 0 .. Len(Rows)
    /\ runsMade \in 0 .. MaxRuns[runManner] /\ edits \in 0 .. MaxEdits[runManner]

MigrationInit ==
    /\ runManner \in MigrationManners
    /\ priced = NoPrices
    /\ shops = {} /\ catalog = NoRows /\ kinds = {} /\ listings = {}
    /\ run = [r \in Runs |-> NoRun] /\ runsMade = 0 /\ edits = 0
    /\ settled = NothingThere

-----------------------------------------------------------------------------
Busy(r) == run[r] # NoRun
Others(r) == {q \in Runs \ {r} : Busy(q)}

\* Another run's write disturbs the runs that go on.
Disturbed(q) == IF Busy(q) THEN [run[q] EXCEPT !.alone = FALSE] ELSE NoRun
Goes(r, state) == run' = [q \in Runs |-> IF q = r THEN state ELSE Disturbed(q)]
GoesQuietly(r, state) == run' = [run EXCEPT ![r] = state]

\* What a run left, or nothing once a table has changed.
Left == <<priced, shops, catalog, kinds, listings>>

\* execute: the stores come first.
Begin(r) ==
    /\ \A q \in Runs : q < r => Busy(q)
    /\ ~Busy(r) /\ runsMade < MaxRuns[runManner]
    /\ runManner = "serial" => \A q \in Runs : ~Busy(q)
    /\ runsMade' = runsMade + 1
    /\ GoesQuietly(r, Going("stores", NoNames, NoRows, NoPrices, Len(Rows), 1, NothingThere,
                            Others(r) = {}, TRUE))
    /\ UNCHANGED <<runManner, priced, market, edits, settled>>

\* migrateStores, one business after the other; a store that another run has made
\* meanwhile makes the create fail, and the run with it.
MakeStore(r, b) ==
    /\ run[r].step = "stores" /\ b \notin shops
    /\ shops' = shops \cup {b} /\ Goes(r, run[r])
    /\ UNCHANGED <<runManner, priced, catalog, kinds, listings, runsMade, edits, settled>>

StoreFails(r) ==
    /\ run[r].step = "stores" /\ Others(r) # {}
    /\ GoesQuietly(r, NoRun)
    /\ UNCHANGED <<runManner, priced, market, runsMade, edits, settled>>

\* loadExistingCatalogMaps: of two global products of one name, either may be the one.
LoadMaps(r) ==
    /\ run[r].step = "stores" /\ shops = Sellers
    /\ \E byName \in [Names -> OldProducts \cup {NothingThere}] :
          /\ \A n \in Names :
                LET of == {p \in OldProducts : catalog[p] = n}
                IN IF of = {} THEN byName[n] = NothingThere ELSE byName[n] \in of
          /\ GoesQuietly(r, [run[r] EXCEPT
                !.step = "read", !.byName = byName,
                !.byRow = [p \in OldProducts |-> IF catalog[p] = NothingThere THEN NothingThere
                                               ELSE p]])
    /\ UNCHANGED <<runManner, priced, market, runsMade, edits, settled>>

ReadRows(r) ==
    /\ run[r].step = "read"
    /\ GoesQuietly(r, [run[r] EXCEPT !.step = IF Rows = <<>> THEN "end" ELSE "resolve",
                                     !.read = priced])
    /\ UNCHANGED <<runManner, priced, market, runsMade, edits, settled>>

\* The product a run is at, its variants, and the run at the next product.
RowAt(r) == Rows[Len(Rows) - run[r].todo + 1]
NextRow(state, ok) ==
    [state EXCEPT !.step = IF state.todo = 1 THEN "end" ELSE "resolve",
                  !.todo = state.todo - 1, !.nth = 1, !.kind = NothingThere,
                  !.ok = state.ok /\ ok]
\* The step of a product whose global product is known.
Listing(p) == IF VariantsOf[p] = <<>> THEN "list" ELSE "vary"

\* Mutant: the names that are there already are not looked at.
KnownByRow(r, p) == run[r].byRow[p]

\* resolveGlobalProductId: by the product itself, or by its name.
KnownProduct(r, p) ==
    IF run[r].byRow[p] # NothingThere THEN run[r].byRow[p]
    ELSE run[r].byName[NameOf[p]]

\* A global product that is known, or a new one. The create fails when another run has
\* made it of the same product, or has taken the slug.
Resolve(r) ==
    LET p == RowAt(r)  name == NameOf[p]  known == KnownProduct(r, p) IN
    /\ run[r].step = "resolve"
    /\ \/ /\ known # NothingThere
          /\ GoesQuietly(r, [run[r] EXCEPT !.step = Listing(p), !.byRow[p] = known])
          /\ UNCHANGED catalog
       \/ /\ known = NothingThere /\ catalog[p] = NothingThere
          /\ catalog' = [catalog EXCEPT ![p] = name]
          /\ Goes(r, [run[r] EXCEPT !.step = Listing(p), !.byRow[p] = p, !.byName[name] = p])
       \/ /\ known = NothingThere /\ (catalog[p] # NothingThere \/ Others(r) # {})
          /\ GoesQuietly(r, NextRow(run[r], FALSE)) /\ UNCHANGED catalog
    /\ UNCHANGED <<runManner, priced, shops, kinds, listings, runsMade, edits, settled>>

\* Mutant: a kind of the same value is taken of whatever product.
SameKindAnywhere(k, product, v) == k.value = ValueOf[v]
SameKind(k, product, v) == k.product = product /\ k.value = ValueOf[v]

\* Mutant: every kind is linked to the first variant of its product.
KindOfFirst(p, product, v) ==
    [product |-> product, value |-> ValueOf[v], legacy |-> VariantsOf[p][1]]
KindOf(p, product, v) == [product |-> product, value |-> ValueOf[v], legacy |-> v]

\* ensureGlobalVariant: by the variant itself, whichever product it is of; by its value,
\* then linked to this variant; or a new one. A unique index may refuse what another run
\* was quicker to write.
Vary(r) ==
    LET p == RowAt(r)  product == run[r].byRow[p]  v == VariantsOf[p][run[r].nth]
        own == {k \in kinds : k.legacy = v}
        same == {k \in kinds : SameKind(k, product, v)}
        known == IF own # {} THEN own ELSE same
    IN /\ run[r].step = "vary"
       /\ \/ \E k \in known :
                LET kind == <<k.product, k.value>>
                    to == [run[r] EXCEPT !.step = "list", !.kind = kind]
                IN /\ kinds' = (kinds \ {k}) \cup {[k EXCEPT !.legacy = v]}
                   /\ IF kinds' = kinds THEN GoesQuietly(r, to) ELSE Goes(r, to)
          \/ /\ known = {}
             /\ kinds' = kinds \cup {KindOf(p, product, v)}
             /\ Goes(r, [run[r] EXCEPT !.step = "list", !.kind = <<product, ValueOf[v]>>])
          \/ /\ Others(r) # {}
             /\ GoesQuietly(r, NextRow(run[r], FALSE)) /\ UNCHANGED kinds
       /\ UNCHANGED <<runManner, priced, shops, catalog, listings, runsMade, edits, settled>>

\* Mutant: a listing that is there already keeps its price.
ListedKept(l, price, kind, row) == [l EXCEPT !.legacy = IF row = NothingThere THEN @ ELSE row]
\* Mutant: a second run adds to what the first one wrote.
ListedAdds(l, price, kind, row) ==
    [l EXCEPT !.price = @ + price, !.kind = kind]
Listed(l, price, kind, row) ==
    [l EXCEPT !.price = price, !.kind = kind, !.legacy = IF row = NothingThere THEN @ ELSE row]

\* Whether the unique index on shop, product and kind, or on the old product, refuses l.
Refused(l, rest) ==
    \E m \in rest : \/ <<m.shop, m.product, m.kind>> = <<l.shop, l.product, l.kind>>
                    \/ l.legacy # NothingThere /\ m.legacy = l.legacy

\* upsertStoreListing: by the old product, which only the first variant names; by shop,
\* product and kind; or a new one. An update that an index refuses ends the product; a
\* create that it refuses is counted and passed over.
List(r) ==
    LET p == RowAt(r)
        row == IF run[r].nth = 1 THEN p ELSE NothingThere
        new == [shop |-> SellerOf[p], product |-> run[r].byRow[p], kind |-> run[r].kind,
                legacy |-> row, price |-> run[r].read[p]]
        own == {l \in listings : row # NothingThere /\ l.legacy = row}
        same == {l \in listings : /\ <<l.shop, l.product, l.kind>>
                                       = <<new.shop, new.product, new.kind>>}
        known == IF own # {} THEN own ELSE same
        last == run[r].nth >= Len(VariantsOf[p])
        On(ok) == IF last THEN NextRow(run[r], ok)
                  ELSE [run[r] EXCEPT !.step = "vary", !.nth = @ + 1, !.ok = @ /\ ok]
    IN /\ run[r].step = "list"
       /\ \/ \E l \in known :
                LET after == Listed(l, new.price, new.kind, row)
                IN IF Refused(after, listings \ {l})
                   THEN GoesQuietly(r, NextRow(run[r], FALSE)) /\ UNCHANGED listings
                   ELSE /\ listings' = (listings \ {l}) \cup {after}
                        /\ IF after = l THEN GoesQuietly(r, On(TRUE)) ELSE Goes(r, On(TRUE))
          \/ /\ known = {} /\ ~Refused(new, listings)
             /\ listings' = listings \cup {new} /\ Goes(r, On(TRUE))
          \/ known = {} /\ Others(r) # {} /\ UNCHANGED listings /\ GoesQuietly(r, On(FALSE))
       /\ UNCHANGED <<runManner, priced, shops, catalog, kinds, runsMade, edits, settled>>

\* The run reports. A clean one met no error, and nobody wrote beside it.
Clean(r) == run[r].step = "end" /\ run[r].alone /\ run[r].ok
Reports(r) ==
    /\ Busy(r) /\ run[r].step = "end"
    /\ GoesQuietly(r, NoRun)
    /\ settled' = IF Clean(r) THEN Left ELSE settled
    /\ UNCHANGED <<runManner, priced, market, runsMade, edits>>

\* The process dies; what was written stays.
Dies(r) ==
    /\ Busy(r)
    /\ GoesQuietly(r, NoRun)
    /\ UNCHANGED <<runManner, priced, market, runsMade, edits, settled>>

\* Between and during runs the old shop goes on: a price changes.
EditRow(p) ==
    /\ edits < MaxEdits[runManner] /\ edits' = edits + 1
    /\ priced' = [priced EXCEPT ![p] = @ + 1]
    /\ run' = [q \in Runs |-> Disturbed(q)]
    /\ UNCHANGED <<runManner, market, runsMade, settled>>

MigrationNext ==
    \/ \E r \in Runs :
          \/ Begin(r) \/ StoreFails(r) \/ LoadMaps(r) \/ ReadRows(r) \/ Resolve(r)
          \/ Vary(r) \/ List(r) \/ Reports(r) \/ Dies(r)
          \/ \E b \in Sellers : MakeStore(r, b)
    \/ \E p \in RowsOf(runManner) : EditRow(p)

MigrationSpec == MigrationInit /\ [][MigrationNext]_migrationVars

-----------------------------------------------------------------------------
(* Properties. *)

\* Two products of one business and one name share a listing; the later one writes last.
ShownFor(p, value) ==
    CHOOSE q \in RowsOf(runManner) :
        \E n \in 1 .. Len(Rows) :
            LET alike(i) == /\ SellerOf[Rows[i]] = SellerOf[p] /\ NameOf[Rows[i]] = NameOf[p]
                            /\ \/ value = NothingThere /\ VariantsOf[Rows[i]] = <<>>
                               \/ \E j \in 1 .. Len(VariantsOf[Rows[i]]) :
                                      ValueOf[VariantsOf[Rows[i]][j]] = value
            IN q = Rows[n] /\ alike(n) /\ \A m \in n + 1 .. Len(Rows) : ~alike(m)

Sells(p, value) ==
    \E l \in listings :
        /\ l.shop = SellerOf[p] /\ l.price = priced[ShownFor(p, value)]
        /\ IF value = NothingThere THEN l.kind = NothingThere
           ELSE l.kind # NothingThere /\ l.kind[2] = value

\* Whatever crashed or overlapped before it, a run that went undisturbed and reported no
\* error leaves every product, or each of its variants, listed in its shop at the price
\* of now.
CleanRunLists ==
    \A r \in Runs : Busy(r) /\ Clean(r) =>
        \A p \in RowsOf(runManner) :
            IF VariantsOf[p] = <<>> THEN Sells(p, NothingThere)
            ELSE \A n \in 1 .. Len(VariantsOf[p]) : Sells(p, ValueOf[VariantsOf[p][n]])

\* "Idempotent backfill": while runs come one at a time, a clean run over tables that a
\* clean run has left and nobody has changed since ends with the same tables.
CleanRunRepeats ==
    [][\A r \in Runs : /\ runManner = "serial" /\ Busy(r) /\ Clean(r) /\ run'[r] = NoRun
                       /\ settled # NothingThere /\ settled[1] = priced
                       => settled' = settled]_migrationVars

\* While runs come one at a time, however often they die, a name has one global product
\* and a listing is of a kind of its own product.
NoTwins ==
    runManner = "serial" =>
        \A p, q \in OldProducts : p # q /\ catalog[p] # NothingThere => catalog[p] # catalog[q]
ListingsOfOneProduct ==
    runManner = "serial" =>
        \A l \in listings : l.kind # NothingThere => l.kind[1] = l.product

\* The backfill is complete when it says so, doubles nothing, and can be repeated.
MigrationSound ==
    /\ [](MigrationTypeOK /\ CleanRunLists /\ NoTwins /\ ListingsOfOneProduct)
    /\ CleanRunRepeats
=============================================================================
