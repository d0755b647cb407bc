---------------------------- MODULE CatalogPages ----------------------------
(***************************************************************************)
(* The lists of products a visitor pages through: the endless grid of the  *)
(* home page, a store, the discounts, a category and the search. A page of *)
(* a list is two reads of the server, the rows and their number, and its   *)
(* answer may come after what was asked later. What a product says, and    *)
(* the caches of the server (CatalogCache), are left out.                  *)
(* Source: catalog-infinite-grid.tsx, store-page-client.tsx,               *)
(* app/discounts/page.tsx, category-products-client.tsx,                   *)
(* search-page-client.tsx and the services that answer them                *)
(***************************************************************************)
EXTENDS Naturals, FiniteSets, SequencesExt, Sublists

CONSTANTS
    Wares,        \* the products
    Opening,      \* the sequence the server lists them in, at the start
    Filters,      \* categories, search terms or orders one may ask for
    FitsOf,       \* the filters each product passes
    Market,       \* products listed by the marketplace
    Bare,         \* products a page is sent but does not show: no variant, no discount
    PageSize,
    PageViews,    \* which of the five lists
    PageManners,  \* "calm": one call at a time; "any": they overlap
    PageCalls,    \* bound: numbers of the calls in flight at the same time
    MaxAsked,     \* bound: calls of a behaviour, in each manner
    MaxMoves,     \* bound: changes of the catalogue
    MaxErrors     \* bound: calls that fail

ASSUME PageAssumption ==
    /\ Opening \in Seq(Wares) /\ IsInjective(Opening)
    /\ FitsOf \in [Wares -> SUBSET Filters]
    /\ Market \subseteq Wares /\ Bare \subseteq Wares /\ PageSize \in Nat \ {0}
    /\ PageViews \subseteq {"grid", "store", "discounts", "category", "search"}
    /\ PageManners \subseteq {"calm", "any"} /\ MaxAsked \in [PageManners -> Nat]
    /\ IsFiniteSet(PageCalls) /\ PageCalls \subseteq Nat
    /\ MaxMoves \in Nat /\ MaxErrors \in Nat

VARIABLES
    pageManner, pageOf,  \* chosen at the start: the manner, and which list
    shelf,       \* the products the server lists, in its order
    sought,       \* the filter of the page: a slug, a term, an order, the chips of a store
    wanted,      \* the page of the category that was turned to
    shown,       \* items
    upTo,        \* page: the last one in items
    ofPages,     \* totalPages
    busy,        \* the spinners: "more" and "whole"
    flights,     \* the calls in flight
    nAsked, moves, errors,
    straddled,   \* history: a call began beside one of another filter, or beside one that
                 \* replaces what it adds to
    origins      \* history: the filters of the answers that items is made of
pageVars == <<pageManner, pageOf, shelf, sought, wanted, shown, upTo, ofPages, busy, flights,
              nAsked, moves, errors, straddled, origins>>

NotRead == <<"not read">>
NotCounted == 0
NoPage == [adds |-> FALSE, by |-> "nobody", page |-> 0, rows |-> NotRead,
             count |-> NotCounted]
Flying == {c \in PageCalls : flights[c] # NoPage}

PageTypeOK ==
    /\ pageManner \in PageManners /\ pageOf \in PageViews
    /\ shelf \in Seq(Wares) /\ sought \in Filters /\ shown \in Seq(Wares)
    /\ upTo \in Nat /\ ofPages \in Nat \ {0} /\ wanted \in Nat \ {0}
    /\ busy \subseteq {"more", "whole"}
    /\ nAsked \in 0 .. MaxAsked[pageManner] /\ moves \in 0 .. MaxMoves
    /\ errors \in 0 .. MaxErrors /\ origins \subseteq Filters

-----------------------------------------------------------------------------
(* The server. *)

Fitting(s, f) == Sifted(s, {p \in Wares : f \in FitsOf[p]})
Slice(s, n) == SubSeq(s, (n - 1) * PageSize + 1,
                      IF n * PageSize < Len(s) THEN n * PageSize ELSE Len(s))
PagesFor(n) == IF n = 0 THEN 1 ELSE (n + PageSize - 1) \div PageSize

\* The discounts: those of the marketplace, as long as it has one, whatever the order asked
\* for; otherwise the promotions of the old catalogue in that order.
Discounted(s, f) ==
    LET ofMarket == Sifted(s, Market)
        old == Sifted(s, Wares \ Market)
    IN IF ofMarket # <<>> THEN ofMarket
       ELSE IF "newest" \in Filters /\ f = "newest" THEN old ELSE Reverse(old)

\* The search prefers what the marketplace lists.
SearchHits(s, f) ==
    LET hits == Fitting(s, f)
        ofMarket == Sifted(hits, Market)
    IN IF ofMarket # <<>> THEN ofMarket ELSE hits

\* What the list of v holds for f, with the catalogue as it is in s.
ListFor(v, s, f) == CASE v = "discounts" -> Discounted(s, f)
                      [] v = "search" -> SearchHits(s, f)
                      [] OTHER -> Fitting(s, f)

\* The rows of a page. A category and the search read them before they count, the discounts
\* come with their number, and the others read both at the same time.
ReadRows(c) ==
    /\ flights[c] # NoPage /\ flights[c].rows = NotRead
    /\ LET all == ListFor(pageOf, shelf, flights[c].by) IN
          flights' = [flights EXCEPT ![c].rows = Slice(all, flights[c].page),
                         ![c].count = IF pageOf = "discounts" THEN PagesFor(Len(all)) ELSE @]
    /\ UNCHANGED <<pageManner, pageOf, shelf, sought, wanted, shown, upTo, ofPages, busy,
                   nAsked, moves, errors, straddled, origins>>

\* Mutant: the size of the page is left out of the number of pages.
CountRowsOnly(c) ==
    /\ flights[c] # NoPage /\ flights[c].count = NotCounted
    /\ pageOf # "discounts"
    /\ pageOf \in {"category", "search"} => flights[c].rows # NotRead
    /\ flights' = [flights EXCEPT ![c].count =
                      PagesFor(Len(Slice(ListFor(pageOf, shelf, flights[c].by),
                                         flights[c].page)))]
    /\ UNCHANGED <<pageManner, pageOf, shelf, sought, wanted, shown, upTo, ofPages, busy,
                   nAsked, moves, errors, straddled, origins>>

\* Their number, from which the pages follow: at least one.
CountRows(c) ==
    /\ flights[c] # NoPage /\ flights[c].count = NotCounted
    /\ pageOf # "discounts"
    /\ pageOf \in {"category", "search"} => flights[c].rows # NotRead
    /\ flights' = [flights EXCEPT ![c].count =
                      PagesFor(Len(ListFor(pageOf, shelf, flights[c].by)))]
    /\ UNCHANGED <<pageManner, pageOf, shelf, sought, wanted, shown, upTo, ofPages, busy,
                   nAsked, moves, errors, straddled, origins>>

-----------------------------------------------------------------------------
(* The pages. *)

\* A call, with the lowest free number. It adds page n to the items, or replaces them.
Asks(adds, f, n) ==
    /\ nAsked < MaxAsked[pageManner] /\ nAsked' = nAsked + 1
    /\ pageManner = "calm" => Flying = {}
    /\ \E c \in PageCalls :
          /\ flights[c] = NoPage /\ \A d \in PageCalls : d < c => flights[d] # NoPage
          /\ flights' = [flights EXCEPT ![c] = [NoPage EXCEPT
                            !.adds = adds, !.by = f, !.page = n]]
    /\ busy' = busy \cup {IF adds THEN "more" ELSE "whole"}
    /\ straddled' = (straddled \/ \E c \in Flying : <<flights[c].adds, flights[c].by>>
                                                   # <<adds, f>>)

\* Which of the lists come with the page, and which are loaded by it.
Prerendered == {"grid", "store"}

PagesInit ==
    /\ pageManner \in PageManners /\ pageOf \in PageViews
    /\ shelf = Opening /\ sought \in Filters /\ wanted = 1
    /\ LET all == ListFor(pageOf, shelf, sought) IN
          IF pageOf \in Prerendered
          THEN shown = Slice(all, 1) /\ upTo = 1 /\ ofPages = PagesFor(Len(all))
          ELSE shown = <<>> /\ upTo = 1 /\ ofPages = 1
    /\ IF pageOf \in Prerendered
       THEN busy = {} /\ flights = [c \in PageCalls |-> NoPage]
       ELSE /\ busy = {"whole"}
            /\ flights = [c \in PageCalls |->
                            IF \A d \in PageCalls : c <= d
                            THEN [NoPage EXCEPT !.by = sought, !.page = 1] ELSE NoPage]
    /\ nAsked = 0 /\ moves = 0 /\ errors = 0 /\ straddled = FALSE
    /\ origins = IF pageOf \in Prerendered THEN {sought} ELSE {}

\* Mutant: nothing keeps the sentinel from asking for a page that is on its way.
LoadNextTwice ==
    /\ pageOf = "grid" /\ upTo < ofPages
    /\ Asks(TRUE, sought, upTo + 1)
    /\ UNCHANGED <<pageManner, pageOf, shelf, sought, wanted, shown, upTo, ofPages, moves,
                   errors, origins>>

\* loadNextPage: the sentinel of the grid came into view, or the visitor tries again.
LoadNext ==
    /\ pageOf = "grid" /\ upTo < ofPages /\ "more" \notin busy
    /\ Asks(TRUE, sought, upTo + 1)
    /\ UNCHANGED <<pageManner, pageOf, shelf, sought, wanted, shown, upTo, ofPages, moves,
                   errors, origins>>

\* The button below a store, and below the discounts, which hides it while the list loads.
LoadMore ==
    /\ pageOf \in {"store", "discounts"} /\ upTo < ofPages /\ "more" \notin busy
    /\ pageOf = "discounts" => "whole" \notin busy
    /\ Asks(TRUE, sought, upTo + 1)
    /\ UNCHANGED <<pageManner, pageOf, shelf, sought, wanted, shown, upTo, ofPages, moves,
                   errors, origins>>

\* A chip, a settled search box, an order, another term: the first page of it is asked for.
\* Another category is another page.
Choose(f) ==
    /\ pageOf \in {"store", "discounts", "search"}
    /\ f # sought /\ sought' = f /\ Asks(FALSE, f, 1)
    /\ UNCHANGED <<pageManner, pageOf, shelf, wanted, shown, upTo, ofPages, moves, errors,
                   origins>>

\* The buttons of a category: they follow the page of the page, and the number of pages of
\* the answer that is shown.
Turn(n) ==
    /\ pageOf = "category" /\ origins # {}
    /\ n \in {wanted - 1, wanted + 1} /\ n >= 1 /\ (n > wanted => wanted < ofPages)
    /\ wanted' = n /\ Asks(FALSE, sought, n)
    /\ UNCHANGED <<pageManner, pageOf, shelf, sought, shown, upTo, ofPages, moves, errors,
                   origins>>

\* Mutant: the grid adds what it has already.
AddedAsSent(rows) == shown \o rows
\* mergeUniqueProducts in the grid; the others put the page behind what they have.
Added(rows) ==
    IF pageOf = "grid" THEN shown \o Sifted(rows, Wares \ ToSet(shown))
    ELSE shown \o rows

\* An answer arrives, and is taken whatever was asked for since. Any answer stops every
\* spinner.
PageArrives(c) ==
    LET call == flights[c]
        rows == IF pageOf = "discounts" THEN Sifted(call.rows, Wares \ Bare) ELSE call.rows
    IN /\ call # NoPage /\ call.rows # NotRead /\ call.count # NotCounted
       /\ shown' = IF call.adds THEN Added(rows) ELSE rows
       /\ upTo' = call.page /\ ofPages' = call.count
       /\ origins' = IF call.adds THEN origins \cup {call.by} ELSE {call.by}
       /\ flights' = [flights EXCEPT ![c] = NoPage] /\ busy' = {}
       /\ UNCHANGED <<pageManner, pageOf, shelf, sought, wanted, nAsked, moves, errors,
                      straddled>>

\* A call fails. The grid and a category keep what they show, and so does a list whose next
\* page failed; otherwise the list is emptied, and its pages stay counted.
PageFails(c) ==
    /\ flights[c] # NoPage /\ errors < MaxErrors /\ errors' = errors + 1
    /\ IF pageOf = "category" \/ flights[c].adds THEN UNCHANGED <<shown, origins>>
       ELSE shown' = <<>> /\ origins' = {}
    /\ flights' = [flights EXCEPT ![c] = NoPage] /\ busy' = {}
    /\ UNCHANGED <<pageManner, pageOf, shelf, sought, wanted, upTo, ofPages, nAsked, moves,
                   straddled>>

\* The deferred sections of the home page appear: the grid is mounted again, with what came
\* with the page, and hears no more of its calls.
Remount ==
    /\ pageOf = "grid" /\ nAsked < MaxAsked[pageManner] /\ nAsked' = nAsked + 1
    /\ LET all == ListFor(pageOf, Opening, sought) IN
          shown' = Slice(all, 1) /\ upTo' = 1 /\ ofPages' = PagesFor(Len(all))
    /\ busy' = {} /\ flights' = [c \in PageCalls |-> NoPage]
    /\ UNCHANGED <<pageManner, pageOf, shelf, sought, wanted, moves, errors, straddled,
                   origins>>

\* A product is hidden or sold out, or a new one comes first.
ShelfMoves ==
    /\ moves < MaxMoves /\ moves' = moves + 1
    /\ \/ \E i \in 1 .. Len(shelf) : shelf' = RemoveAt(shelf, i)
       \/ \E p \in Wares \ ToSet(shelf) : shelf' = <<p>> \o shelf
    /\ UNCHANGED <<pageManner, pageOf, sought, wanted, shown, upTo, ofPages, busy, flights,
                   nAsked, errors, straddled, origins>>

PagesNext ==
    \/ LoadNext \/ LoadMore \/ Remount \/ ShelfMoves
    \/ \E f \in Filters : Choose(f)
    \/ \E n \in {wanted - 1, wanted + 1} : Turn(n)
    \/ \E c \in PageCalls : \/ ReadRows(c) \/ CountRows(c) \/ PageArrives(c)
                            \/ PageFails(c)

PagesSpec == PagesInit /\ [][PagesNext]_pageVars

-----------------------------------------------------------------------------
(* Properties. *)

\* However the catalogue moves between its pages, and however its calls fail, the endless
\* grid shows no product twice: keys of the list stay unique.
GridWithoutTwins == pageOf = "grid" => IsInjective(shown)

\* The grid, which stays on the list it opened with, has every product of the pages it
\* counts, in order, while the catalogue stands: no failed or repeated call skips one.
GridIsWhole ==
    pageOf = "grid" /\ moves = 0 =>
        shown = SubSeq(Fitting(shelf, sought), 1, Len(shown))
        /\ (upTo < ofPages => Len(shown) = upTo * PageSize)
        /\ (upTo = ofPages => shown = Fitting(shelf, sought))

\* Without overlapping calls, failures and changes, a list holds what was asked for: of a
\* category the page that was turned to, of the others every page up to the last one, less
\* what the page does not show.
CalmShowsAsked ==
    pageManner = "calm" /\ errors = 0 /\ moves = 0 /\ Flying = {} /\ origins # {} =>
        LET all == ListFor(pageOf, shelf, sought)
            last == IF upTo * PageSize < Len(all) THEN upTo * PageSize ELSE Len(all)
        IN /\ ofPages = PagesFor(Len(all))
           /\ shown = CASE pageOf = "category" -> Slice(all, wanted)
                        [] pageOf = "discounts" ->
                              Sifted(SubSeq(all, 1, last), Wares \ Bare)
                        [] OTHER -> SubSeq(all, 1, last)

\* Products of two filters stand in one list only when a page of one was still on its way
\* as the other was asked for.
MixNeedsStraddle == ~straddled => Cardinality(origins) <= 1

\* The grid has one call at a time, and waits for it exactly while it is in flight, so the
\* sentinel never asks twice for a page nor stops asking.
GridOneCall ==
    pageOf = "grid" => Cardinality(Flying) <= 1 /\ (busy = {} <=> Flying = {})

\* The lists a visitor pages through show what they say.
PagesSound ==
    /\ PageTypeOK /\ GridWithoutTwins /\ GridIsWhole /\ CalmShowsAsked
    /\ MixNeedsStraddle /\ GridOneCall
=============================================================================
