------------------------ MODULE OrderLifecycleProofs ------------------------
(***************************************************************************)
(* Theorems about the shelf of a store, and about OrderLifecycle for every *)
(* set of orders, staff, handlers and job executions.                      *)
(*                                                                         *)
(* ShelfInv says which goods a request on its way may still list as a      *)
(* whole (PlainHeld), and that in calm use one request at most is on its   *)
(* way: what it carries agrees with the shelf, and what is shown else is   *)
(* what is stored.                                                         *)
(*                                                                         *)
(* Of those on orders, the first ones place no restriction on which        *)
(* requests collide: rows, the evidence of the stages, the single credit,  *)
(* the books.  The last ones assume OneRequestPerOrder, under which what a *)
(* request has read still holds when it writes: the transition table, the  *)
(* claims, the settlement, and the refinement of OrderSettlement.          *)
(***************************************************************************)
EXTENDS OrderLifecycle, StoreShelf, FiniteSums

(***************************************************************************)
(* The shelf of a store.                                                   *)
(***************************************************************************)

\* Rows, pages and requests, and what of them refers to rows of the shelf.
ShelfRow == [good : Goods, variant : Sorts \cup {Base}, stock : Nat, isTop : BOOLEAN,
             topOrder : Nat, early : BOOLEAN]
DeskState == [panel : Panels, rows : Seq(ShelfRow), items : SUBSET Goods, busy : Nat,
              loading : BOOLEAN, saving : BOOLEAN]
SheetState == [id : Nat, page : Opened \cup {Gone},
               kind : {"load", "patch", "save", "import", "offer"},
               at : {"sent", "read", "landed", "refused", "written", "goods", "listed"},
               row : Nat, stock : Nat, rows : Seq(ShelfRow), goods : SUBSET Goods,
               variant : Sorts \cup {Base}, plain : SUBSET Goods]

DeskTyped(p) == Len(desks[p].rows) <= Len(shelf) /\ desks[p].busy <= Len(shelf)

SheetTyped(c) ==
    /\ c.row <= Len(shelf) /\ Len(c.rows) <= Len(shelf)
    /\ c.kind = "patch" => c.row # 0

ShelfTyped ==
    /\ shelfManner \in ShelfManners
    /\ catalog \in [active : SUBSET Goods, varied : SUBSET Goods]
    /\ shelf \in Seq(ShelfRow) /\ tally \in Seq(Nat) /\ Len(tally) = Len(shelf)
    /\ desks \in [Opened -> DeskState] /\ \A p \in Opened : DeskTyped(p)
    /\ sheets \subseteq SheetState /\ \A c \in sheets : SheetTyped(c)
    /\ shelfActs \in 0 .. MaxShelfActs[shelfManner]

\* A good on its way to be listed as a whole had no variant when its request came.
PlainHeld(c) ==
    /\ c.kind \in {"import", "offer"} => Goods \ catalog.varied \subseteq c.plain
    /\ /\ c.at \in {"goods", "listed"}
       /\ c.kind = "import" \/ (c.kind = "offer" /\ c.variant = Base)
       => c.goods \subseteq c.plain

\* Each top row has a place of its own, in a list as long as the shelf.
TopsApart(rows) ==
    \A i, j \in DOMAIN rows : i # j /\ rows[i].isTop /\ rows[j].isTop =>
        rows[i].topOrder # rows[j].topOrder
AllTops(rows) == Len(rows) = Len(shelf) /\ TopsApart(rows)

\* What the one request of a calm page holds at each of its steps.
CalmSheet(c) ==
    /\ c.page = TheOne
    /\ \/ c.kind = "load" /\ c.at = "sent"
       \/ c.kind = "load" /\ c.at = "read" /\ c.rows = shelf
       \/ c.kind = "patch" /\ c.at = "sent" /\ c.stock = tally[c.row]
       \/ c.kind = "patch" /\ c.at = "landed"
       \/ /\ c.kind = "save" /\ desks[TheOne].panel = "top" /\ AllTops(desks[TheOne].rows)
          /\ \/ c.at = "sent" /\ AllTops(c.rows)
             \/ c.at \in {"refused", "written"}
             \/ c.at = "read" /\ c.rows = shelf
       \/ /\ c.kind = "import" /\ desks[TheOne].panel = "import"
          /\ c.at \in {"sent", "goods", "listed"}

\* A stock is the tally, or the tap that makes it so is on its way.
Tallied(i) ==
    \/ shelf[i].stock = tally[i]
    \/ \E c \in sheets : c.kind = "patch" /\ c.at = "sent" /\ c.row = i

\* In calm use one request at most is on its way; else what is shown is what is stored.
CalmPages ==
    /\ \A c, e \in sheets : c = e
    /\ \A c \in sheets : CalmSheet(c)
    /\ \A i \in DOMAIN shelf : Tallied(i)
    /\ sheets = {} =>
          /\ desks[TheOne].panel \in {"mine", "stock"} => desks[TheOne].rows = shelf
          /\ desks[TheOne].panel = "top" => AllTops(desks[TheOne].rows)

CalmShelf ==
    shelfManner = "calm" =>
        CalmPages /\ TopCount(shelf) <= MaxTop /\ TopsApart(shelf)

ShelfInv ==
    /\ ShelfTyped /\ ListedOnce /\ WholeWasPlain
    /\ \A c \in sheets : PlainHeld(c)
    /\ CalmShelf

\* What the constants are.
LEMMA ShelfConstants ==
    /\ Goods # {} /\ IsFiniteSet(Goods) /\ IsFiniteSet(Sorts)
    /\ 0 \notin Sorts /\ 0 \notin Opened /\ Opened # {}
    /\ DefaultStock \in Nat /\ Low \in Nat /\ MaxTop \in Nat /\ MaxReforms \in Nat
BY ShelfAssumption DEF ShelfAssumption

LEMMA ShelfActsBound == ASSUME NEW m \in ShelfManners PROVE MaxShelfActs[m] \in Nat
<1>1. MaxShelfActs \in [ShelfManners -> Nat] BY ShelfAssumption, Zenon DEF ShelfAssumption
<1> QED BY <1>1, Zenon

\* The page that is used when calm is one of the pages.
LEMMA OnePage == TheOne \in Opened
BY ShelfConstants DEF TheOne

\* What CHOOSE finds when it looks for the greatest.
LEMMA MaxOfTwo == \A n \in Nat : Max({1, n}) \in Nat /\ Max({1, n}) >= 1
<1> TAKE n \in Nat
<1>1. \E x \in {1, n} : \A y \in {1, n} : x >= y OBVIOUS
<1> QED BY <1>1 DEF Max

\* The greatest of finitely many numbers is as great as each.
LEMMA GreatestPlace ==
    ASSUME NEW f, NEW n \in Nat, \A i \in 1..n : f[i] \in Nat,
           NEW S \in SUBSET (1..n)
    PROVE LET T == {0} \cup {f[i] : i \in S} IN
          Max(T) \in Nat /\ \A t \in T : Max(T) >= t
<1> DEFINE T == {0} \cup {f[i] : i \in S}
<1> DEFINE Bound(m) == \A t \in T : t <= m
<1>1. \A t \in T : t \in Nat OBVIOUS
<1>2. \E m \in Nat : Bound(m)
    <2> DEFINE B == {m \in 0 .. n : \A b \in Nat : \E i \in 1 .. m : f[i] > b}
    <2>1. CASE B = {}
        <3>1. n \notin B BY <2>1
        <3>2. PICK b \in Nat : ~ \E i \in 1 .. n : f[i] > b BY <3>1
        <3>3. \A t \in T : t <= b BY <3>2, <1>1
        <3> QED BY <3>3
    <2>2. CASE B # {}
        <3>1. B \subseteq Nat OBVIOUS
        <3>2. PICK m \in B : \A k \in B : m <= k BY <2>2, <3>1, LeastNatural
        <3>3. m # 0 BY <3>2
        <3>4. m \in Nat /\ m - 1 \in 0 .. n /\ ~(m <= m - 1)
            <4>1. m \in 0 .. n BY <3>2
            <4> QED BY <3>3, <4>1
        <3>5. m - 1 \notin B BY <3>2, <3>4
        <3>6. PICK b \in Nat : ~ \E i \in 1 .. (m - 1) : f[i] > b BY <3>4, <3>5
        <3>7. f[m] \in Nat BY <3>2, <3>3
        <3>8. b + f[m] \in Nat BY <3>7
        <3>9. PICK i \in 1 .. m : f[i] > b + f[m] BY <3>2, <3>8
        <3>10. i # m BY <3>9, <3>7
        <3>11. i \in 1 .. (m - 1) /\ f[i] \in Nat BY <3>10, <3>2, <3>4
        <3>12. f[i] > b BY <3>9, <3>11, <3>7
        <3> QED BY <3>6, <3>11, <3>12
    <2> QED BY <2>1, <2>2
<1>3. {m \in Nat : Bound(m)} \subseteq Nat /\ {m \in Nat : Bound(m)} # {} BY <1>2
<1>4. PICK m \in Nat : Bound(m) /\ \A k \in Nat : Bound(k) => m <= k
    BY <1>3, LeastNatural
<1>5. m \in T
    <2> SUFFICES ASSUME m \notin T PROVE FALSE OBVIOUS
    <2>1. m # 0 OBVIOUS
    <2>2. m - 1 \in Nat BY <2>1
    <2>3. Bound(m - 1) BY <1>1, <1>4, <2>2
    <2> QED BY <1>4, <2>2, <2>3
<1>6. \E x \in T : \A y \in T : x >= y BY <1>1, <1>4, <1>5
<1>7. Max(T) \in T /\ \A y \in T : Max(T) >= y BY <1>6 DEF Max
<1> QED BY <1>1, <1>7

\* A function on 1..n is a list of n.
LEMMA FunctionIsList ==
    ASSUME NEW T, NEW n \in Nat, NEW s \in [1..n -> T]
    PROVE s \in Seq(T) /\ Len(s) = n
OBVIOUS

\* What a page, a request and a row are when they are made.
LEMMA PanelTyped ==
    ASSUME NEW q \in Panels
    PROVE /\ Panel(q) \in DeskState /\ Panel(q).panel = q /\ Panel(q).rows = <<>>
          /\ Panel(q).items = {} /\ Panel(q).busy = 0 /\ ~Panel(q).loading /\ ~Panel(q).saving
<1>1. <<>> \in Seq(ShelfRow) OBVIOUS
<1> QED BY <1>1 DEF Panel, DeskState

\* A new request carries nothing yet.
LEMMA SheetMade ==
    ASSUME ShelfTyped, NEW p \in Opened \cup {Gone},
           NEW kind \in {"load", "patch", "save", "import", "offer"}
    PROVE /\ Sheet(p, kind) \in SheetState
          /\ Sheet(p, kind).page = p /\ Sheet(p, kind).kind = kind
          /\ Sheet(p, kind).at = "sent" /\ Sheet(p, kind).row = 0
          /\ Sheet(p, kind).rows = <<>> /\ Sheet(p, kind).goods = {}
          /\ Sheet(p, kind).variant = Base
<1>1. <<>> \in Seq(ShelfRow) OBVIOUS
<1>2. shelfActs \in Nat BY ShelfActsBound DEF ShelfTyped
<1> QED BY <1>1, <1>2 DEF Sheet, SheetState, Base

\* A new row is not on top.
LEMMA RowMade ==
    ASSUME NEW g \in Goods, NEW v \in Sorts \cup {Base}, NEW s \in Nat, NEW early \in BOOLEAN
    PROVE /\ NewRow(g, v, s, early) \in ShelfRow
          /\ NewRow(g, v, s, early).good = g /\ NewRow(g, v, s, early).variant = v
          /\ NewRow(g, v, s, early).stock = s /\ ~NewRow(g, v, s, early).isTop
          /\ NewRow(g, v, s, early).early = early
BY DEF NewRow, ShelfRow

\* A row that becomes top gets a place behind all others.
LEMMA NextPlace ==
    ASSUME NEW rows \in Seq(ShelfRow)
    PROVE /\ NextTop(rows) \in Nat
          /\ \A i \in DOMAIN rows : rows[i].isTop => rows[i].topOrder < NextTop(rows)
<1> DEFINE f == [i \in DOMAIN rows |-> rows[i].topOrder]
<1> DEFINE S == {i \in DOMAIN rows : rows[i].isTop}
<1>1. PICK n \in Nat : n = Len(rows) OBVIOUS
<1>2. DOMAIN rows = 1..n BY <1>1
<1>3. \A i \in DOMAIN rows : rows[i] \in ShelfRow OBVIOUS
<1>4. \A i \in 1..n : f[i] \in Nat BY <1>2, <1>3 DEF ShelfRow
<1>5. S \in SUBSET (1..n) BY <1>2
<1>6. TopOrders(rows) = {f[i] : i \in S} BY DEF TopOrders
<1> HIDE DEF f, S
<1>7. /\ Max({0} \cup {f[i] : i \in S}) \in Nat
      /\ \A t \in {0} \cup {f[i] : i \in S} : Max({0} \cup {f[i] : i \in S}) >= t
    BY <1>1, <1>4, <1>5, GreatestPlace
<1>8. /\ Max({0} \cup TopOrders(rows)) \in Nat
      /\ \A t \in TopOrders(rows) : Max({0} \cup TopOrders(rows)) >= t
    BY <1>6, <1>7
<1>9. \A i \in DOMAIN rows : rows[i].isTop => rows[i].topOrder \in TopOrders(rows)
    BY DEF TopOrders
<1>10. \A i \in DOMAIN rows : rows[i].topOrder \in Nat BY <1>3 DEF ShelfRow
<1>11. PICK m \in Nat : /\ m = Max({0} \cup TopOrders(rows))
                        /\ \A t \in TopOrders(rows) : m >= t
    BY <1>8
<1>12. NextTop(rows) = m + 1 BY <1>11 DEF NextTop
<1>13. ASSUME NEW i \in DOMAIN rows, rows[i].isTop PROVE rows[i].topOrder < m + 1
    <2>1. rows[i].topOrder \in Nat /\ m >= rows[i].topOrder BY <1>9, <1>10, <1>11, <1>13
    <2> QED BY <2>1
<1> QED BY <1>12, <1>13

\* A row that is toggled keeps the places of the top rows apart.
LEMMA ToggledRows ==
    ASSUME NEW rows \in Seq(ShelfRow), NEW i \in DOMAIN rows, NEW top \in BOOLEAN,
           NEW new, new = [rows EXCEPT ![i].isTop = top,
                                       ![i].topOrder = IF top THEN NextTop(rows) ELSE 0]
    PROVE /\ new \in Seq(ShelfRow) /\ Len(new) = Len(rows)
          /\ TopsApart(rows) => TopsApart(new)
<1>1. NextTop(rows) \in Nat /\ \A j \in DOMAIN rows : rows[j].isTop =>
          rows[j].topOrder < NextTop(rows)
    BY NextPlace
<1>2. PICK place \in Nat : place = IF top THEN NextTop(rows) ELSE 0 BY <1>1
<1>3. \A j \in DOMAIN rows : rows[j] \in ShelfRow OBVIOUS
<1>4. /\ DOMAIN new = DOMAIN rows
      /\ \A j \in DOMAIN rows : j # i => new[j] = rows[j]
      /\ new[i] = [rows[i] EXCEPT !.isTop = top, !.topOrder = place]
    BY <1>2
<1>5. new[i] \in ShelfRow /\ new[i].isTop = top /\ new[i].topOrder = place
    BY <1>3, <1>4 DEF ShelfRow
<1>6. new \in Seq(ShelfRow) /\ Len(new) = Len(rows)
    <2>1. PICK n \in Nat : n = Len(rows) OBVIOUS
    <2>2. DOMAIN rows = 1..n BY <2>1
    <2>3. \A j \in 1..n : new[j] \in ShelfRow BY <1>3, <1>4, <1>5, <2>2
    <2>4. DOMAIN new = 1..n BY <1>4, <2>2
    <2>5. new \in [1..n -> ShelfRow] BY <1>2, <2>3, <2>4
    <2>6. new \in Seq(ShelfRow) /\ Len(new) = n BY <2>5, FunctionIsList
    <2> QED BY <2>1, <2>6
<1>7. ASSUME TopsApart(rows) PROVE TopsApart(new)
    <2>1. \A j \in DOMAIN rows : rows[j].topOrder \in Nat BY <1>3 DEF ShelfRow
    <2> QED BY <1>1, <1>2, <1>4, <1>5, <1>7, <2>1 DEF TopsApart
<1> QED BY <1>6, <1>7

\* What the import panel offers are goods.
LEMMA ImportableGoods == Importable \subseteq Goods
BY DEF Importable, Unlisted, Plain

\* A finite set is listed without repetition.
LEMMA SetListed ==
    ASSUME NEW S, IsFiniteSet(S)
    PROVE /\ Cardinality(S) \in Nat /\ SetToSeq(S) \in [1 .. Cardinality(S) -> S]
          /\ \A i, j \in 1 .. Cardinality(S) : SetToSeq(S)[i] = SetToSeq(S)[j] => i = j
<1>1. Cardinality(S) \in Nat /\ ExistsBijection(1 .. Cardinality(S), S)
    BY FS_CardinalityType
<1>2. \E f \in [1 .. Cardinality(S) -> S] : IsInjective(f)
    BY <1>1 DEF ExistsBijection, Bijection, Injection
<1>3. SetToSeq(S) \in [1 .. Cardinality(S) -> S] /\ IsInjective(SetToSeq(S))
    BY <1>2 DEF SetToSeq
<1> QED BY <1>1, <1>3 DEF IsInjective

\* The full shelf at the start lists each thing once.
LEMMA FullShelfRows ==
    /\ FullShelf \in Seq(ShelfRow)
    /\ \A i \in DOMAIN FullShelf :
          FullShelf[i].stock = DefaultStock /\ ~FullShelf[i].isTop /\ FullShelf[i].early
    /\ \A i, j \in DOMAIN FullShelf :
          i # j => <<FullShelf[i].good, FullShelf[i].variant>>
                   # <<FullShelf[j].good, FullShelf[j].variant>>
<1> DEFINE S == ((Goods \ {Sorted}) \X {Base}) \cup ({Sorted} \X Sorts)
<1>1. Sorted \in Goods BY ShelfConstants DEF Sorted
<1>2. IsFiniteSet(S)
    <2>1. IsFiniteSet(Goods \ {Sorted}) BY ShelfConstants, FS_Difference
    <2>2. IsFiniteSet({Base}) /\ IsFiniteSet({Sorted}) BY FS_Singleton
    <2>3. IsFiniteSet((Goods \ {Sorted}) \X {Base}) BY <2>1, <2>2, FS_Product
    <2>4. IsFiniteSet({Sorted} \X Sorts) BY <2>2, ShelfConstants, FS_Product
    <2> QED BY <2>3, <2>4, FS_Union
<1>3. \A x \in S : /\ x = <<x[1], x[2]>>
                   /\ x[1] \in Goods /\ x[2] \in Sorts \cup {Base}
    BY <1>1
<1>4. Assortment = SetToSeq(S) BY DEF Assortment
<1> HIDE DEF S
<1>5. PICK n \in Nat : n = Cardinality(S) BY <1>2, SetListed
<1>6. /\ Assortment \in [1..n -> S]
      /\ \A i, j \in 1..n : Assortment[i] = Assortment[j] => i = j
    BY <1>2, <1>4, <1>5, SetListed
<1>7. DOMAIN FullShelf = 1..n BY <1>6 DEF FullShelf
<1>8. ASSUME NEW i \in 1..n
      PROVE /\ Assortment[i] \in S
            /\ Assortment[i][1] \in Goods /\ Assortment[i][2] \in Sorts \cup {Base}
            /\ Assortment[i] = <<Assortment[i][1], Assortment[i][2]>>
            /\ FullShelf[i] = NewRow(Assortment[i][1], Assortment[i][2], DefaultStock, TRUE)
    BY <1>3, <1>6 DEF FullShelf
<1>9. PICK early \in BOOLEAN : early = TRUE OBVIOUS
<1>10. ASSUME NEW i \in 1..n
       PROVE /\ FullShelf[i] \in ShelfRow
             /\ FullShelf[i].good = Assortment[i][1] /\ FullShelf[i].variant = Assortment[i][2]
             /\ FullShelf[i].stock = DefaultStock /\ ~FullShelf[i].isTop /\ FullShelf[i].early
    <2>1. PICK g \in Goods, v \in Sorts \cup {Base} :
            g = Assortment[i][1] /\ v = Assortment[i][2]
        BY <1>8
    <2>2. FullShelf[i] = NewRow(g, v, DefaultStock, early) BY <1>8, <1>9, <2>1
    <2>3. /\ NewRow(g, v, DefaultStock, early) \in ShelfRow
          /\ NewRow(g, v, DefaultStock, early).good = g
          /\ NewRow(g, v, DefaultStock, early).variant = v
          /\ NewRow(g, v, DefaultStock, early).stock = DefaultStock
          /\ ~NewRow(g, v, DefaultStock, early).isTop
          /\ NewRow(g, v, DefaultStock, early).early = early
        BY ShelfConstants, RowMade
    <2> QED BY <1>9, <2>1, <2>2, <2>3
<1>11. FullShelf \in [1..n -> ShelfRow] BY <1>7, <1>10 DEF FullShelf
<1>12. FullShelf \in Seq(ShelfRow) BY <1>11, FunctionIsList
<1>13. ASSUME NEW i \in 1..n, NEW j \in 1..n, i # j
       PROVE <<FullShelf[i].good, FullShelf[i].variant>>
             # <<FullShelf[j].good, FullShelf[j].variant>>
    <2>1. Assortment[i] # Assortment[j] BY <1>6, <1>13
    <2>2. /\ Assortment[i] = <<FullShelf[i].good, FullShelf[i].variant>>
          /\ Assortment[j] = <<FullShelf[j].good, FullShelf[j].variant>>
        BY <1>8, <1>10
    <2> QED BY <2>1, <2>2
<1> QED BY <1>7, <1>10, <1>12, <1>13

\* The invariant holds at the start.
LEMMA ShelfStarts == ShelfInit => ShelfInv
<1> SUFFICES ASSUME ShelfInit PROVE ShelfInv OBVIOUS
<1> USE ShelfConstants
<1>1. shelf \in Seq(ShelfRow)
    <2>1. <<>> \in Seq(ShelfRow) OBVIOUS
    <2> QED BY <2>1, FullShelfRows DEF ShelfInit
<1>2. /\ \A i \in DOMAIN shelf :
            shelf[i].stock = DefaultStock /\ ~shelf[i].isTop /\ shelf[i].early
      /\ ListedOnce
    BY FullShelfRows DEF ShelfInit, ListedOnce
<1>3. PICK n \in Nat : n = Len(shelf) BY <1>1
<1>4. DOMAIN shelf = 1..n BY <1>1, <1>3
<1>5. tally = [i \in 1..n |-> DefaultStock] BY <1>4 DEF ShelfInit
<1>6. tally \in Seq(Nat) /\ Len(tally) = n
    <2>1. tally \in [1..n -> Nat] BY <1>5
    <2> QED BY <2>1, FunctionIsList
<1>7. PICK q \in Panels :
        desks = [p \in Opened |-> [Panel(q) EXCEPT !.rows = shelf, !.items = Importable]]
    BY DEF ShelfInit
<1>8. PICK d : d = [Panel(q) EXCEPT !.rows = shelf, !.items = Importable] OBVIOUS
<1>9. d \in DeskState /\ d.rows = shelf /\ d.busy = 0
    <2>1. PICK e \in DeskState : e = Panel(q) /\ e.busy = 0 BY PanelTyped
    <2>2. PICK new \in SUBSET Goods : new = Importable BY ImportableGoods
    <2>3. d = [e EXCEPT !.rows = shelf, !.items = new] BY <1>8, <2>1, <2>2
    <2> QED BY <1>1, <2>1, <2>3 DEF DeskState
<1>10. desks = [p \in Opened |-> d] BY <1>7, <1>8
<1>11. desks \in [Opened -> DeskState] /\ \A p \in Opened : desks[p] = d
    BY <1>9, <1>10
<1>12. \A p \in Opened : DeskTyped(p) BY <1>3, <1>9, <1>11 DEF DeskTyped
<1>13. Goods \in SUBSET Goods /\ {} \in SUBSET Goods /\ {Sorted} \in SUBSET Goods
    BY DEF Sorted
<1>14. catalog \in [active : SUBSET Goods, varied : SUBSET Goods]
    BY <1>13 DEF ShelfInit
<1>15. shelfManner \in ShelfManners /\ sheets = {} /\ shelfActs = 0 BY DEF ShelfInit
<1>16. MaxShelfActs[shelfManner] \in Nat BY <1>15, ShelfActsBound
<1>17. ShelfTyped
    BY <1>1, <1>3, <1>6, <1>11, <1>12, <1>14, <1>15, <1>16 DEF ShelfTyped
<1>18. TopsApart(shelf) /\ TopCount(shelf) <= MaxTop
    <2>1. {i \in DOMAIN shelf : shelf[i].isTop} = {} BY <1>2
    <2>2. TopCount(shelf) = 0 BY <2>1, FS_EmptySet DEF TopCount
    <2> QED BY <1>2, <2>2 DEF TopsApart
<1>19. \A i \in DOMAIN shelf : Tallied(i) BY <1>2, <1>4, <1>5 DEF Tallied
<1>20. desks[TheOne].rows = shelf BY <1>9, <1>11, OnePage
<1>21. CalmShelf BY <1>15, <1>18, <1>19, <1>20 DEF CalmShelf, CalmPages, AllTops
<1> QED BY <1>2, <1>15, <1>17, <1>21 DEF ShelfInv, WholeWasPlain

\* The parts of the types, as the proofs cite them.
LEMMA ShelfFacts ==
    ASSUME ShelfInv
    PROVE /\ shelf \in Seq(ShelfRow) /\ tally \in Seq(Nat) /\ Len(shelf) \in Nat
          /\ DOMAIN shelf = 1 .. Len(shelf) /\ DOMAIN tally = DOMAIN shelf
          /\ \A i \in DOMAIN shelf : shelf[i] \in ShelfRow /\ tally[i] \in Nat
          /\ \A p \in Opened : desks[p] \in DeskState /\ DeskTyped(p)
          /\ \A c \in sheets : c \in SheetState /\ SheetTyped(c) /\ PlainHeld(c)
          /\ shelfManner \in ShelfManners
          /\ shelfActs \in Nat /\ MaxShelfActs[shelfManner] \in Nat
          /\ catalog.active \subseteq Goods /\ catalog.varied \subseteq Goods
<1>1. shelf \in Seq(ShelfRow) /\ tally \in Seq(Nat) /\ Len(tally) = Len(shelf)
    BY DEF ShelfInv, ShelfTyped
<1>2. shelfManner \in ShelfManners BY DEF ShelfInv, ShelfTyped
<1>3. MaxShelfActs[shelfManner] \in Nat BY <1>2, ShelfActsBound
<1>4. shelfActs \in Nat BY <1>3 DEF ShelfInv, ShelfTyped
<1>5. /\ \A p \in Opened : desks[p] \in DeskState /\ DeskTyped(p)
      /\ \A c \in sheets : c \in SheetState /\ SheetTyped(c) /\ PlainHeld(c)
      /\ catalog.active \subseteq Goods /\ catalog.varied \subseteq Goods
    BY DEF ShelfInv, ShelfTyped
<1>6. /\ Len(shelf) \in Nat /\ DOMAIN shelf = 1 .. Len(shelf) /\ DOMAIN tally = DOMAIN shelf
      /\ \A i \in DOMAIN shelf : shelf[i] \in ShelfRow /\ tally[i] \in Nat
    BY <1>1
<1> QED BY <1>1, <1>2, <1>3, <1>4, <1>5, <1>6

\* One page changes.
LEMMA DeskMoves ==
    ASSUME ShelfInv, NEW p \in Opened, NEW d \in DeskState, desks' = [desks EXCEPT ![p] = d],
           Len(d.rows) <= Len(shelf), d.busy <= Len(shelf), Len(shelf) <= Len(shelf')
    PROVE desks' \in [Opened -> DeskState] /\ \A q \in Opened : DeskTyped(q)'
<1>1. desks \in [Opened -> DeskState] BY DEF ShelfInv, ShelfTyped
<1>2. desks' \in [Opened -> DeskState] BY <1>1
<1>3. \A q \in Opened : desks'[q] = IF q = p THEN d ELSE desks[q] BY <1>1
<1>4. ASSUME NEW q \in Opened
      PROVE Len(desks'[q].rows) <= Len(shelf') /\ desks'[q].busy <= Len(shelf')
    <2>1. \A e \in DeskState : Len(e.rows) \in Nat /\ e.busy \in Nat BY DEF DeskState
    <2>2. PICK n \in Nat : n = Len(shelf) BY ShelfFacts
    <2>3. CASE q = p BY <1>3, <2>1, <2>2, <2>3
    <2>4. CASE q # p
        <3>1. desks[q] \in DeskState /\ DeskTyped(q) BY ShelfFacts
        <3> QED BY <1>3, <2>1, <2>2, <2>4, <3>1 DEF DeskTyped
    <2> QED BY <2>3, <2>4
<1> QED BY <1>2, <1>4 DEF DeskTyped

\* One request is made, changes or ends.
LEMMA SheetMoves ==
    ASSUME ShelfInv, NEW d \in SheetState, sheets' \subseteq sheets \cup {d},
           SheetTyped(d), PlainHeld(d)
    PROVE sheets' \subseteq SheetState /\ \A c \in sheets' : SheetTyped(c) /\ PlainHeld(c)
BY ShelfFacts

\* The steps of pages and requests that leave the tables and the tally alone.
LEMMA PagesMove ==
    ASSUME ShelfInv, UNCHANGED <<shelfManner, catalog, shelf, tally>>,
           desks' \in [Opened -> DeskState], \A p \in Opened : DeskTyped(p)',
           sheets' \subseteq SheetState, \A c \in sheets' : SheetTyped(c) /\ PlainHeld(c),
           shelfActs' \in 0 .. MaxShelfActs[shelfManner],
           shelfManner = "calm" => CalmPages'
    PROVE ShelfInv'
<1>1. ShelfTyped'
    <2>1. \A c \in sheets' : SheetTyped(c)' BY DEF SheetTyped
    <2> QED BY <2>1 DEF ShelfInv, ShelfTyped
<1>2. ListedOnce' /\ WholeWasPlain' BY DEF ShelfInv, ListedOnce, WholeWasPlain
<1>3. \A c \in sheets' : PlainHeld(c)' BY DEF PlainHeld
<1>4. CalmShelf' BY DEF ShelfInv, CalmShelf, TopCount, TopsApart
<1> QED BY <1>1, <1>2, <1>3, <1>4 DEF ShelfInv

\* In calm use at most one request is on its way, made by the one page.
LEMMA CalmLone ==
    ASSUME ShelfInv, shelfManner = "calm", NEW c \in sheets
    PROVE /\ sheets = {c} /\ CalmSheet(c) /\ c.page = TheOne /\ c.page # Gone
          /\ CalmPages /\ TopCount(shelf) <= MaxTop /\ TopsApart(shelf)
<1>1. CalmPages /\ TopCount(shelf) <= MaxTop /\ TopsApart(shelf)
    BY DEF ShelfInv, CalmShelf
<1>2. sheets = {c} /\ CalmSheet(c) BY <1>1 DEF CalmPages
<1>3. TheOne # Gone BY OnePage, ShelfConstants DEF Gone
<1> QED BY <1>1, <1>2, <1>3 DEF CalmSheet

\* In calm use, after a step that leaves one request on its way, and after one that leaves none.
LEMMA CalmOneLeft ==
    ASSUME NEW d, sheets' = {d}, CalmSheet(d)',
           \A i \in DOMAIN shelf' :
              shelf'[i].stock = tally'[i] \/ (d.kind = "patch" /\ d.at = "sent" /\ d.row = i)
    PROVE CalmPages'
<1>1. /\ \A c, e \in sheets' : c = e
      /\ \A c \in sheets' : CalmSheet(c)'
      /\ sheets' # {}
    OBVIOUS
<1>2. \A i \in DOMAIN shelf' : Tallied(i)' BY DEF Tallied
<1> QED BY <1>1, <1>2 DEF CalmPages

LEMMA CalmNoneLeft ==
    ASSUME sheets' = {}, \A i \in DOMAIN shelf' : shelf'[i].stock = tally'[i],
           desks'[TheOne].panel \in {"mine", "stock"} => desks'[TheOne].rows = shelf',
           desks'[TheOne].panel = "top" => AllTops(desks[TheOne].rows)'
    PROVE CalmPages'
BY DEF CalmPages, Tallied

\* In calm use the stocks are the tally, unless a tap is on its way.
LEMMA CalmStocks ==
    ASSUME ShelfInv, shelfManner = "calm",
           \A c \in sheets : c.kind # "patch" \/ c.at # "sent"
    PROVE \A i \in DOMAIN shelf : shelf[i].stock = tally[i]
BY DEF ShelfInv, CalmShelf, CalmPages, Tallied

\* The step of one request at its server: the pages stand still.
LEMMA ServerMoves ==
    ASSUME ShelfInv, NEW c \in sheets, NEW d \in SheetState,
           UNCHANGED <<shelfManner, catalog, shelf, desks, tally, shelfActs>>,
           Becomes(c, d), SheetTyped(d), PlainHeld(d), d.page = c.page,
           c.kind # "patch", d.kind # "patch",
           shelfManner = "calm" => CalmSheet(d)
    PROVE ShelfInv'
<1>1. sheets' = (sheets \ {c}) \cup {d} BY DEF Becomes
<1>2. sheets' \subseteq SheetState /\ \A e \in sheets' : SheetTyped(e) /\ PlainHeld(e)
    BY <1>1, SheetMoves
<1>3. desks' \in [Opened -> DeskState] /\ \A p \in Opened : DeskTyped(p)'
    BY DEF ShelfInv, ShelfTyped, DeskTyped
<1>4. shelfActs' \in 0 .. MaxShelfActs[shelfManner] BY DEF ShelfInv, ShelfTyped
<1>5. ASSUME shelfManner = "calm" PROVE CalmPages'
    <2>1. sheets' = {d} BY <1>1, <1>5, CalmLone
    <2>2. CalmSheet(d)' BY <1>5 DEF CalmSheet, AllTops, TopsApart
    <2>3. \A e \in sheets : e.kind # "patch" BY <1>5, CalmLone
    <2>4. \A i \in DOMAIN shelf : shelf[i].stock = tally[i] BY <1>5, <2>3, CalmStocks
    <2> QED BY <2>1, <2>2, <2>4, CalmOneLeft
<1> QED BY <1>2, <1>3, <1>4, <1>5, PagesMove

\* The loads.
LEMMA LoadReadsKept == ASSUME ShelfInv, NEW c \in sheets, LoadReads(c) PROVE ShelfInv'
<1>1. c \in SheetState /\ SheetTyped(c) /\ PlainHeld(c) /\ c.kind = "load"
    BY ShelfFacts DEF LoadReads
<1>2. PICK new \in SUBSET Goods : new = Importable BY ImportableGoods
<1>3. PICK rows \in Seq(ShelfRow) : rows = shelf BY ShelfFacts
<1>4. PICK d : d = [c EXCEPT !.at = "read", !.rows = rows, !.goods = new] OBVIOUS
<1>5. /\ d \in SheetState /\ d.page = c.page /\ d.kind = "load" /\ d.at = "read"
      /\ d.rows = rows /\ d.row = c.row /\ d.plain = c.plain /\ d.goods = new
    BY <1>1, <1>4 DEF SheetState
<1>6. Becomes(c, d) /\ UNCHANGED <<shelfManner, catalog, shelf, desks, tally, shelfActs>>
    BY <1>2, <1>3, <1>4 DEF LoadReads
<1>7. SheetTyped(d) /\ PlainHeld(d)
    <2>1. Len(rows) <= Len(shelf) BY <1>3
    <2> QED BY <1>1, <1>5, <2>1 DEF SheetTyped, PlainHeld
<1>8. shelfManner = "calm" => CalmSheet(d) BY <1>3, <1>5, CalmLone DEF CalmSheet
<1> QED BY <1>1, <1>5, <1>6, <1>7, <1>8, ServerMoves

LEMMA LoadAnsweredKept == ASSUME ShelfInv, NEW c \in sheets, LoadAnswered(c) PROVE ShelfInv'
<1>1. /\ c \in SheetState /\ SheetTyped(c) /\ PlainHeld(c)
      /\ c.kind = "load" /\ c.at = "read" /\ sheets' = sheets \ {c}
      /\ UNCHANGED <<shelfManner, catalog, shelf, tally, shelfActs>>
    BY ShelfFacts DEF LoadAnswered, Ends
<1>2. sheets' \subseteq SheetState /\ \A e \in sheets' : SheetTyped(e) /\ PlainHeld(e)
    BY <1>1, SheetMoves
<1>3. shelfActs' \in 0 .. MaxShelfActs[shelfManner] BY <1>1 DEF ShelfInv, ShelfTyped
<1>4. CASE c.page = Gone
    <2>1. desks' = desks BY <1>4 DEF LoadAnswered
    <2>2. desks' \in [Opened -> DeskState] /\ \A p \in Opened : DeskTyped(p)'
        BY <1>1, <2>1 DEF ShelfInv, ShelfTyped, DeskTyped
    <2>3. shelfManner # "calm" BY <1>4, CalmLone
    <2> QED BY <1>1, <1>2, <1>3, <2>2, <2>3, PagesMove
<1>5. CASE c.page # Gone
    <2>1. PICK p \in Opened : p = c.page BY <1>1, <1>5 DEF SheetState
    <2>2. PICK e \in DeskState : e = desks[p] /\ e.busy <= Len(shelf)
        BY ShelfFacts DEF DeskTyped
    <2>3. PICK busy \in Nat : busy = IF c.row # 0 THEN 0 ELSE e.busy BY <2>2 DEF DeskState
    <2>4. PICK d : d = [e EXCEPT !.rows = c.rows, !.items = c.goods, !.loading = FALSE,
                                 !.busy = busy]
        OBVIOUS
    <2>5. d \in DeskState /\ d.rows = c.rows /\ d.busy = busy /\ d.panel = e.panel
        BY <1>1, <2>2, <2>4 DEF DeskState, SheetState
    <2>6. d = LoadShown(desks[p], c) BY <2>2, <2>3, <2>4 DEF LoadShown
    <2>7. desks' = [desks EXCEPT ![p] = d] BY <1>5, <2>1, <2>6 DEF LoadAnswered
    <2>8. /\ Len(d.rows) <= Len(shelf) /\ d.busy <= Len(shelf) /\ Len(shelf) <= Len(shelf')
        BY <1>1, <2>2, <2>3, <2>5, ShelfFacts DEF SheetTyped
    <2>9. desks' \in [Opened -> DeskState] /\ \A q \in Opened : DeskTyped(q)'
        BY <2>5, <2>7, <2>8, DeskMoves
    <2>10. ASSUME shelfManner = "calm" PROVE CalmPages'
        <3>1. /\ sheets = {c} /\ CalmSheet(c) /\ p = TheOne /\ TopsApart(shelf)
            BY <2>1, <2>10, CalmLone
        <3>2. sheets' = {} /\ c.rows = shelf BY <1>1, <3>1 DEF CalmSheet
        <3>3. \A i \in DOMAIN shelf : shelf[i].stock = tally[i]
            BY <1>1, <2>10, <3>1, CalmStocks
        <3>4. desks'[TheOne].rows = shelf
            BY <2>5, <2>7, <3>1, <3>2 DEF ShelfInv, ShelfTyped
        <3>5. AllTops(desks[TheOne].rows)' BY <1>1, <3>1, <3>4 DEF AllTops, TopsApart
        <3> QED BY <1>1, <3>2, <3>3, <3>4, <3>5, CalmNoneLeft
    <2> QED BY <1>1, <1>2, <1>3, <2>9, <2>10, PagesMove
<1> QED BY <1>4, <1>5

\* The answers to a tap.
LEMMA PatchAnsweredKept == ASSUME ShelfInv, NEW c \in sheets, PatchAnswered(c) PROVE ShelfInv'
<1>1. /\ c \in SheetState /\ SheetTyped(c) /\ PlainHeld(c)
      /\ c.kind = "patch" /\ c.at = "landed"
      /\ UNCHANGED <<shelfManner, catalog, shelf, tally, shelfActs>>
    BY ShelfFacts DEF PatchAnswered
<1>2. shelfActs' \in 0 .. MaxShelfActs[shelfManner] BY <1>1 DEF ShelfInv, ShelfTyped
<1>3. CASE c.page = Gone
    <2>1. desks' = desks /\ sheets' = sheets \ {c} BY <1>3 DEF PatchAnswered, Ends
    <2>2. desks' \in [Opened -> DeskState] /\ \A p \in Opened : DeskTyped(p)'
        BY <1>1, <2>1 DEF ShelfInv, ShelfTyped, DeskTyped
    <2>3. shelfManner # "calm" BY <1>3, CalmLone
    <2>4. sheets' \subseteq SheetState /\ \A e \in sheets' : SheetTyped(e) /\ PlainHeld(e)
        BY <1>1, <2>1, SheetMoves
    <2> QED BY <1>1, <1>2, <2>2, <2>3, <2>4, PagesMove
<1>4. CASE c.page # Gone
    <2>1. PICK p \in Opened : p = c.page BY <1>1, <1>4 DEF SheetState
    <2>2. PICK k : k = [c EXCEPT !.kind = "load", !.at = "sent"] OBVIOUS
    <2>3. /\ k \in SheetState /\ k.kind = "load" /\ k.at = "sent" /\ k.page = c.page
          /\ k.row = c.row /\ k.rows = c.rows
        BY <1>1, <2>2 DEF SheetState
    <2>4. SheetTyped(k) /\ PlainHeld(k) BY <1>1, <2>3 DEF SheetTyped, PlainHeld
    <2>5. PICK e \in DeskState : e = desks[p] /\ DeskTyped(p) BY ShelfFacts
    <2>6. PICK d : d = [e EXCEPT !.loading = TRUE] OBVIOUS
    <2>7. d \in DeskState /\ d.rows = e.rows /\ d.busy = e.busy BY <2>5, <2>6 DEF DeskState
    <2>8. desks' = [desks EXCEPT ![p] = d] /\ sheets' = (sheets \ {c}) \cup {k}
        BY <1>4, <2>1, <2>2, <2>5, <2>6 DEF PatchAnswered, Becomes, Desk
    <2>9. Len(d.rows) <= Len(shelf) /\ d.busy <= Len(shelf) /\ Len(shelf) <= Len(shelf')
        BY <1>1, <2>5, <2>7, ShelfFacts DEF DeskTyped
    <2>10. desks' \in [Opened -> DeskState] /\ \A q \in Opened : DeskTyped(q)'
        BY <2>7, <2>8, <2>9, DeskMoves
    <2>11. sheets' \subseteq SheetState /\ \A e2 \in sheets' : SheetTyped(e2) /\ PlainHeld(e2)
        BY <2>3, <2>4, <2>8, SheetMoves
    <2>12. ASSUME shelfManner = "calm" PROVE CalmPages'
        <3>1. sheets' = {k} /\ c.page = TheOne BY <2>8, <2>12, CalmLone
        <3>2. CalmSheet(k)' BY <2>3, <3>1 DEF CalmSheet
        <3>3. \A i \in DOMAIN shelf : shelf[i].stock = tally[i]
            BY <1>1, <2>12, CalmLone, CalmStocks
        <3> QED BY <1>1, <3>1, <3>2, <3>3, CalmOneLeft
    <2> QED BY <1>1, <1>2, <2>10, <2>11, <2>12, PagesMove
<1> QED BY <1>3, <1>4

LEMMA PatchLostKept == ASSUME ShelfInv, NEW c \in sheets, PatchLost(c) PROVE ShelfInv'
<1>1. /\ c \in SheetState /\ SheetTyped(c) /\ PlainHeld(c)
      /\ shelfManner = "hasty" /\ sheets' = sheets \ {c}
      /\ UNCHANGED <<shelfManner, catalog, shelf, tally, shelfActs>>
    BY ShelfFacts DEF PatchLost, Ends
<1>2. sheets' \subseteq SheetState /\ \A e \in sheets' : SheetTyped(e) /\ PlainHeld(e)
    BY <1>1, SheetMoves
<1>3. shelfActs' \in 0 .. MaxShelfActs[shelfManner] BY <1>1 DEF ShelfInv, ShelfTyped
<1>4. desks' \in [Opened -> DeskState] /\ \A p \in Opened : DeskTyped(p)'
    <2>1. CASE c.page = Gone
        <3>1. desks' = desks BY <2>1 DEF PatchLost
        <3> QED BY <1>1, <3>1 DEF ShelfInv, ShelfTyped, DeskTyped
    <2>2. CASE c.page # Gone
        <3>1. PICK p \in Opened : p = c.page BY <1>1, <2>2 DEF SheetState
        <3>2. PICK e \in DeskState : e = desks[p] /\ DeskTyped(p) BY ShelfFacts
        <3>3. PICK d : d = [e EXCEPT !.busy = 0] OBVIOUS
        <3>4. d \in DeskState /\ d.rows = e.rows /\ d.busy = 0 BY <3>2, <3>3 DEF DeskState
        <3>5. desks' = [desks EXCEPT ![p] = d] BY <2>2, <3>1, <3>2, <3>3 DEF PatchLost
        <3>6. Len(d.rows) <= Len(shelf) /\ d.busy <= Len(shelf) /\ Len(shelf) <= Len(shelf')
            BY <1>1, <3>2, <3>4, ShelfFacts DEF DeskTyped
        <3> QED BY <3>4, <3>5, <3>6, DeskMoves
    <2> QED BY <2>1, <2>2
<1> QED BY <1>1, <1>2, <1>3, <1>4, PagesMove

\* A page that is used: the one page when calm, with nothing on its way.
LEMMA UsableFacts ==
    ASSUME ShelfInv, NEW p \in Opened, Usable(p)
    PROVE /\ shelfActs + 1 \in 0 .. MaxShelfActs[shelfManner]
          /\ shelfManner = "calm" =>
                /\ sheets = {} /\ p = TheOne /\ TopsApart(shelf)
                /\ \A i \in DOMAIN shelf : shelf[i].stock = tally[i]
                /\ desks[p].panel \in {"mine", "stock"} => desks[p].rows = shelf
                /\ desks[p].panel = "top" => AllTops(desks[p].rows)
<1>1. shelfActs + 1 \in 0 .. MaxShelfActs[shelfManner] BY ShelfFacts DEF Usable
<1>2. ASSUME shelfManner = "calm"
      PROVE /\ sheets = {} /\ p = TheOne /\ TopsApart(shelf)
            /\ \A i \in DOMAIN shelf : shelf[i].stock = tally[i]
            /\ desks[p].panel \in {"mine", "stock"} => desks[p].rows = shelf
            /\ desks[p].panel = "top" => AllTops(desks[p].rows)
    <2>1. sheets = {} /\ p = TheOne BY <1>2 DEF Usable
    <2>2. CalmPages /\ TopsApart(shelf) BY <1>2 DEF ShelfInv, CalmShelf
    <2>3. \A i \in DOMAIN shelf : shelf[i].stock = tally[i] BY <1>2, <2>1, CalmStocks
    <2> QED BY <2>1, <2>2, <2>3 DEF CalmPages
<1> QED BY <1>1, <1>2

\* A page sends a request.
LEMMA PageSends ==
    ASSUME ShelfInv, NEW p \in Opened, Usable(p), UNCHANGED <<shelfManner, catalog, shelf, tally>>,
           NEW d \in DeskState, desks' = [desks EXCEPT ![p] = d],
           Len(d.rows) <= Len(shelf), d.busy <= Len(shelf),
           NEW k \in SheetState, Send(k), SheetTyped(k), PlainHeld(k),
           k.kind # "patch",
           shelfManner = "calm" => CalmSheet(k)'
    PROVE ShelfInv'
<1>1. sheets' = sheets \cup {k} /\ shelfActs' = shelfActs + 1 BY DEF Send
<1>2. Len(shelf) <= Len(shelf') BY ShelfFacts
<1>3. desks' \in [Opened -> DeskState] /\ \A q \in Opened : DeskTyped(q)'
    BY <1>2, DeskMoves
<1>4. sheets' \subseteq SheetState /\ \A e \in sheets' : SheetTyped(e) /\ PlainHeld(e)
    BY <1>1, SheetMoves
<1>5. shelfActs' \in 0 .. MaxShelfActs[shelfManner] BY <1>1, UsableFacts
<1>6. ASSUME shelfManner = "calm" PROVE CalmPages'
    <2>1. sheets' = {k} /\ \A i \in DOMAIN shelf : shelf[i].stock = tally[i]
        BY <1>1, <1>6, UsableFacts
    <2> QED BY <1>6, <2>1, CalmOneLeft
<1> QED BY <1>3, <1>4, <1>5, <1>6, PagesMove

LEMMA OpenPanelKept ==
    ASSUME ShelfInv, NEW p \in Opened, NEW q \in Panels, OpenPanel(p, q) PROVE ShelfInv'
<1> DEFINE Left(c) == c.page = p /\ ~(c.kind = "import" /\ {desks[p].panel, q} = Catalogue)
<1> DEFINE After(c) == IF Left(c) THEN [c EXCEPT !.page = Gone] ELSE c
<1>1. /\ Usable(p) /\ shelfActs' = shelfActs + 1
      /\ sheets' = {After(c) : c \in sheets} \cup {Sheet(p, "load")}
      /\ desks' = [desks EXCEPT ![p] = [Panel(q) EXCEPT !.loading = TRUE]]
      /\ UNCHANGED <<shelfManner, catalog, shelf, tally>>
    BY DEF OpenPanel, Desk
<1>2. ASSUME NEW c \in sheets
      PROVE After(c) \in SheetState /\ SheetTyped(After(c)) /\ PlainHeld(After(c))
    <2>1. c \in SheetState /\ SheetTyped(c) /\ PlainHeld(c) BY ShelfFacts
    <2>2. PICK d : d = [c EXCEPT !.page = Gone] OBVIOUS
    <2>3. d \in SheetState /\ d.row = c.row /\ d.rows = c.rows /\ d.kind = c.kind
          /\ d.at = c.at /\ d.plain = c.plain /\ d.goods = c.goods /\ d.variant = c.variant
        BY <2>1, <2>2 DEF SheetState
    <2>4. SheetTyped(d) /\ PlainHeld(d) BY <2>1, <2>3 DEF SheetTyped, PlainHeld
    <2>5. After(c) = d \/ After(c) = c BY <2>2
    <2> QED BY <2>1, <2>3, <2>4, <2>5
<1> HIDE DEF After
<1>3. PICK k \in SheetState : /\ k = Sheet(p, "load") /\ k.page = p /\ k.kind = "load"
                              /\ k.at = "sent" /\ k.row = 0 /\ k.rows = <<>>
    BY SheetMade DEF ShelfInv
<1>4. SheetTyped(k) /\ PlainHeld(k) BY <1>3, ShelfFacts DEF SheetTyped, PlainHeld
<1>5. sheets' \subseteq SheetState /\ \A e \in sheets' : SheetTyped(e) /\ PlainHeld(e)
    BY <1>1, <1>2, <1>3, <1>4
<1>6. PICK e \in DeskState : /\ e = Panel(q) /\ e.rows = <<>> /\ e.busy = 0 BY PanelTyped
<1>7. PICK d : d = [e EXCEPT !.loading = TRUE] OBVIOUS
<1>8. d \in DeskState /\ d.rows = <<>> /\ d.busy = 0 BY <1>6, <1>7 DEF DeskState
<1>9. desks' = [desks EXCEPT ![p] = d] BY <1>1, <1>6, <1>7
<1>10. Len(d.rows) <= Len(shelf) /\ d.busy <= Len(shelf) /\ Len(shelf) <= Len(shelf')
    BY <1>1, <1>8, ShelfFacts
<1>11. desks' \in [Opened -> DeskState] /\ \A r \in Opened : DeskTyped(r)'
    BY <1>8, <1>9, <1>10, DeskMoves
<1>12. shelfActs' \in 0 .. MaxShelfActs[shelfManner] BY <1>1, UsableFacts
<1>13. ASSUME shelfManner = "calm" PROVE CalmPages'
    <2>1. /\ sheets = {} /\ p = TheOne
          /\ \A i \in DOMAIN shelf : shelf[i].stock = tally[i]
        BY <1>1, <1>13, UsableFacts
    <2>2. sheets' = {k} BY <1>1, <1>3, <2>1
    <2>3. CalmSheet(k)' BY <1>3, <2>1 DEF CalmSheet
    <2> QED BY <1>1, <2>1, <2>2, <2>3, CalmOneLeft
<1> QED BY <1>1, <1>5, <1>11, <1>12, <1>13, PagesMove

\* The top listings.
LEMMA ToggleTopKept ==
    ASSUME ShelfInv, NEW p \in Opened, NEW i \in DOMAIN desks[p].rows, ToggleTop(p, i)
    PROVE ShelfInv'
<1>1. PICK e \in DeskState : e = desks[p] /\ DeskTyped(p) BY ShelfFacts
<1>2. e.rows \in Seq(ShelfRow) /\ i \in DOMAIN e.rows BY <1>1 DEF DeskState
<1>3. e.rows[i] \in ShelfRow BY <1>2
<1>4. PICK top \in BOOLEAN : top = ~e.rows[i].isTop OBVIOUS
<1>5. PICK rows : rows = [e.rows EXCEPT ![i].isTop = top,
                                        ![i].topOrder = IF top THEN NextTop(e.rows) ELSE 0]
    OBVIOUS
<1>6. /\ rows \in Seq(ShelfRow) /\ Len(rows) = Len(e.rows)
      /\ TopsApart(e.rows) => TopsApart(rows)
    BY <1>2, <1>5, ToggledRows, ZenonT(60)
<1>7. PICK d : d = [e EXCEPT !.rows = rows] OBVIOUS
<1>8. d \in DeskState /\ d.rows = rows /\ d.busy = e.busy /\ d.panel = e.panel
    BY <1>6, <1>7 DEF DeskState
<1>9. d = [e EXCEPT !.rows[i].isTop = top,
                    !.rows[i].topOrder = IF top THEN NextTop(e.rows) ELSE 0]
    BY <1>2, <1>5, <1>7 DEF DeskState
<1>10. /\ desks' = [desks EXCEPT ![p] = d] /\ Usable(p) /\ e.panel = "top"
       /\ shelfActs' = shelfActs + 1
       /\ UNCHANGED <<shelfManner, catalog, shelf, sheets, tally>>
    BY <1>1, <1>4, <1>9 DEF ToggleTop, Ready, Desk
<1>11. Len(d.rows) <= Len(shelf) /\ d.busy <= Len(shelf) /\ Len(shelf) <= Len(shelf')
    BY <1>1, <1>6, <1>8, <1>10, ShelfFacts DEF DeskTyped
<1>12. desks' \in [Opened -> DeskState] /\ \A r \in Opened : DeskTyped(r)'
    BY <1>8, <1>10, <1>11, DeskMoves
<1>13. sheets' \subseteq SheetState /\ \A c \in sheets' : SheetTyped(c) /\ PlainHeld(c)
    BY <1>10, ShelfFacts
<1>14. shelfActs' \in 0 .. MaxShelfActs[shelfManner] BY <1>10, UsableFacts
<1>15. ASSUME shelfManner = "calm" PROVE CalmPages'
    <2>1. /\ sheets' = {} /\ p = TheOne /\ AllTops(e.rows)
          /\ \A j \in DOMAIN shelf : shelf[j].stock = tally[j]
        BY <1>1, <1>10, <1>15, UsableFacts
    <2>2. desks'[TheOne] = d BY <1>10, <2>1 DEF ShelfInv, ShelfTyped
    <2>3. Len(rows) = Len(shelf') /\ TopsApart(rows) BY <1>6, <1>10, <2>1 DEF AllTops
    <2>4. AllTops(desks[TheOne].rows)' BY <1>8, <2>2, <2>3 DEF AllTops, TopsApart
    <2>5. desks'[TheOne].panel = "top" BY <1>8, <1>10, <2>2
    <2> QED BY <1>10, <2>1, <2>4, <2>5, CalmNoneLeft
<1> QED BY <1>10, <1>12, <1>13, <1>14, <1>15, PagesMove

LEMMA SaveTopKept == ASSUME ShelfInv, NEW p \in Opened, SaveTop(p) PROVE ShelfInv'
<1>1. PICK e \in DeskState : e = desks[p] /\ DeskTyped(p) BY ShelfFacts
<1>2. PICK d : d = [e EXCEPT !.saving = TRUE] OBVIOUS
<1>3. d \in DeskState /\ d.rows = e.rows /\ d.busy = e.busy /\ d.panel = e.panel
    BY <1>1, <1>2 DEF DeskState
<1>4. PICK k0 \in SheetState : /\ k0 = Sheet(p, "save") /\ k0.page = p /\ k0.kind = "save"
                               /\ k0.at = "sent" /\ k0.row = 0
    BY SheetMade DEF ShelfInv
<1>5. PICK k : k = [k0 EXCEPT !.rows = e.rows] OBVIOUS
<1>6. /\ k \in SheetState /\ k.page = p /\ k.kind = "save" /\ k.at = "sent" /\ k.row = 0
      /\ k.rows = e.rows
    BY <1>1, <1>4, <1>5 DEF SheetState, DeskState
<1>7. /\ Usable(p) /\ e.panel = "top" /\ desks' = [desks EXCEPT ![p] = d] /\ Send(k)
      /\ UNCHANGED <<shelfManner, catalog, shelf, tally>>
    BY <1>1, <1>2, <1>4, <1>5 DEF SaveTop, Ready, Desk
<1>8. Len(e.rows) <= Len(shelf) /\ e.busy <= Len(shelf) BY <1>1 DEF DeskTyped
<1>9. SheetTyped(k) /\ PlainHeld(k) BY <1>6, <1>8, ShelfFacts DEF SheetTyped, PlainHeld
<1>10. ASSUME shelfManner = "calm" PROVE CalmSheet(k)'
    <2>1. p = TheOne /\ AllTops(e.rows) BY <1>1, <1>7, <1>10, UsableFacts
    <2>2. desks'[TheOne] = d BY <1>7, <2>1 DEF ShelfInv, ShelfTyped
    <2>3. AllTops(k.rows)' BY <1>6, <1>7, <2>1 DEF AllTops, TopsApart
    <2>4. AllTops(desks[TheOne].rows)' BY <1>3, <1>7, <2>1, <2>2 DEF AllTops, TopsApart
    <2>5. desks'[TheOne].panel = "top" BY <1>3, <1>7, <2>2
    <2> QED BY <1>6, <2>1, <2>3, <2>4, <2>5 DEF CalmSheet
<1> QED BY <1>3, <1>6, <1>7, <1>8, <1>9, <1>10, PageSends

LEMMA SaveReadsKept == ASSUME ShelfInv, NEW c \in sheets, SaveReads(c) PROVE ShelfInv'
<1>1. c \in SheetState /\ SheetTyped(c) /\ PlainHeld(c) /\ c.kind = "save" /\ c.at = "written"
    BY ShelfFacts DEF SaveReads
<1>2. PICK rows \in Seq(ShelfRow) : rows = shelf BY ShelfFacts
<1>3. PICK d : d = [c EXCEPT !.at = "read", !.rows = rows] OBVIOUS
<1>4. /\ d \in SheetState /\ d.page = c.page /\ d.kind = "save" /\ d.at = "read"
      /\ d.rows = rows /\ d.row = c.row
    BY <1>1, <1>3 DEF SheetState
<1>5. Becomes(c, d) /\ UNCHANGED <<shelfManner, catalog, shelf, desks, tally, shelfActs>>
    BY <1>2, <1>3 DEF SaveReads
<1>6. SheetTyped(d) /\ PlainHeld(d)
    <2>1. Len(rows) <= Len(shelf) BY <1>2
    <2> QED BY <1>1, <1>4, <2>1 DEF SheetTyped, PlainHeld
<1>7. shelfManner = "calm" => CalmSheet(d) BY <1>1, <1>2, <1>4, CalmLone DEF CalmSheet
<1> QED BY <1>1, <1>4, <1>5, <1>6, <1>7, ServerMoves

LEMMA SaveAnsweredKept == ASSUME ShelfInv, NEW c \in sheets, SaveAnswered(c) PROVE ShelfInv'
<1>1. /\ c \in SheetState /\ SheetTyped(c) /\ PlainHeld(c)
      /\ c.kind = "save" /\ c.at \in {"refused", "read"} /\ sheets' = sheets \ {c}
      /\ UNCHANGED <<shelfManner, catalog, shelf, tally, shelfActs>>
    BY ShelfFacts DEF SaveAnswered, Ends
<1>2. sheets' \subseteq SheetState /\ \A e \in sheets' : SheetTyped(e) /\ PlainHeld(e)
    BY <1>1, SheetMoves
<1>3. shelfActs' \in 0 .. MaxShelfActs[shelfManner] BY <1>1 DEF ShelfInv, ShelfTyped
<1>4. CASE c.page = Gone
    <2>1. desks' = desks BY <1>4 DEF SaveAnswered
    <2>2. desks' \in [Opened -> DeskState] /\ \A p \in Opened : DeskTyped(p)'
        BY <1>1, <2>1 DEF ShelfInv, ShelfTyped, DeskTyped
    <2>3. shelfManner # "calm" BY <1>4, CalmLone
    <2> QED BY <1>1, <1>2, <1>3, <2>2, <2>3, PagesMove
<1>5. CASE c.page # Gone
    <2>1. PICK p \in Opened : p = c.page BY <1>1, <1>5 DEF SheetState
    <2>2. PICK e \in DeskState : e = desks[p] /\ DeskTyped(p) BY ShelfFacts
    <2>3. PICK rows \in Seq(ShelfRow) : rows = IF c.at = "read" THEN c.rows ELSE e.rows
        BY <1>1, <2>2 DEF DeskState, SheetState
    <2>4. PICK d : d = [e EXCEPT !.saving = FALSE, !.rows = rows] OBVIOUS
    <2>5. d \in DeskState /\ d.rows = rows /\ d.busy = e.busy /\ d.panel = e.panel
        BY <2>2, <2>4 DEF DeskState
    <2>6. desks' = [desks EXCEPT ![p].saving = FALSE,
                                 ![p].rows = IF c.at = "read" THEN c.rows ELSE @]
        BY <1>5, <2>1 DEF SaveAnswered
    <2>7. desks' = [desks EXCEPT ![p] = d]
        BY <2>2, <2>3, <2>4, <2>6 DEF ShelfInv, ShelfTyped, DeskState
    <2>8. /\ Len(d.rows) <= Len(shelf) /\ d.busy <= Len(shelf) /\ Len(shelf) <= Len(shelf')
        BY <1>1, <2>2, <2>3, <2>5, ShelfFacts DEF SheetTyped, DeskTyped
    <2>9. desks' \in [Opened -> DeskState] /\ \A q \in Opened : DeskTyped(q)'
        BY <2>5, <2>7, <2>8, DeskMoves
    <2>10. ASSUME shelfManner = "calm" PROVE CalmPages'
        <3>1. /\ sheets = {c} /\ CalmSheet(c) /\ p = TheOne /\ TopsApart(shelf)
            BY <2>1, <2>10, CalmLone
        <3>2. /\ sheets' = {} /\ e.panel = "top" /\ AllTops(e.rows)
              /\ c.at = "read" => c.rows = shelf
            BY <1>1, <2>2, <3>1 DEF CalmSheet
        <3>3. \A i \in DOMAIN shelf : shelf[i].stock = tally[i]
            BY <1>1, <2>10, <3>1, CalmStocks
        <3>4. desks'[TheOne] = d BY <2>7, <3>1 DEF ShelfInv, ShelfTyped
        <3>5. AllTops(rows) BY <2>3, <3>1, <3>2 DEF AllTops
        <3>6. AllTops(desks[TheOne].rows)'
            BY <1>1, <2>5, <3>4, <3>5 DEF AllTops, TopsApart
        <3>7. desks'[TheOne].panel = "top" BY <2>5, <3>2, <3>4
        <3> QED BY <1>1, <3>2, <3>3, <3>6, <3>7, CalmNoneLeft
    <2> QED BY <1>1, <1>2, <1>3, <2>9, <2>10, PagesMove
<1> QED BY <1>4, <1>5

\* The import, and the request that makes one listing.
LEMMA ImportKept ==
    ASSUME ShelfInv, NEW p \in Opened, NEW chosen \in SUBSET desks[p].items, Import(p, chosen)
    PROVE ShelfInv'
<1>1. PICK e \in DeskState : e = desks[p] /\ DeskTyped(p) BY ShelfFacts
<1>2. PICK d : d = [e EXCEPT !.saving = TRUE] OBVIOUS
<1>3. d \in DeskState /\ d.rows = e.rows /\ d.busy = e.busy /\ d.panel = e.panel
    BY <1>1, <1>2 DEF DeskState
<1>4. chosen \subseteq Goods BY <1>1 DEF DeskState
<1>5. PICK k0 \in SheetState : /\ k0 = Sheet(p, "import") /\ k0.page = p /\ k0.kind = "import"
                               /\ k0.at = "sent" /\ k0.row = 0 /\ k0.rows = <<>>
    BY SheetMade DEF ShelfInv
<1>6. PICK k : k = [k0 EXCEPT !.goods = chosen, !.plain = Goods \ catalog.varied] OBVIOUS
<1>7. /\ k \in SheetState /\ k.page = p /\ k.kind = "import" /\ k.at = "sent" /\ k.row = 0
      /\ k.rows = <<>> /\ k.plain = Goods \ catalog.varied
    BY <1>4, <1>5, <1>6 DEF SheetState
<1>8. /\ Usable(p) /\ e.panel = "import" /\ desks' = [desks EXCEPT ![p] = d] /\ Send(k)
      /\ UNCHANGED <<shelfManner, catalog, shelf, tally>>
    BY <1>1, <1>2, <1>5, <1>6 DEF Import, Ready, Desk
<1>9. Len(e.rows) <= Len(shelf) /\ e.busy <= Len(shelf) BY <1>1 DEF DeskTyped
<1>10. SheetTyped(k) /\ PlainHeld(k) BY <1>7, ShelfFacts DEF SheetTyped, PlainHeld
<1>11. ASSUME shelfManner = "calm" PROVE CalmSheet(k)'
    <2>1. p = TheOne BY <1>8, <1>11, UsableFacts
    <2>2. desks'[TheOne] = d BY <1>8, <2>1 DEF ShelfInv, ShelfTyped
    <2>3. desks'[TheOne].panel = "import" BY <1>3, <1>8, <2>2
    <2> QED BY <1>7, <2>1, <2>3 DEF CalmSheet
<1> QED BY <1>3, <1>7, <1>8, <1>9, <1>10, <1>11, PageSends

LEMMA ImportReadsGoodsKept ==
    ASSUME ShelfInv, NEW c \in sheets, ImportReadsGoods(c) PROVE ShelfInv'
<1>1. c \in SheetState /\ SheetTyped(c) /\ PlainHeld(c) /\ c.kind = "import" /\ c.at = "sent"
    BY ShelfFacts DEF ImportReadsGoods
<1>2. PICK new \in SUBSET Goods : new = Plain(c.goods) BY <1>1 DEF Plain, SheetState
<1>3. new \subseteq c.plain BY <1>1, <1>2 DEF Plain, PlainHeld
<1>4. PICK d : d = [c EXCEPT !.at = "goods", !.goods = new] OBVIOUS
<1>5. /\ d \in SheetState /\ d.page = c.page /\ d.kind = "import" /\ d.at = "goods"
      /\ d.rows = c.rows /\ d.row = c.row /\ d.goods = new /\ d.plain = c.plain
    BY <1>1, <1>4 DEF SheetState
<1>6. d = [c EXCEPT !.at = "goods", !.goods = Plain(@)] BY <1>1, <1>2, <1>4 DEF SheetState
<1>7. Becomes(c, d) /\ UNCHANGED <<shelfManner, catalog, shelf, desks, tally, shelfActs>>
    BY <1>6 DEF ImportReadsGoods
<1>8. SheetTyped(d) /\ PlainHeld(d) BY <1>1, <1>3, <1>5 DEF SheetTyped, PlainHeld
<1>9. shelfManner = "calm" => CalmSheet(d) BY <1>1, <1>5, CalmLone DEF CalmSheet
<1> QED BY <1>1, <1>5, <1>7, <1>8, <1>9, ServerMoves

LEMMA ImportReadsListedKept ==
    ASSUME ShelfInv, NEW c \in sheets, ImportReadsListed(c) PROVE ShelfInv'
<1>1. c \in SheetState /\ SheetTyped(c) /\ PlainHeld(c) /\ c.kind = "import" /\ c.at = "goods"
    BY ShelfFacts DEF ImportReadsListed
<1>2. PICK new \in SUBSET Goods : new = Unlisted(c.goods, Base) /\ new \subseteq c.goods
    BY <1>1 DEF Unlisted, SheetState
<1>3. new \subseteq c.plain BY <1>1, <1>2 DEF PlainHeld
<1>4. PICK d : d = [c EXCEPT !.at = "listed", !.goods = new] OBVIOUS
<1>5. /\ d \in SheetState /\ d.page = c.page /\ d.kind = "import" /\ d.at = "listed"
      /\ d.rows = c.rows /\ d.row = c.row /\ d.goods = new /\ d.plain = c.plain
    BY <1>1, <1>4 DEF SheetState
<1>6. d = [c EXCEPT !.at = "listed", !.goods = Unlisted(@, Base)]
    BY <1>1, <1>2, <1>4 DEF SheetState
<1>7. Becomes(c, d) /\ UNCHANGED <<shelfManner, catalog, shelf, desks, tally, shelfActs>>
    BY <1>6 DEF ImportReadsListed
<1>8. SheetTyped(d) /\ PlainHeld(d) BY <1>1, <1>3, <1>5 DEF SheetTyped, PlainHeld
<1>9. shelfManner = "calm" => CalmSheet(d) BY <1>1, <1>5, CalmLone DEF CalmSheet
<1> QED BY <1>1, <1>5, <1>7, <1>8, <1>9, ServerMoves

LEMMA ImportAnsweredKept ==
    ASSUME ShelfInv, NEW c \in sheets, ImportAnswered(c) PROVE ShelfInv'
<1>1. /\ c \in SheetState /\ SheetTyped(c) /\ PlainHeld(c)
      /\ c.kind = "import" /\ c.at = "listed"
      /\ UNCHANGED <<shelfManner, catalog, shelf, tally, shelfActs>>
    BY ShelfFacts DEF ImportAnswered
<1>2. shelfActs' \in 0 .. MaxShelfActs[shelfManner] BY <1>1 DEF ShelfInv, ShelfTyped
<1>3. CASE ~(c.page # Gone /\ desks[c.page].panel = "import")
    <2>1. desks' = desks /\ sheets' = sheets \ {c} BY <1>3 DEF ImportAnswered, Ends
    <2>2. desks' \in [Opened -> DeskState] /\ \A p \in Opened : DeskTyped(p)'
        BY <1>1, <2>1 DEF ShelfInv, ShelfTyped, DeskTyped
    <2>3. shelfManner # "calm" BY <1>1, <1>3, CalmLone DEF CalmSheet
    <2>4. sheets' \subseteq SheetState /\ \A e \in sheets' : SheetTyped(e) /\ PlainHeld(e)
        BY <1>1, <2>1, SheetMoves
    <2> QED BY <1>1, <1>2, <2>2, <2>3, <2>4, PagesMove
<1>4. CASE c.page # Gone /\ desks[c.page].panel = "import"
    <2>1. PICK p \in Opened : p = c.page BY <1>1, <1>4 DEF SheetState
    <2>2. PICK k : k = [c EXCEPT !.kind = "load", !.at = "sent"] OBVIOUS
    <2>3. /\ k \in SheetState /\ k.kind = "load" /\ k.at = "sent" /\ k.page = c.page
          /\ k.row = c.row /\ k.rows = c.rows
        BY <1>1, <2>2 DEF SheetState
    <2>4. SheetTyped(k) /\ PlainHeld(k) BY <1>1, <2>3 DEF SheetTyped, PlainHeld
    <2>5. PICK q \in Panels : q = "mine" BY DEF Panels
    <2>6. PICK e \in DeskState : e = Panel(q) /\ e.rows = <<>> /\ e.busy = 0 BY PanelTyped
    <2>7. PICK d : d = [e EXCEPT !.loading = TRUE] OBVIOUS
    <2>8. d \in DeskState /\ d.rows = <<>> /\ d.busy = 0 BY <2>6, <2>7 DEF DeskState
    <2>9. desks' = [desks EXCEPT ![p] = d] /\ sheets' = (sheets \ {c}) \cup {k}
        BY <1>4, <2>1, <2>2, <2>5, <2>6, <2>7 DEF ImportAnswered, Becomes, Desk
    <2>10. Len(d.rows) <= Len(shelf) /\ d.busy <= Len(shelf) /\ Len(shelf) <= Len(shelf')
        BY <1>1, <2>8, ShelfFacts
    <2>11. desks' \in [Opened -> DeskState] /\ \A r \in Opened : DeskTyped(r)'
        BY <2>8, <2>9, <2>10, DeskMoves
    <2>12. sheets' \subseteq SheetState /\ \A x \in sheets' : SheetTyped(x) /\ PlainHeld(x)
        BY <2>3, <2>4, <2>9, SheetMoves
    <2>13. ASSUME shelfManner = "calm" PROVE CalmPages'
        <3>1. sheets' = {k} /\ c.page = TheOne BY <2>9, <2>13, CalmLone
        <3>2. CalmSheet(k)' BY <2>3, <3>1 DEF CalmSheet
        <3>3. \A i \in DOMAIN shelf : shelf[i].stock = tally[i]
            BY <1>1, <2>13, CalmLone, CalmStocks
        <3> QED BY <1>1, <3>1, <3>2, <3>3, CalmOneLeft
    <2> QED BY <1>1, <1>2, <2>11, <2>12, <2>13, PagesMove
<1> QED BY <1>3, <1>4

LEMMA OfferKept ==
    ASSUME ShelfInv, NEW g \in Goods, NEW v \in Sorts \cup {Base}, Offer(g, v) PROVE ShelfInv'
<1>1. PICK p \in Opened \cup {Gone} : p = Gone OBVIOUS
<1>2. PICK k0 \in SheetState : /\ k0 = Sheet(Gone, "offer") /\ k0.kind = "offer"
                               /\ k0.at = "sent" /\ k0.row = 0 /\ k0.rows = <<>>
    BY <1>1, SheetMade DEF ShelfInv
<1>3. PICK k : k = [k0 EXCEPT !.goods = {g}, !.variant = v, !.plain = Goods \ catalog.varied]
    OBVIOUS
<1>4. /\ k \in SheetState /\ k.kind = "offer" /\ k.at = "sent" /\ k.row = 0
      /\ k.rows = <<>> /\ k.plain = Goods \ catalog.varied
    BY <1>2, <1>3 DEF SheetState
<1>5. /\ shelfManner = "hasty" /\ shelfActs < MaxShelfActs[shelfManner]
      /\ sheets' = sheets \cup {k} /\ shelfActs' = shelfActs + 1
      /\ UNCHANGED <<shelfManner, catalog, shelf, desks, tally>>
    BY <1>2, <1>3 DEF Offer, Send
<1>6. SheetTyped(k) /\ PlainHeld(k) BY <1>4, ShelfFacts DEF SheetTyped, PlainHeld
<1>7. sheets' \subseteq SheetState /\ \A e \in sheets' : SheetTyped(e) /\ PlainHeld(e)
    BY <1>4, <1>5, <1>6, SheetMoves
<1>8. desks' \in [Opened -> DeskState] /\ \A p1 \in Opened : DeskTyped(p1)'
    BY <1>5 DEF ShelfInv, ShelfTyped, DeskTyped
<1>9. shelfActs' \in 0 .. MaxShelfActs[shelfManner] BY <1>5, ShelfFacts
<1> QED BY <1>5, <1>7, <1>8, <1>9, PagesMove

\* A request about one listing goes on or ends.
LEMMA OfferMoves ==
    ASSUME ShelfInv, NEW c \in sheets, c.kind = "offer", NEW at \in {"goods", "listed"},
           UNCHANGED <<shelfManner, catalog, shelf, desks, tally, shelfActs>>,
           Becomes(c, [c EXCEPT !.at = at]) \/ Ends(c),
           Ends(c) \/ c.variant # Base \/ c.goods \subseteq c.plain
    PROVE ShelfInv'
<1>1. c \in SheetState /\ SheetTyped(c) /\ PlainHeld(c) BY ShelfFacts
<1>2. PICK d : d = [c EXCEPT !.at = at] OBVIOUS
<1>3. /\ d \in SheetState /\ d.kind = "offer" /\ d.at = at /\ d.rows = c.rows /\ d.row = c.row
      /\ d.goods = c.goods /\ d.plain = c.plain /\ d.variant = c.variant
    BY <1>1, <1>2 DEF SheetState
<1>4. sheets' \subseteq SheetState /\ \A e \in sheets' : SheetTyped(e) /\ PlainHeld(e)
    <2>1. CASE Ends(c) BY <1>1, <2>1, SheetMoves DEF Ends
    <2>2. CASE ~Ends(c)
        <3>1. SheetTyped(d) /\ PlainHeld(d) BY <1>1, <1>3, <2>2 DEF SheetTyped, PlainHeld
        <3> QED BY <1>2, <1>3, <2>2, <3>1, SheetMoves DEF Becomes
    <2> QED BY <2>1, <2>2
<1>5. desks' \in [Opened -> DeskState] /\ \A p \in Opened : DeskTyped(p)'
    BY DEF ShelfInv, ShelfTyped, DeskTyped
<1>6. shelfActs' \in 0 .. MaxShelfActs[shelfManner] BY DEF ShelfInv, ShelfTyped
<1>7. shelfManner # "calm" BY CalmLone DEF CalmSheet
<1> QED BY <1>4, <1>5, <1>6, <1>7, PagesMove

LEMMA OfferChecksTargetKept ==
    ASSUME ShelfInv, NEW c \in sheets, OfferChecksTarget(c) PROVE ShelfInv'
<1>1. c \in SheetState /\ PlainHeld(c) /\ c.kind = "offer" BY ShelfFacts DEF OfferChecksTarget
<1>2. CASE \A g \in c.goods : RightTarget(c, g)
    <2>1. c.variant # Base \/ c.goods \subseteq c.plain
        BY <1>1, <1>2, ShelfFacts DEF RightTarget, PlainHeld, SheetState
    <2> QED BY <1>1, <1>2, <2>1, OfferMoves DEF OfferChecksTarget
<1>3. CASE ~ \A g \in c.goods : RightTarget(c, g)
    BY <1>1, <1>3, OfferMoves DEF OfferChecksTarget
<1> QED BY <1>2, <1>3

LEMMA OfferChecksListedKept ==
    ASSUME ShelfInv, NEW c \in sheets, OfferChecksListed(c) PROVE ShelfInv'
<1>1. /\ PlainHeld(c) /\ c.kind = "offer" /\ c.at = "goods"
      /\ Becomes(c, [c EXCEPT !.at = "listed"]) \/ Ends(c)
      /\ UNCHANGED <<shelfManner, catalog, shelf, desks, tally, shelfActs>>
    BY ShelfFacts DEF OfferChecksListed
<1>2. c.variant # Base \/ c.goods \subseteq c.plain BY <1>1 DEF PlainHeld
<1> QED BY <1>1, <1>2, OfferMoves

\* What a statement that lists a good leaves of the shelf.
LEMMA ListedRow ==
    ASSUME ShelfInv, NEW g \in Goods, NEW v \in Sorts \cup {Base}, NEW s \in Nat,
           NEW early \in BOOLEAN, Listed(g, v, s, early), v = Base => early
    PROVE /\ shelf' \in Seq(ShelfRow) /\ tally' \in Seq(Nat) /\ Len(tally') = Len(shelf')
          /\ Len(shelf) <= Len(shelf') /\ ListedOnce' /\ WholeWasPlain'
          /\ (\A i \in DOMAIN shelf : shelf[i].stock = tally[i]) =>
                \A i \in DOMAIN shelf' : shelf'[i].stock = tally'[i]
          /\ TopCount(shelf') = TopCount(shelf)
          /\ TopsApart(shelf) => TopsApart(shelf')
<1>1. PICK n \in Nat : n = Len(shelf) BY ShelfFacts
<1>2. /\ shelf \in Seq(ShelfRow) /\ tally \in Seq(Nat) /\ Len(tally) = n
      /\ DOMAIN shelf = 1..n /\ DOMAIN tally = 1..n /\ ListedOnce /\ WholeWasPlain
    BY <1>1, ShelfFacts DEF ShelfInv, ShelfTyped
<1>3. CASE ~Fits(shelf, g, v)
    <2>1. shelf' = shelf /\ tally' = tally BY <1>3 DEF Listed
    <2>2. ListedOnce' /\ WholeWasPlain' BY <1>2, <2>1 DEF ListedOnce, WholeWasPlain
    <2>3. TopCount(shelf') = TopCount(shelf) /\ (TopsApart(shelf) => TopsApart(shelf'))
        BY <2>1
    <2>4. shelf' \in Seq(ShelfRow) /\ tally' \in Seq(Nat) /\ Len(tally') = Len(shelf')
        BY <1>1, <1>2, <2>1
    <2>5. Len(shelf) <= Len(shelf') BY <1>1, <2>1
    <2>6. (\A i \in DOMAIN shelf : shelf[i].stock = tally[i]) =>
             \A i \in DOMAIN shelf' : shelf'[i].stock = tally'[i]
        BY <2>1
    <2> QED BY <2>2, <2>3, <2>4, <2>5, <2>6
<1>4. CASE Fits(shelf, g, v)
    <2>1. PICK row \in ShelfRow : /\ row = NewRow(g, v, s, early)
                                  /\ row.good = g /\ row.variant = v /\ row.stock = s
                                  /\ ~row.isTop /\ row.early = early
        BY RowMade
    <2>2. shelf' = Append(shelf, row) /\ tally' = Append(tally, s) BY <1>4, <2>1 DEF Listed
    <2>3. /\ shelf' \in Seq(ShelfRow) /\ tally' \in Seq(Nat)
          /\ Len(shelf') = n + 1 /\ Len(tally') = n + 1
          /\ DOMAIN shelf' = 1 .. (n + 1)
          /\ shelf'[n + 1] = row /\ tally'[n + 1] = s
          /\ \A i \in 1..n : shelf'[i] = shelf[i] /\ tally'[i] = tally[i]
        BY <1>1, <1>2, <2>1, <2>2
    <2>4. \A i \in 1 .. (n + 1) : i \in 1..n \/ i = n + 1 OBVIOUS
    <2>5. \A i \in 1..n : i \in 1 .. (n + 1) /\ i # n + 1 OBVIOUS
    <2>6. ListedOnce'
        <3>1. \A i \in 1..n : <<shelf[i].good, shelf[i].variant>> # <<row.good, row.variant>>
            BY <1>2, <1>4, <2>1 DEF Fits
        <3>2. \A i, j \in 1..n : i # j => <<shelf[i].good, shelf[i].variant>>
                                          # <<shelf[j].good, shelf[j].variant>>
            BY <1>2 DEF ListedOnce
        <3> QED BY <2>3, <2>4, <3>1, <3>2 DEF ListedOnce
    <2>7. WholeWasPlain'
        <3>1. row.variant = Base => row.early BY <2>1
        <3> QED BY <1>2, <2>3, <2>4, <3>1 DEF WholeWasPlain
    <2>8. (\A i \in DOMAIN shelf : shelf[i].stock = tally[i]) =>
             \A i \in DOMAIN shelf' : shelf'[i].stock = tally'[i]
        BY <1>2, <2>1, <2>3, <2>4
    <2>9. TopCount(shelf') = TopCount(shelf)
        <3>1. {i \in DOMAIN shelf' : shelf'[i].isTop} = {i \in DOMAIN shelf : shelf[i].isTop}
            BY <1>2, <2>1, <2>3, <2>4, <2>5
        <3> QED BY <3>1 DEF TopCount
    <2>10. TopsApart(shelf) => TopsApart(shelf')
        BY <1>2, <2>1, <2>3, <2>4, <2>5 DEF TopsApart
    <2> QED BY <1>1, <2>3, <2>6, <2>7, <2>8, <2>9, <2>10
<1> QED BY <1>3, <1>4

\* A statement that lists a good keeps what the pages and the other requests hold.
LEMMA ListingKept ==
    ASSUME ShelfInv, NEW c \in sheets, NEW g \in Goods, NEW v \in Sorts \cup {Base},
           NEW s \in Nat, Listed(g, v, s, g \in c.plain), v = Base => g \in c.plain,
           NEW d \in SheetState, SheetTyped(d), PlainHeld(d), sheets' \subseteq sheets \cup {d},
           shelfManner = "calm" =>
              sheets' = {d} /\ d.kind = "import" /\ CalmSheet(d) /\ CalmSheet(c),
           c.kind \in {"import", "offer"},
           UNCHANGED <<shelfManner, catalog, desks, shelfActs>>
    PROVE ShelfInv'
<1>1. PICK early \in BOOLEAN : early = (g \in c.plain)
    <2>1. (g \in c.plain) \in BOOLEAN OBVIOUS
    <2> QED BY <2>1, Zenon
<1>2. Listed(g, v, s, early) /\ (v = Base => early) BY <1>1
<1>3. /\ shelf' \in Seq(ShelfRow) /\ tally' \in Seq(Nat) /\ Len(tally') = Len(shelf')
      /\ Len(shelf) <= Len(shelf') /\ ListedOnce' /\ WholeWasPlain'
      /\ (\A i \in DOMAIN shelf : shelf[i].stock = tally[i]) =>
            \A i \in DOMAIN shelf' : shelf'[i].stock = tally'[i]
      /\ TopCount(shelf') = TopCount(shelf)
      /\ TopsApart(shelf) => TopsApart(shelf')
    BY <1>2, ListedRow
<1>4. PICK n \in Nat, m \in Nat : n = Len(shelf) /\ m = Len(shelf') /\ n <= m
    <2>1. Len(shelf') \in Nat BY <1>3
    <2> QED BY <1>3, <2>1, ShelfFacts
<1>5. \A p \in Opened : DeskTyped(p)'
    <2>1. ASSUME NEW p \in Opened
          PROVE Len(desks[p].rows) <= m /\ desks[p].busy <= m
        <3>1. desks[p] \in DeskState /\ DeskTyped(p) BY ShelfFacts
        <3>2. Len(desks[p].rows) \in Nat /\ desks[p].busy \in Nat BY <3>1 DEF DeskState
        <3> QED BY <1>4, <3>1, <3>2 DEF DeskTyped
    <2> QED BY <1>4, <2>1 DEF DeskTyped
<1>6. sheets' \subseteq SheetState /\ \A e \in sheets' : SheetTyped(e) /\ PlainHeld(e)
    BY SheetMoves
<1>7. \A e \in sheets' : SheetTyped(e)' /\ PlainHeld(e)'
    <2>1. ASSUME NEW e \in sheets' PROVE e.row <= m /\ Len(e.rows) <= m
        <3>1. e \in SheetState /\ SheetTyped(e) BY <1>6
        <3>2. e.row \in Nat /\ Len(e.rows) \in Nat BY <3>1 DEF SheetState
        <3> QED BY <1>4, <3>1, <3>2 DEF SheetTyped
    <2> QED BY <1>4, <1>6, <2>1 DEF SheetTyped, PlainHeld
<1>8. ShelfTyped' BY <1>3, <1>5, <1>6, <1>7 DEF ShelfInv, ShelfTyped
<1>9. CalmShelf'
    <2>1. ASSUME shelfManner = "calm" PROVE CalmPages' /\ TopCount(shelf') <= MaxTop
                                           /\ TopsApart(shelf')
        <3>1. /\ sheets = {c} /\ TopCount(shelf) <= MaxTop /\ TopsApart(shelf)
            BY <2>1, CalmLone
        <3>2. \A i \in DOMAIN shelf : shelf[i].stock = tally[i] BY <2>1, <3>1, CalmStocks
        <3>3. CalmSheet(d)' BY <2>1 DEF CalmSheet
        <3>4. CalmPages' BY <1>3, <2>1, <3>2, <3>3, CalmOneLeft
        <3> QED BY <1>3, <3>1, <3>4
    <2> QED BY <2>1 DEF CalmShelf
<1> QED BY <1>3, <1>7, <1>8, <1>9 DEF ShelfInv

LEMMA ImportCreatesKept ==
    ASSUME ShelfInv, NEW c \in sheets, NEW g \in c.goods, ImportCreates(c, g) PROVE ShelfInv'
<1>1. /\ c \in SheetState /\ SheetTyped(c) /\ PlainHeld(c)
      /\ c.kind = "import" /\ c.at = "listed"
      /\ UNCHANGED <<shelfManner, catalog, desks, shelfActs>>
    BY ShelfFacts DEF ImportCreates
<1>2. g \in Goods /\ g \in c.plain BY <1>1 DEF SheetState, PlainHeld
<1>3. PICK left \in SUBSET Goods : left = c.goods \ {g} BY <1>1 DEF SheetState
<1>4. PICK d : d = [c EXCEPT !.goods = left] OBVIOUS
<1>5. /\ d \in SheetState /\ d.page = c.page /\ d.kind = "import" /\ d.at = "listed"
      /\ d.rows = c.rows /\ d.row = c.row /\ d.goods = left /\ d.plain = c.plain
    BY <1>1, <1>4 DEF SheetState
<1>6. d = [c EXCEPT !.goods = @ \ {g}] BY <1>1, <1>3, <1>4 DEF SheetState
<1>7. sheets' = (sheets \ {c}) \cup {d} /\ Listed(g, Base, DefaultStock, g \in c.plain)
    BY <1>6 DEF ImportCreates, Becomes
<1>8. SheetTyped(d) /\ PlainHeld(d) BY <1>1, <1>3, <1>5 DEF SheetTyped, PlainHeld
<1>9. shelfManner = "calm" => sheets' = {d} /\ CalmSheet(d) /\ CalmSheet(c)
    BY <1>1, <1>5, <1>7, CalmLone DEF CalmSheet
<1>10. PICK v \in Sorts \cup {Base} : v = Base OBVIOUS
<1> QED BY <1>1, <1>2, <1>5, <1>7, <1>8, <1>9, <1>10, ShelfConstants, ListingKept

LEMMA OfferCreatesKept ==
    ASSUME ShelfInv, NEW c \in sheets, NEW g \in c.goods, OfferCreates(c, g) PROVE ShelfInv'
<1>1. /\ c \in SheetState /\ SheetTyped(c) /\ PlainHeld(c)
      /\ c.kind = "offer" /\ c.at = "listed" /\ sheets' = sheets \ {c}
      /\ Listed(g, c.variant, 0, g \in c.plain)
      /\ UNCHANGED <<shelfManner, catalog, desks, shelfActs>>
    BY ShelfFacts DEF OfferCreates, Ends
<1>2. g \in Goods /\ c.variant \in Sorts \cup {Base} BY <1>1 DEF SheetState
<1>3. c.variant = Base => g \in c.plain BY <1>1 DEF PlainHeld
<1>4. shelfManner # "calm" BY <1>1, CalmLone DEF CalmSheet
<1>5. sheets' \subseteq sheets \cup {c} /\ 0 \in Nat BY <1>1
<1> QED BY <1>1, <1>2, <1>3, <1>4, <1>5, ListingKept

\* The catalogue changes under the pages.
LEMMA ReformKept ==
    ASSUME ShelfInv, NEW g \in Goods, AddVariant(g) \/ SwitchGood(g) PROVE ShelfInv'
<1>1. UNCHANGED <<shelfManner, shelf, desks, sheets, tally, shelfActs>>
    BY DEF AddVariant, SwitchGood
<1>2. catalog \in [active : SUBSET Goods, varied : SUBSET Goods] BY DEF ShelfInv, ShelfTyped
<1>3. /\ catalog' \in [active : SUBSET Goods, varied : SUBSET Goods]
      /\ catalog.varied \subseteq catalog'.varied
    <2>1. CASE AddVariant(g) BY <1>2, <2>1 DEF AddVariant
    <2>2. CASE SwitchGood(g)
        <3>1. PICK new \in SUBSET Goods :
                new = IF g \in catalog.active THEN catalog.active \ {g} ELSE catalog.active \cup {g}
            BY <1>2
        <3>2. catalog' = [catalog EXCEPT !.active = new] BY <2>2, <3>1 DEF SwitchGood
        <3> QED BY <1>2, <3>2
    <2> QED BY <2>1, <2>2
<1>4. \A c \in sheets' : SheetTyped(c)' BY <1>1, ShelfFacts DEF SheetTyped
<1>5. ShelfTyped'
    <2>1. \A p \in Opened : DeskTyped(p)' BY <1>1 DEF ShelfInv, ShelfTyped, DeskTyped
    <2> QED BY <1>1, <1>3, <1>4, <2>1 DEF ShelfInv, ShelfTyped
<1>6. \A c \in sheets' : PlainHeld(c)' BY <1>1, <1>3, ShelfFacts DEF PlainHeld
<1>7. ListedOnce' /\ WholeWasPlain' BY <1>1 DEF ShelfInv, ListedOnce, WholeWasPlain
<1>8. CalmShelf'
    <2>1. ASSUME NEW c, CalmSheet(c) PROVE CalmSheet(c)'
        BY <1>1, <2>1 DEF CalmSheet, AllTops, TopsApart
    <2>2. ASSUME NEW i, Tallied(i) PROVE Tallied(i)' BY <1>1, <2>2 DEF Tallied
    <2>3. CalmPages => CalmPages'
        BY <1>1, <2>1, <2>2 DEF CalmPages, AllTops, TopsApart
    <2> QED BY <1>1, <2>3 DEF ShelfInv, CalmShelf, TopCount, TopsApart
<1> QED BY <1>5, <1>6, <1>7, <1>8 DEF ShelfInv

\* A tap on a stock: the row that is shown is, in calm use, the one that is stored.
LEMMA SteppedStock ==
    ASSUME NEW n \in Nat, NEW d PROVE Stepped(n, d) \in Nat
<1>1. PICK m \in Nat : m = Max({1, n}) /\ m >= 1 BY MaxOfTwo
<1>2. Stepped(n, d) = IF d = "more" THEN n + 1 ELSE m - 1 BY <1>1 DEF Stepped
<1> QED BY <1>1, <1>2

LEMMA TapStockKept ==
    ASSUME ShelfInv, NEW p \in Opened, NEW i \in DOMAIN desks[p].rows, NEW d \in {"more", "less"},
           TapStock(p, i, d)
    PROVE ShelfInv'
<1>1. PICK e \in DeskState : e = desks[p] /\ DeskTyped(p) BY ShelfFacts
<1>2. PICK rows \in Seq(ShelfRow) : rows = e.rows BY <1>1 DEF DeskState
<1>3. PICK n \in Nat : n = Len(shelf) /\ DOMAIN shelf = 1..n /\ DOMAIN tally = 1..n
    BY ShelfFacts
<1>4. Len(rows) <= n /\ i \in DOMAIN rows BY <1>1, <1>2, <1>3 DEF DeskTyped
<1>5. i \in 1..n /\ i \in Nat /\ i # 0
    <2>1. Len(rows) \in Nat /\ i \in 1 .. Len(rows) BY <1>4
    <2> QED BY <1>4, <2>1
<1>6. rows[i] \in ShelfRow BY <1>4
<1>7. PICK stock \in Nat : stock = Stepped(rows[i].stock, d)
    BY <1>6, SteppedStock DEF ShelfRow
<1>8. PICK new : new = [e EXCEPT !.busy = i] OBVIOUS
<1>9. new \in DeskState /\ new.rows = rows /\ new.busy = i BY <1>1, <1>2, <1>5, <1>8 DEF DeskState
<1>10. PICK k0 \in SheetState : /\ k0 = Sheet(p, "patch") /\ k0.page = p /\ k0.kind = "patch"
                                /\ k0.at = "sent" /\ k0.rows = <<>>
    BY SheetMade DEF ShelfInv
<1>11. PICK k : k = [k0 EXCEPT !.row = i, !.stock = stock] OBVIOUS
<1>12. /\ k \in SheetState /\ k.page = p /\ k.kind = "patch" /\ k.at = "sent" /\ k.row = i
       /\ k.rows = <<>> /\ k.stock = stock
    BY <1>5, <1>10, <1>11 DEF SheetState
<1>13. /\ Usable(p) /\ desks' = [desks EXCEPT ![p] = new]
       /\ sheets' = sheets \cup {k} /\ shelfActs' = shelfActs + 1
       /\ e.panel \in {"mine", "stock"}
       /\ tally' = [tally EXCEPT ![i] = Stepped(@, d)]
       /\ UNCHANGED <<shelfManner, catalog, shelf>>
    BY <1>1, <1>2, <1>7, <1>8, <1>10, <1>11 DEF TapStock, Ready, Desk, Send
<1>14. PICK counted \in Nat : counted = Stepped(tally[i], d)
    BY <1>3, <1>5, ShelfFacts, SteppedStock
<1>15. /\ tally' \in Seq(Nat) /\ Len(tally') = n
       /\ tally'[i] = counted /\ \A j \in 1..n : j # i => tally'[j] = tally[j]
    <2>1. tally \in [1..n -> Nat] BY <1>3, ShelfFacts
    <2>2. tally' = [tally EXCEPT ![i] = counted] BY <1>13, <1>14
    <2>3. tally' \in [1..n -> Nat] BY <2>1, <2>2
    <2>4. tally' \in Seq(Nat) /\ Len(tally') = n BY <2>3, FunctionIsList
    <2> QED BY <1>5, <2>1, <2>2, <2>4
<1>16. SheetTyped(k) /\ PlainHeld(k) BY <1>3, <1>5, <1>12 DEF SheetTyped, PlainHeld
<1>17. sheets' \subseteq SheetState /\ \A c \in sheets' : SheetTyped(c) /\ PlainHeld(c)
    BY <1>12, <1>13, <1>16, SheetMoves
<1>18. desks' \in [Opened -> DeskState] /\ \A q \in Opened : DeskTyped(q)'
    <2>1. Len(new.rows) <= Len(shelf) /\ new.busy <= Len(shelf) /\ Len(shelf) <= Len(shelf')
        BY <1>3, <1>4, <1>5, <1>9, <1>13
    <2> QED BY <1>9, <1>13, <2>1, DeskMoves
<1>19. ShelfTyped'
    <2>1. \A c \in sheets' : SheetTyped(c)' BY <1>13, <1>17 DEF SheetTyped
    <2>2. shelfActs' \in 0 .. MaxShelfActs[shelfManner] BY <1>13, UsableFacts
    <2> QED BY <1>3, <1>13, <1>15, <1>17, <1>18, <2>1, <2>2 DEF ShelfInv, ShelfTyped
<1>20. \A c \in sheets' : PlainHeld(c)' BY <1>13, <1>17 DEF PlainHeld
<1>21. ListedOnce' /\ WholeWasPlain' BY <1>13 DEF ShelfInv, ListedOnce, WholeWasPlain
<1>22. CalmShelf'
    <2>1. ASSUME shelfManner = "calm" PROVE CalmPages'
        <3>1. /\ sheets = {} /\ p = TheOne /\ rows = shelf
              /\ \A j \in DOMAIN shelf : shelf[j].stock = tally[j]
            BY <1>1, <1>2, <1>13, <2>1, UsableFacts
        <3>2. sheets' = {k} BY <1>13, <3>1
        <3>3. rows[i].stock = tally[i] BY <1>3, <1>5, <3>1
        <3>4. stock = tally'[i] BY <1>7, <1>14, <1>15, <3>3
        <3>5. CalmSheet(k)' BY <1>12, <3>1, <3>4 DEF CalmSheet
        <3>6. ASSUME NEW j \in DOMAIN shelf'
              PROVE shelf'[j].stock = tally'[j] \/ k.row = j
            <4>1. j \in 1..n BY <1>3, <1>13, <3>6
            <4> QED BY <1>3, <1>12, <1>13, <1>15, <3>1, <4>1
        <3> QED BY <1>12, <3>2, <3>5, <3>6, CalmOneLeft
    <2> QED BY <1>13, <2>1 DEF ShelfInv, CalmShelf, TopCount, TopsApart
<1> QED BY <1>19, <1>20, <1>21, <1>22 DEF ShelfInv

\* The rows a request writes: only their stock, or whether and where they are on top.
LEMMA RowsWritten ==
    ASSUME ShelfInv, NEW c \in sheets, NEW d, d = [c EXCEPT !.at = d.at],
           d \in SheetState, c.kind \in {"patch", "save"}, Becomes(c, d),
           shelf' \in Seq(ShelfRow), Len(shelf') = Len(shelf),
           \A i \in DOMAIN shelf : /\ shelf'[i].good = shelf[i].good
                                   /\ shelf'[i].variant = shelf[i].variant
                                   /\ shelf'[i].early = shelf[i].early,
           UNCHANGED <<shelfManner, catalog, desks, tally, shelfActs>>,
           shelfManner = "calm" =>
              CalmPages' /\ TopCount(shelf') <= MaxTop /\ TopsApart(shelf')
    PROVE ShelfInv'
<1>1. c \in SheetState /\ SheetTyped(c) /\ PlainHeld(c) BY ShelfFacts
<1>2. d.row = c.row /\ d.rows = c.rows /\ d.kind = c.kind BY <1>1 DEF SheetState
<1>3. SheetTyped(d) /\ PlainHeld(d) BY <1>1, <1>2 DEF SheetTyped, PlainHeld
<1>4. sheets' \subseteq SheetState /\ \A e \in sheets' : SheetTyped(e) /\ PlainHeld(e)
    BY <1>3, SheetMoves DEF Becomes
<1>5. \A e \in sheets' : SheetTyped(e)' /\ PlainHeld(e)' BY <1>4 DEF SheetTyped, PlainHeld
<1>6. ShelfTyped'
    <2>1. \A p \in Opened : DeskTyped(p)' BY ShelfFacts DEF DeskTyped
    <2> QED BY <1>4, <1>5, <2>1 DEF ShelfInv, ShelfTyped
<1>7. DOMAIN shelf' = DOMAIN shelf
    <2>1. DOMAIN shelf' = 1 .. Len(shelf') OBVIOUS
    <2> QED BY <2>1, ShelfFacts
<1>8. ListedOnce' /\ WholeWasPlain' BY <1>7 DEF ShelfInv, ListedOnce, WholeWasPlain
<1>9. CalmShelf' BY DEF CalmShelf
<1> QED BY <1>5, <1>6, <1>8, <1>9 DEF ShelfInv

LEMMA PatchLandsKept == ASSUME ShelfInv, NEW c \in sheets, PatchLands(c) PROVE ShelfInv'
<1>1. /\ c \in SheetState /\ SheetTyped(c) /\ c.kind = "patch" /\ c.at = "sent"
      /\ UNCHANGED <<shelfManner, catalog, desks, tally, shelfActs>>
    BY ShelfFacts DEF PatchLands
<1>2. PICK n \in Nat : n = Len(shelf) /\ DOMAIN shelf = 1..n BY ShelfFacts
<1>3. PICK r \in 1..n, stock \in Nat : r = c.row /\ stock = c.stock
    BY <1>1, <1>2 DEF SheetState, SheetTyped
<1>4. PICK row \in ShelfRow : row = shelf[r] BY <1>2, ShelfFacts
<1>5. PICK new : new = [row EXCEPT !.stock = stock] OBVIOUS
<1>6. /\ new \in ShelfRow /\ new.stock = stock /\ new.good = row.good
      /\ new.variant = row.variant /\ new.early = row.early /\ new.isTop = row.isTop
      /\ new.topOrder = row.topOrder
    BY <1>5 DEF ShelfRow
<1>7. shelf \in [1..n -> ShelfRow] BY <1>2, ShelfFacts
<1>8. shelf' = [shelf EXCEPT ![r] = new] BY <1>3, <1>4, <1>5, <1>7 DEF PatchLands
<1>9. /\ shelf' \in [1..n -> ShelfRow] /\ shelf'[r] = new
      /\ \A i \in 1..n : i # r => shelf'[i] = shelf[i]
    BY <1>6, <1>7, <1>8
<1>10. shelf' \in Seq(ShelfRow) /\ Len(shelf') = n BY <1>9, FunctionIsList
<1>11. \A i \in 1..n : /\ shelf'[i].good = shelf[i].good
                       /\ shelf'[i].variant = shelf[i].variant
                       /\ shelf'[i].early = shelf[i].early
                       /\ shelf'[i].isTop = shelf[i].isTop
                       /\ shelf'[i].topOrder = shelf[i].topOrder
    BY <1>4, <1>6, <1>9
<1>12. DOMAIN shelf' = 1..n BY <1>9
<1>13. PICK d : d = [c EXCEPT !.at = "landed"] OBVIOUS
<1>14. d \in SheetState /\ d.at = "landed" /\ d.kind = "patch" /\ d.page = c.page
    BY <1>1, <1>13 DEF SheetState
<1>15. Becomes(c, d) BY <1>13 DEF PatchLands
<1>16. ASSUME shelfManner = "calm"
       PROVE CalmPages' /\ TopCount(shelf') <= MaxTop /\ TopsApart(shelf')
    <2>1. /\ sheets = {c} /\ CalmSheet(c) /\ c.page = TheOne /\ CalmPages
          /\ TopCount(shelf) <= MaxTop /\ TopsApart(shelf)
        BY <1>16, CalmLone
    <2>2. sheets' = {d} BY <1>15, <2>1 DEF Becomes
    <2>3. CalmSheet(d)' BY <1>14, <2>1 DEF CalmSheet
    <2>4. stock = tally[r] BY <1>1, <1>3, <2>1 DEF CalmSheet
    <2>5. ASSUME NEW i \in 1..n PROVE shelf'[i].stock = tally'[i]
        <3>1. CASE i = r BY <1>1, <1>6, <1>9, <2>4, <3>1
        <3>2. CASE i # r
            <4>1. Tallied(i) BY <1>2, <2>1 DEF CalmPages
            <4>2. shelf[i].stock = tally[i] BY <1>3, <2>1, <3>2, <4>1 DEF Tallied
            <4> QED BY <1>1, <1>9, <3>2, <4>2
        <3> QED BY <3>1, <3>2
    <2>6. CalmPages' BY <1>12, <2>2, <2>3, <2>5, CalmOneLeft
    <2>7. {i \in DOMAIN shelf' : shelf'[i].isTop} = {i \in DOMAIN shelf : shelf[i].isTop}
        BY <1>2, <1>11, <1>12
    <2>8. TopCount(shelf') <= MaxTop BY <2>1, <2>7 DEF TopCount
    <2>9. TopsApart(shelf') BY <1>2, <1>11, <1>12, <2>1 DEF TopsApart
    <2> QED BY <2>6, <2>8, <2>9
<1>17. d = [c EXCEPT !.at = d.at] BY <1>13, <1>14
<1> QED BY <1>1, <1>2, <1>10, <1>11, <1>14, <1>15, <1>16, <1>17, RowsWritten

LEMMA SaveLandsKept == ASSUME ShelfInv, NEW c \in sheets, SaveLands(c) PROVE ShelfInv'
<1>1. /\ c \in SheetState /\ SheetTyped(c) /\ PlainHeld(c) /\ c.kind = "save" /\ c.at = "sent"
      /\ UNCHANGED <<shelfManner, catalog, desks, tally, shelfActs>>
    BY ShelfFacts DEF SaveLands
<1>2. PICK rows \in Seq(ShelfRow) : rows = c.rows BY <1>1 DEF SheetState
<1>3. CASE TopCount(rows) > MaxTop
    <2>1. PICK d : d = [c EXCEPT !.at = "refused"] OBVIOUS
    <2>2. /\ d \in SheetState /\ d.at = "refused" /\ d.kind = "save" /\ d.page = c.page
          /\ d.row = c.row /\ d.rows = c.rows
        BY <1>1, <2>1 DEF SheetState
    <2>3. Becomes(c, d) /\ shelf' = shelf BY <1>2, <1>3, <2>1 DEF SaveLands
    <2>4. SheetTyped(d) /\ PlainHeld(d) BY <1>1, <2>2 DEF SheetTyped, PlainHeld
    <2>5. shelfManner = "calm" => CalmSheet(d) BY <1>1, <2>2, CalmLone DEF CalmSheet
    <2> QED BY <1>1, <2>2, <2>3, <2>4, <2>5, ServerMoves
<1>4. CASE ~(TopCount(rows) > MaxTop)
    <2>1. PICK n \in Nat : n = Len(shelf) /\ DOMAIN shelf = 1..n BY ShelfFacts
    <2>2. PICK d : d = [c EXCEPT !.at = "written"] OBVIOUS
    <2>3. d \in SheetState /\ d.at = "written" /\ d.kind = "save" /\ d.page = c.page
        BY <1>1, <2>2 DEF SheetState
    <2>4. /\ Becomes(c, d)
          /\ shelf' = [i \in DOMAIN shelf |->
                IF i \notin DOMAIN rows THEN shelf[i]
                ELSE [shelf[i] EXCEPT !.isTop = rows[i].isTop,
                          !.topOrder = IF rows[i].isTop THEN rows[i].topOrder ELSE 0]]
        BY <1>2, <1>4, <2>2 DEF SaveLands
    <2>5. DOMAIN shelf' = 1..n BY <2>1, <2>4
    <2>6. ASSUME NEW i \in 1..n
          PROVE /\ shelf'[i] \in ShelfRow
                /\ shelf'[i].good = shelf[i].good /\ shelf'[i].variant = shelf[i].variant
                /\ shelf'[i].early = shelf[i].early /\ shelf'[i].stock = shelf[i].stock
                /\ i \in DOMAIN rows =>
                      /\ shelf'[i].isTop = rows[i].isTop
                      /\ rows[i].isTop => shelf'[i].topOrder = rows[i].topOrder
        <3>1. PICK row \in ShelfRow : row = shelf[i] BY <2>1, ShelfFacts
        <3>2. CASE i \notin DOMAIN rows
            <4>1. shelf'[i] = row BY <2>1, <2>4, <3>1, <3>2
            <4> QED BY <3>1, <3>2, <4>1
        <3>3. CASE i \in DOMAIN rows
            <4>1. rows[i] \in ShelfRow BY <3>3
            <4>2. PICK top \in BOOLEAN : top = rows[i].isTop BY <4>1 DEF ShelfRow
            <4>3. PICK place \in Nat : place = IF top THEN rows[i].topOrder ELSE 0
                BY <4>1 DEF ShelfRow
            <4>4. shelf'[i] = [row EXCEPT !.isTop = top, !.topOrder = place]
                BY <2>1, <2>4, <3>1, <3>3, <4>2, <4>3
            <4>5. /\ shelf'[i] \in ShelfRow /\ shelf'[i].isTop = top
                  /\ shelf'[i].topOrder = place
                  /\ shelf'[i].good = row.good /\ shelf'[i].variant = row.variant
                  /\ shelf'[i].early = row.early /\ shelf'[i].stock = row.stock
                BY <4>4 DEF ShelfRow
            <4> QED BY <3>1, <4>2, <4>3, <4>5
        <3> QED BY <3>2, <3>3
    <2>7. shelf' \in [1..n -> ShelfRow] BY <2>1, <2>4, <2>6
    <2>8. shelf' \in Seq(ShelfRow) /\ Len(shelf') = n BY <2>7, FunctionIsList
    <2>9. ASSUME shelfManner = "calm"
          PROVE CalmPages' /\ TopCount(shelf') <= MaxTop /\ TopsApart(shelf')
        <3>1. sheets = {c} /\ CalmSheet(c) /\ c.page = TheOne BY <2>9, CalmLone
        <3>2. /\ desks[TheOne].panel = "top" /\ AllTops(desks[TheOne].rows)
              /\ AllTops(rows)
            BY <1>1, <1>2, <3>1 DEF CalmSheet
        <3>3. DOMAIN rows = 1..n /\ TopsApart(rows) BY <2>1, <3>2 DEF AllTops
        <3>4. sheets' = {d} BY <2>4, <3>1 DEF Becomes
        <3>5. AllTops(desks[TheOne].rows)' BY <1>1, <2>1, <2>8, <3>2 DEF AllTops, TopsApart
        <3>6. CalmSheet(d)' BY <1>1, <2>3, <3>1, <3>2, <3>5 DEF CalmSheet
        <3>7. \A i \in DOMAIN shelf : shelf[i].stock = tally[i]
            BY <1>1, <2>9, <3>1, CalmStocks
        <3>8. \A i \in DOMAIN shelf' : shelf'[i].stock = tally'[i]
            BY <1>1, <2>1, <2>5, <2>6, <3>7
        <3>9. CalmPages' BY <3>4, <3>6, <3>8, CalmOneLeft
        <3>10. {i \in DOMAIN shelf' : shelf'[i].isTop} = {i \in DOMAIN rows : rows[i].isTop}
            BY <2>5, <2>6, <3>3
        <3>11. TopCount(shelf') = TopCount(rows) BY <3>10 DEF TopCount
        <3>12. TopCount(rows) \in Nat
            <4>1. IsFiniteSet(1..n) BY FS_Interval
            <4>2. {i \in DOMAIN rows : rows[i].isTop} \in SUBSET (1..n) BY <3>3
            <4>3. IsFiniteSet({i \in DOMAIN rows : rows[i].isTop}) BY <4>1, <4>2, FS_Subset
            <4> QED BY <4>3, FS_CardinalityType DEF TopCount
        <3>13. TopCount(shelf') <= MaxTop BY <1>4, <3>11, <3>12, ShelfConstants
        <3>14. TopsApart(shelf') BY <2>5, <2>6, <3>3 DEF TopsApart
        <3> QED BY <3>9, <3>13, <3>14
    <2>10. d = [c EXCEPT !.at = d.at] BY <2>2, <2>3
    <2> QED BY <1>1, <2>1, <2>3, <2>4, <2>6, <2>8, <2>9, <2>10, RowsWritten
<1> QED BY <1>3, <1>4

\* Every step keeps the invariant, and it says what is promised.
LEMMA ShelfKept == ShelfInv /\ [ShelfNext]_shelfVars => ShelfInv'
<1> SUFFICES ASSUME ShelfInv, [ShelfNext]_shelfVars PROVE ShelfInv' OBVIOUS
<1>1. CASE UNCHANGED shelfVars
    <2>1. UNCHANGED <<shelfManner, catalog, shelf, desks, sheets, tally, shelfActs>>
        BY <1>1 DEF shelfVars
    <2>2. ShelfTyped' BY <2>1 DEF ShelfInv, ShelfTyped, DeskTyped, SheetTyped
    <2>3. ListedOnce' /\ WholeWasPlain' BY <2>1 DEF ShelfInv, ListedOnce, WholeWasPlain
    <2>4. \A c \in sheets' : PlainHeld(c)' BY <2>1 DEF ShelfInv, PlainHeld
    <2>5. ASSUME NEW c, CalmSheet(c) PROVE CalmSheet(c)'
        BY <2>1, <2>5 DEF CalmSheet, AllTops, TopsApart
    <2>6. ASSUME NEW i, Tallied(i) PROVE Tallied(i)' BY <2>1, <2>6 DEF Tallied
    <2>7. CalmPages => CalmPages'
        BY <2>1, <2>5, <2>6 DEF CalmPages, AllTops, TopsApart
    <2>8. CalmShelf' BY <2>1, <2>7 DEF ShelfInv, CalmShelf, TopCount, TopsApart
    <2> QED BY <2>2, <2>3, <2>4, <2>8 DEF ShelfInv
<1>2. ASSUME NEW p \in Opened, NEW q \in Panels, OpenPanel(p, q) PROVE ShelfInv'
    BY <1>2, OpenPanelKept
<1>3. ASSUME NEW p \in Opened, NEW i \in DOMAIN desks[p].rows, ToggleTop(p, i) PROVE ShelfInv'
    BY <1>3, ToggleTopKept
<1>4. ASSUME NEW p \in Opened, NEW i \in DOMAIN desks[p].rows, NEW d \in {"more", "less"},
             TapStock(p, i, d)
      PROVE ShelfInv'
    BY <1>4, TapStockKept
<1>5. ASSUME NEW p \in Opened, SaveTop(p) PROVE ShelfInv' BY <1>5, SaveTopKept
<1>6. ASSUME NEW p \in Opened, NEW chosen \in SUBSET desks[p].items, Import(p, chosen)
      PROVE ShelfInv'
    BY <1>6, ImportKept
<1>7. ASSUME NEW c \in sheets,
             \/ LoadReads(c) \/ LoadAnswered(c)
             \/ PatchLands(c) \/ PatchAnswered(c) \/ PatchLost(c)
             \/ SaveLands(c) \/ SaveReads(c) \/ SaveAnswered(c)
             \/ ImportReadsGoods(c) \/ ImportReadsListed(c) \/ ImportAnswered(c)
             \/ OfferChecksTarget(c) \/ OfferChecksListed(c)
      PROVE ShelfInv'
    BY <1>7, LoadReadsKept, LoadAnsweredKept, PatchLandsKept, PatchAnsweredKept, PatchLostKept,
       SaveLandsKept, SaveReadsKept, SaveAnsweredKept, ImportReadsGoodsKept,
       ImportReadsListedKept, ImportAnsweredKept, OfferChecksTargetKept, OfferChecksListedKept
<1>8. ASSUME NEW c \in sheets, NEW g \in c.goods, ImportCreates(c, g) \/ OfferCreates(c, g)
      PROVE ShelfInv'
    BY <1>8, ImportCreatesKept, OfferCreatesKept
<1>9. ASSUME NEW g \in Goods, AddVariant(g) \/ SwitchGood(g) PROVE ShelfInv'
    BY <1>9, ReformKept
<1>10. ASSUME NEW g \in Goods, NEW v \in Sorts \cup {Base}, Offer(g, v) PROVE ShelfInv'
    BY <1>10, OfferKept
<1> QED BY <1>1, <1>2, <1>3, <1>4, <1>5, <1>6, <1>7, <1>8, <1>9, <1>10 DEF ShelfNext

LEMMA ShelfImplies == ShelfInv => ShelfSound
<1> SUFFICES ASSUME ShelfInv PROVE ShelfSound OBVIOUS
<1>1. PICK n \in Nat : n = Len(shelf) /\ DOMAIN shelf = 1..n /\ DOMAIN tally = 1..n
    BY ShelfFacts
<1>2. \A i \in DOMAIN shelf : /\ shelf[i].good \in Goods
                              /\ shelf[i].variant \in Sorts \cup {Base} /\ shelf[i].stock \in Nat
    BY ShelfFacts DEF ShelfRow
<1>3. \A p \in Opened : /\ desks[p].panel \in Panels /\ Len(desks[p].rows) <= Len(shelf)
                        /\ desks[p].busy \in 0 .. Len(shelf)
    <2> SUFFICES ASSUME NEW p \in Opened
                 PROVE /\ desks[p].panel \in Panels /\ Len(desks[p].rows) <= Len(shelf)
                       /\ desks[p].busy \in 0 .. Len(shelf)
        OBVIOUS
    <2>1. desks[p] \in DeskState /\ DeskTyped(p) BY ShelfFacts
    <2> QED BY <1>1, <2>1 DEF DeskState, DeskTyped
<1>4. \A c \in sheets : c.page \in Opened \cup {Gone} /\ c.row \in 0 .. Len(shelf)
    BY <1>1, ShelfFacts DEF SheetState, SheetTyped
<1>5. ShelfTypeOK
    BY <1>1, <1>2, <1>3, <1>4, ShelfFacts DEF ShelfTypeOK, ShelfInv, ShelfTyped
<1>6. CalmTapsCount BY DEF ShelfInv, CalmShelf, CalmPages, Tallied, CalmTapsCount
<1>7. CalmTopFits BY DEF ShelfInv, CalmShelf, TopsApart, CalmTopFits
<1> QED BY <1>5, <1>6, <1>7 DEF ShelfSound, ShelfInv

(* However imports, requests and changes of the catalogue overlap, nothing is listed twice and *)
(* a good with variants is never listed as a whole; on a page that is used calmly every tap    *)
(* on a stock counts, and no more are on top than may be, each at a place of its own           *)
(* (store-catalog.service.ts, store-panel.service.ts).                                         *)
THEOREM ShelfStaysSound == ShelfSpec => []ShelfSound
<1>1. ShelfInit => ShelfInv BY ShelfStarts
<1>2. ShelfInv /\ [ShelfNext]_shelfVars => ShelfInv' BY ShelfKept
<1>3. ShelfInv => ShelfSound BY ShelfImplies
<1> QED BY <1>1, <1>2, <1>3, PTL DEF ShelfSpec

-----------------------------------------------------------------------------
(* The two sums of AccountsAgree *)

\* What the ledger says of an order, in som.
Explained == [o \in Orders |-> ledger[o].earned * EarnedOf[o] + ledger[o].refund * RedeemOf[o]]
PaidOf(c) == {o \in OrdersOf(c) : order[o].credited}

\* BooksBalance and CountersMatchCredits in terms of Total.
Balanced == \A c \in Customers :
    account[c].balance = Opening[c] + Total(Explained, OrdersOf(c))
Counted == \A c \in Customers :
    /\ account[c].totalOrders = Cardinality(PaidOf(c))
    /\ account[c].totalSpent = Total(TotalOf, PaidOf(c))

\* The two sums of AccountsAgree are totals.
LEMMA ExplainedTotal ==
    ASSUME TypeOK, NEW S, S \subseteq Orders
    PROVE  MapThenSumSet(LAMBDA o : ledger[o].earned * EarnedOf[o]
                                  + ledger[o].refund * RedeemOf[o], S)
               = Total(Explained, S)
<1> DEFINE f == Explained
           ch == Chooser(S)
           x(s) == CHOOSE o \in s : TRUE
           eq(it) == it = [s \in SUBSET S |-> IF s = {} THEN 0
                 ELSE (ledger[x(s)].earned * EarnedOf[x(s)]
                         + ledger[x(s)].refund * RedeemOf[x(s)]) + it[s \ {x(s)}]]
           it0 == CHOOSE it : eq(it)
<1>1. IsFiniteSet(S)
  BY SetsAssumption, FS_Subset
<1>2. \A s \in SUBSET S : s # {} =>
          ch[s] = x(s) /\ f[ch[s]] = ledger[x(s)].earned * EarnedOf[x(s)]
                                   + ledger[x(s)].refund * RedeemOf[x(s)]
  BY DEF Chooser, Explained
<1>3. ASSUME NEW it PROVE Sums(it, f, ch, S) <=> eq(it)
  <2> HIDE DEF f, ch, x
  <2> QED
    BY <1>2 DEF Sums, SumsOver
<1>4. MapThenSumSet(LAMBDA o : ledger[o].earned * EarnedOf[o]
                              + ledger[o].refund * RedeemOf[o], S) = it0[S]
  BY DEF MapThenSumSet, MapThenFoldSet
<1>5. \A o \in S : f[o] \in Int
  BY ColumnsAssumption DEF Explained, TypeOK
<1>6. Chooses(ch, S)
  BY ChooserChooses
<1> HIDE DEF f, ch, eq
<1>7. PICK it : Sums(it, f, ch, S)
  BY <1>1, <1>6, SumsExist
<1>8. eq(it0)
  <2>1. eq(it)
    BY <1>3, <1>7
  <2> QED
    BY <2>1
<1> HIDE DEF it0
<1>9. Sums(it0, f, ch, S)
  BY <1>3, <1>8
<1>10. it0[S] = Total(f, S)
  <2>1. S \in SUBSET S
    OBVIOUS
  <2> QED
    BY <1>1, <1>5, <1>6, <1>9, <2>1, SumIsTotal
<1> QED
  BY <1>4, <1>10 DEF f

LEMMA SpentTotal ==
    ASSUME NEW S, S \subseteq Orders
    PROVE  MapThenSumSet(LAMBDA o : TotalOf[o], S) = Total(TotalOf, S)
<1> DEFINE ch == Chooser(S)
           eq(it) == it = [s \in SUBSET S |-> IF s = {} THEN 0
                 ELSE TotalOf[CHOOSE o \in s : TRUE] + it[s \ {CHOOSE o \in s : TRUE}]]
           it0 == CHOOSE it : eq(it)
<1>1. IsFiniteSet(S) /\ \A o \in S : TotalOf[o] \in Int
  BY SetsAssumption, ColumnsAssumption, FS_Subset
<1>2. \A s \in SUBSET S : s # {} => ch[s] = CHOOSE o \in s : TRUE
  BY DEF Chooser
<1>3. ASSUME NEW it PROVE Sums(it, TotalOf, ch, S) <=> eq(it)
  <2> HIDE DEF ch
  <2> QED
    BY <1>2 DEF Sums, SumsOver
<1>4. MapThenSumSet(LAMBDA o : TotalOf[o], S) = it0[S]
  BY DEF MapThenSumSet, MapThenFoldSet
<1>5. Chooses(ch, S)
  BY ChooserChooses
<1> HIDE DEF ch, eq
<1>6. PICK it : Sums(it, TotalOf, ch, S)
  BY <1>1, <1>5, SumsExist
<1>7. eq(it0)
  <2>1. eq(it)
    BY <1>3, <1>6
  <2> QED
    BY <2>1
<1> HIDE DEF it0
<1>8. Sums(it0, TotalOf, ch, S)
  BY <1>3, <1>7
<1>9. S \in SUBSET S
  OBVIOUS
<1> QED
  BY <1>1, <1>4, <1>5, <1>8, <1>9, SumIsTotal

USE SetsAssumption, ColumnsAssumption

-----------------------------------------------------------------------------
(* Type correctness *)

\* The row that an update writes is again a row.
LEMMA WrittenRow ==
    ASSUME NEW row \in OrderRow, NEW next \in OrderStatus,
           NEW user \in Users
    PROVE  Written(row, next, user) \in OrderRow
<1>1. StampOf(next) \subseteq Stamps
  BY DEF StampOf, Stamps, OrderStatus
<1>. QED
  BY <1>1 DEF Written, OrderRow

LEMMA InitType == Init => TypeOK
<1>. SUFFICES ASSUME Init PROVE TypeOK
  OBVIOUS
<1>1. order \in [Orders -> OrderRow]
  BY DEF Init, OrderRow, OrderStatus
<1>2. account \in [Customers -> AccountRow]
  BY DEF Init, AccountRow
<1>3. ledger \in [Orders -> [earned : Nat, refund : Nat]]
  BY DEF Init
<1>4. usedCount \in [Coupons -> Int]
  <2>1. ASSUME NEW k \in Coupons
        PROVE  Cardinality({o \in Orders : CouponOf[o] = k}) \in Nat
    BY FS_Subset, FS_CardinalityType
  <2>. QED
    BY <2>1 DEF Init
<1>5. req \in [Handlers -> Request]
  BY DEF Init, Request, Idle, OrderStatus
<1>6. cron \in [CronRuns -> CronRun]
  BY DEF Init, CronRun, NoRun
<1>. QED
  BY <1>1, <1>2, <1>3, <1>4, <1>5, <1>6 DEF Init, TypeOK, Idle

\* A pending request names an order, a user and a status.
LEMMA PendingRequest ==
    ASSUME TypeOK, NEW h \in Handlers, req[h].op # "idle"
    PROVE  /\ req[h].order \in Orders
           /\ req[h].user \in Users
           /\ req[h].next \in OrderStatus
           /\ order[req[h].order] \in OrderRow
           /\ Written(order[req[h].order], req[h].next, req[h].user) \in OrderRow
<1>1. req[h].order \in Orders /\ req[h].user \in Users
  BY DEF TypeOK
<1>2. req[h].next \in OrderStatus
  BY DEF TypeOK, Request
<1>3. order[req[h].order] \in OrderRow
  BY <1>1 DEF TypeOK
<1>. QED
  BY <1>1, <1>2, <1>3, WrittenRow

\* What a handler answers, or starts to await, keeps the requests well-typed.
LEMMA AnswerType ==
    ASSUME TypeOK, NEW h \in Handlers, Answer(h)
    PROVE  /\ req' \in [Handlers -> Request]
           /\ \A g \in Handlers : req'[g].op # "idle" =>
                 req'[g].order \in Orders /\ req'[g].user \in Users
<1>1. Idle \in Request /\ Idle.op = "idle"
  BY DEF Idle, Request, OrderStatus
<1>. QED
  BY <1>1 DEF TypeOK, Answer

LEMMA AwaitType ==
    ASSUME TypeOK, NEW h \in Handlers, NEW op \in {"status", "reject"},
           NEW o \in Orders, NEW user \in Users, NEW next \in OrderStatus,
           Await(h, op, o, user, next)
    PROVE  /\ req' \in [Handlers -> Request]
           /\ \A g \in Handlers : req'[g].op # "idle" =>
                 req'[g].order \in Orders /\ req'[g].user \in Users
           /\ issued' \in 0..MaxRequests
<1>1. [op |-> op, order |-> o, user |-> user, next |-> next] \in Request
  BY DEF Request
<1>2. issued' \in 0..MaxRequests
  BY DEF TypeOK, Await
<1>. QED
  BY <1>1, <1>2 DEF TypeOK, Await

LEMMA CreditType ==
    ASSUME TypeOK, NEW o \in Orders, NEW row \in OrderRow,
           FinalizeDeliveredCashback(o, row)
    PROVE  /\ order' \in [Orders -> OrderRow]
           /\ account' \in [Customers -> AccountRow]
           /\ ledger' \in [Orders -> [earned : Nat, refund : Nat]]
<1>1. CASE CustomerOf[o] = NoCustomer \/ row.credited
  BY <1>1 DEF TypeOK, FinalizeDeliveredCashback, Credit, NoCredit
<1>2. CASE ~(CustomerOf[o] = NoCustomer \/ row.credited)
  <2>. DEFINE c == CustomerOf[o]
  <2>1. c \in Customers
    BY <1>2
  <2>2. [row EXCEPT !.credited = TRUE] \in OrderRow
    BY DEF OrderRow
  <2>3. order' \in [Orders -> OrderRow]
    BY <1>2, <2>2 DEF TypeOK, FinalizeDeliveredCashback, Credit, NoCredit
  <2>4. account[c] \in AccountRow /\ EarnedOf[o] \in Int /\ TotalOf[o] \in Int
    BY <2>1 DEF TypeOK
  <2>5. [balance |-> account[c].balance + EarnedOf[o],
         totalSpent |-> account[c].totalSpent + TotalOf[o],
         totalOrders |-> account[c].totalOrders + 1] \in AccountRow
    BY <2>4 DEF AccountRow
  <2>6. account' \in [Customers -> AccountRow]
    BY <1>2, <2>1, <2>5 DEF TypeOK, FinalizeDeliveredCashback, Credit, NoCredit
  <2>7. ledger' \in [Orders -> [earned : Nat, refund : Nat]]
    <3>1. [ledger[o] EXCEPT !.earned = @ + 1] \in [earned : Nat, refund : Nat]
      BY DEF TypeOK
    <3>2. \/ ledger' = ledger
          \/ ledger' = [ledger EXCEPT ![o] = [ledger[o] EXCEPT !.earned = @ + 1]]
      BY <1>2 DEF FinalizeDeliveredCashback, Credit, NoCredit
    <3>. QED
      BY <3>1, <3>2 DEF TypeOK
  <2>. QED
    BY <2>3, <2>6, <2>7
<1>. QED
  BY <1>1, <1>2

LEMMA RefundType ==
    ASSUME TypeOK, NEW o \in Orders, RefundOrderCashbackSpend(o)
    PROVE  /\ account' \in [Customers -> AccountRow]
           /\ ledger' \in [Orders -> [earned : Nat, refund : Nat]]
<1>1. CASE CustomerOf[o] = NoCustomer \/ RedeemOf[o] = 0
  BY <1>1 DEF TypeOK, RefundOrderCashbackSpend
<1>2. CASE ~(CustomerOf[o] = NoCustomer \/ RedeemOf[o] = 0)
  <2>1. CustomerOf[o] \in Customers
    BY <1>2
  <2>2. account[CustomerOf[o]] \in AccountRow /\ RedeemOf[o] \in Int
    BY <2>1 DEF TypeOK
  <2>3. [account[CustomerOf[o]] EXCEPT !.balance = @ + RedeemOf[o]] \in AccountRow
    BY <2>2 DEF AccountRow
  <2>4. account' \in [Customers -> AccountRow]
    BY <1>2, <2>1, <2>3 DEF TypeOK, RefundOrderCashbackSpend
  <2>5. ledger' \in [Orders -> [earned : Nat, refund : Nat]]
    <3>1. ledger \in [Orders -> [earned : Nat, refund : Nat]]
      BY DEF TypeOK
    <3>2. ledger' = [ledger EXCEPT ![o].refund = @ + 1]
      BY <1>2 DEF RefundOrderCashbackSpend
    <3>. QED
      BY <3>1, <3>2
  <2>. QED
    BY <2>4, <2>5
<1>. QED
  BY <1>1, <1>2

LEMMA RefundCouponType ==
    ASSUME TypeOK, NEW o \in Orders, RefundCouponOnCancel(o)
    PROVE  /\ couponRef' \in [Orders -> Coupons \cup {NoCoupon}]
           /\ usedCount' \in [Coupons -> Int]
           /\ redemption' \subseteq Orders
<1>1. CASE couponRef[o] = NoCoupon
  BY <1>1 DEF TypeOK, RefundCouponOnCancel, couponVars
<1>2. CASE couponRef[o] # NoCoupon
  <2>1. couponRef[o] \in Coupons
    BY <1>2 DEF TypeOK
  <2>. QED
    BY <1>2, <2>1 DEF TypeOK, RefundCouponOnCancel
<1>. QED
  BY <1>1, <1>2

-----------------------------------------------------------------------------
LEMMA RequestType ==
    ASSUME TypeOK, NEW h \in Handlers, RequestStep(h)
    PROVE  TypeOK'
<1>1. ASSUME NEW s \in Staff, NEW o \in Orders, NEW next \in OrderStatus,
             ReadStatus(h, s[1], s[2], o, next)
      PROVE  TypeOK'
  <2>1. s[2] \in Users
    BY DEF Users
  <2>2. Await(h, "status", o, s[2], next)
    BY <1>1 DEF ReadStatus
  <2>. QED
    BY <1>1, <2>1, <2>2, AwaitType
    DEF TypeOK, ReadStatus, orderVars, couponVars, cronVars
<1>2. CASE WriteStatus(h)
  <2>1. req[h].op # "idle"
    BY <1>2 DEF WriteStatus, Store
  <2>2. order' \in [Orders -> OrderRow]
    BY <1>2, <2>1, PendingRequest DEF TypeOK, WriteStatus, Store
  <2>3. Answer(h)
    BY <1>2 DEF WriteStatus, Store
  <2>. QED
    BY <1>2, <2>2, <2>3, AnswerType DEF TypeOK, WriteStatus, Store, couponVars, cronVars
<1>3. CASE Deliver(h)
  <2>1. req[h].op # "idle"
    BY <1>3 DEF Deliver
  <2>2. /\ order' \in [Orders -> OrderRow]
        /\ account' \in [Customers -> AccountRow]
        /\ ledger' \in [Orders -> [earned : Nat, refund : Nat]]
    BY <1>3, <2>1, PendingRequest, CreditType DEF Deliver
  <2>3. Answer(h)
    BY <1>3 DEF Deliver
  <2>. QED
    BY <1>3, <2>2, <2>3, AnswerType DEF TypeOK, Deliver, couponVars, cronVars
<1>4. CASE Cancel(h)
  <2>1. req[h].op # "idle"
    BY <1>4 DEF Cancel
  <2>2. order' \in [Orders -> OrderRow]
    BY <1>4, <2>1, PendingRequest DEF TypeOK, Cancel
  <2>3. /\ account' \in [Customers -> AccountRow]
        /\ ledger' \in [Orders -> [earned : Nat, refund : Nat]]
        /\ couponRef' \in [Orders -> Coupons \cup {NoCoupon}]
        /\ usedCount' \in [Coupons -> Int]
        /\ redemption' \subseteq Orders
    BY <1>4, <2>1, PendingRequest, RefundType, RefundCouponType DEF Cancel
  <2>4. Answer(h)
    BY <1>4 DEF Cancel
  <2>. QED
    BY <1>4, <2>2, <2>3, <2>4, AnswerType DEF TypeOK, Cancel, cronVars
<1>5. ASSUME NEW user \in Users, NEW o \in Orders, BeginReject(h, user, o)
      PROVE  TypeOK'
  <2>1. Await(h, "reject", o, user, "READY") /\ "READY" \in OrderStatus
    BY <1>5 DEF BeginReject, OrderStatus
  <2>. QED
    BY <1>5, <2>1, AwaitType DEF TypeOK, BeginReject, orderVars, couponVars, cronVars
<1>6. CASE ReadForReject(h)
  <2>1. req[h].op # "idle"
    BY <1>6 DEF ReadForReject
  <2>2. ASSUME NEW op \in {"hide", "giveBack"}
        PROVE  [req[h] EXCEPT !.op = op] \in Request
    <3>1. req[h] \in Request
      BY DEF TypeOK
    <3>. QED
      BY <3>1 DEF Request
  <2>3. CASE Answer(h)
    BY <1>6, <2>3, AnswerType
    DEF TypeOK, ReadForReject, orderVars, couponVars, cronVars
  <2>4. ASSUME NEW op \in {"hide", "giveBack"},
               req' = [req EXCEPT ![h] = [req[h] EXCEPT !.op = op]]
        PROVE  TypeOK'
    <3>1. req' \in [Handlers -> Request]
      BY <2>2, <2>4 DEF TypeOK
    <3>2. ASSUME NEW g \in Handlers, req'[g].op # "idle"
          PROVE  req'[g].order \in Orders /\ req'[g].user \in Users
      <4>1. req[h] \in Request
        BY DEF TypeOK
      <4>2. CASE g = h
        BY <2>1, <2>4, <4>1, <4>2 DEF TypeOK, Request
      <4>3. CASE g # h
        BY <2>4, <3>2, <4>3 DEF TypeOK
      <4>. QED
        BY <4>2, <4>3
    <3>. QED
      BY <1>6, <3>1, <3>2 DEF TypeOK, ReadForReject, orderVars, couponVars, cronVars
  <2>. QED
    BY <1>6, <2>3, <2>4 DEF ReadForReject
<1>7. CASE HideOrder(h)
  <2>1. Answer(h) /\ cooling' \subseteq Users
    BY <1>7 DEF HideOrder, Reject, TypeOK
  <2>. QED
    BY <1>7, <2>1, AnswerType DEF TypeOK, HideOrder, Reject, orderVars, couponVars, cronVars
<1>8. CASE GiveBack(h)
  <2>1. req[h].op # "idle"
    BY <1>8 DEF GiveBack
  <2>2. PICK o \in Orders : o = req[h].order
    BY <2>1, PendingRequest
  <2>3. GivenBack(order[o]) \in OrderRow
    <3>1. order[o] \in OrderRow
      BY DEF TypeOK
    <3>. QED
      BY <3>1 DEF GivenBack, OrderRow, OrderStatus
  <2>4. order' \in [Orders -> OrderRow]
    BY <1>8, <2>2, <2>3 DEF TypeOK, GiveBack
  <2>5. Answer(h) /\ cooling' \subseteq Users
    BY <1>8, <2>1 DEF GiveBack, TypeOK
  <2>. QED
    BY <1>8, <2>4, <2>5, AnswerType DEF TypeOK, GiveBack, couponVars, cronVars
<1>9. CASE RequestFails(h)
  <2>1. Answer(h)
    BY <1>9 DEF RequestFails
  <2>. QED
    BY <1>9, <2>1, AnswerType DEF TypeOK, RequestFails, orderVars, couponVars, cronVars
<1>. QED
  BY <1>1, <1>2, <1>3, <1>4, <1>5, <1>6, <1>7, <1>8, <1>9 DEF RequestStep

LEMMA CronType ==
    ASSUME TypeOK, NEW r \in CronRuns, CronStep(r)
    PROVE  TypeOK'
<1>1. CASE ReadDue(r)
  <2>1. PICK ids \in SUBSET Activatable :
           cron' = [cron EXCEPT ![r] = [pc |-> "activate", ids |-> ids]]
    BY <1>1 DEF ReadDue, ReadBatch, Batches
  <2>2. [pc |-> "activate", ids |-> ids] \in CronRun
    BY DEF TypeOK, Activatable, CronRun
  <2>. QED
    BY <1>1, <2>1, <2>2
    DEF TypeOK, ReadDue, ReadBatch, orderVars, couponVars, requestVars
<1>2. CASE ActivateDue(r)
  <2>1. [cron[r] EXCEPT !.pc = "notify"] \in CronRun
    BY DEF TypeOK, CronRun
  <2>2. cron' \in [CronRuns -> CronRun]
    BY <1>2, <2>1 DEF TypeOK, ActivateDue, Release
  <2>3. ASSUME NEW o \in Orders
        PROVE  [order[o] EXCEPT !.status = "NEW"] \in OrderRow
    <3>1. order[o] \in OrderRow
      BY DEF TypeOK
    <3>. QED
      BY <3>1 DEF OrderRow, OrderStatus
  <2>4. order' \in [Orders -> OrderRow]
    BY <1>2, <2>3 DEF TypeOK, ActivateDue, Release
  <2>. QED
    BY <1>2, <2>2, <2>4 DEF TypeOK, ActivateDue, Release, couponVars, requestVars
<1>3. ASSUME NEW o \in Orders, NotifyActivated(r, o)
      PROVE  TypeOK'
  <2>1. NoRun \in CronRun /\ [pc |-> "notify", ids |-> cron[r].ids \ {o}] \in CronRun
    BY DEF TypeOK, CronRun, NoRun
  <2>2. cron' \in [CronRuns -> CronRun] /\ notified' \in [Orders -> Nat]
    BY <1>3, <2>1 DEF TypeOK, NotifyActivated, Notify
  <2>. QED
    BY <1>3, <2>2 DEF TypeOK, NotifyActivated, Notify, orderVars, couponVars, requestVars
<1>. QED
  BY <1>1, <1>2, <1>3 DEF CronStep

LEMMA NextType == TypeOK /\ [Next]_vars => TypeOK'
<1>. SUFFICES ASSUME TypeOK, [Next]_vars PROVE TypeOK'
  OBVIOUS
<1>1. CASE UNCHANGED vars
  BY <1>1 DEF TypeOK, vars, orderVars, couponVars, requestVars, cronVars
<1>2. ASSUME NEW user \in Users, CooldownExpires(user)
      PROVE  TypeOK'
  BY <1>2 DEF TypeOK, CooldownExpires, orderVars, couponVars, cronVars
<1>3. ASSUME NEW k \in Coupons, DeleteCoupon(k)
      PROVE  TypeOK'
  BY <1>3 DEF TypeOK, DeleteCoupon, orderVars, requestVars, cronVars
<1>4. ASSUME NEW o \in Orders, BecomeDue(o)
      PROVE  TypeOK'
  BY <1>4 DEF TypeOK, BecomeDue, orderVars, couponVars, requestVars
<1>5. CASE Restart
  <2>1. Idle \in Request /\ Idle.op = "idle" /\ NoRun \in CronRun
    BY DEF Idle, Request, OrderStatus, NoRun, CronRun
  <2>2. restarts' \in 0..MaxRestarts
    BY <1>5 DEF Restart, TypeOK
  <2>. QED
    BY <1>5, <2>1, <2>2 DEF TypeOK, Restart, orderVars, couponVars
<1>. QED
  BY <1>1, <1>2, <1>3, <1>4, <1>5, RequestType, CronType DEF Next

\* Every state the requests, the job and the restarts reach is well-typed.
THEOREM TypeCorrect == Spec => []TypeOK
  BY InitType, NextType, PTL DEF Spec

-----------------------------------------------------------------------------
(* What one step can do to one order *)

Kept(o) == order'[o] = order[o] /\ ledger'[o] = ledger[o]

Stored(o, h) ==
    /\ req[h].op = "status" /\ req[h].next \in {"PICKING", "READY", "DELIVERING"}
    /\ req[h].order = o
    /\ order'[o] = Written(order[o], req[h].next, req[h].user)
    /\ ledger'[o] = ledger[o]

Ended(o, h) ==
    /\ req[h].op = "status" /\ req[h].next = "DELIVERED"
    /\ req[h].order = o
    /\ \/ /\ CustomerOf[o] = NoCustomer \/ order[o].credited
          /\ order'[o] = Written(order[o], "DELIVERED", req[h].user)
          /\ ledger'[o] = ledger[o]
       \/ /\ CustomerOf[o] # NoCustomer /\ ~order[o].credited
          /\ order'[o] = [Written(order[o], "DELIVERED", req[h].user)
                            EXCEPT !.credited = TRUE]
          /\ ledger'[o] = IF EarnedOf[o] > 0
                          THEN [ledger[o] EXCEPT !.earned = @ + 1]
                          ELSE ledger[o]

Dropped(o, h) ==
    /\ req[h].op = "status" /\ req[h].next = "CANCELLED"
    /\ req[h].order = o
    /\ order'[o] = Written(order[o], "CANCELLED", req[h].user)
    /\ ledger'[o] = IF CustomerOf[o] = NoCustomer \/ RedeemOf[o] = 0
                    THEN ledger[o]
                    ELSE [ledger[o] EXCEPT !.refund = @ + 1]

Returned(o, h) ==
    /\ req[h].op = "giveBack"
    /\ req[h].order = o
    /\ order'[o] = GivenBack(order[o])
    /\ ledger'[o] = ledger[o]

Activated(o) ==
    /\ order[o].status = "PENDING_SCHEDULE"
    /\ order'[o] = [order[o] EXCEPT !.status = "NEW"]
    /\ ledger'[o] = ledger[o]

RowStep(o) ==
    \/ Kept(o)
    \/ \E h \in Handlers : Stored(o, h) \/ Ended(o, h) \/ Dropped(o, h) \/ Returned(o, h)
    \/ Activated(o)

LEMMA Credits ==
    ASSUME TypeOK, NEW h \in Handlers, Deliver(h), NEW o \in Orders
    PROVE  Kept(o) \/ Ended(o, h)
<1>. DEFINE p == req[h].order
            row == Written(order[p], "DELIVERED", req[h].user)
<1>1. /\ req[h].op = "status" /\ req[h].next = "DELIVERED"
      /\ p \in Orders
      /\ FinalizeDeliveredCashback(p, row)
  BY DEF Deliver, TypeOK
<1>2. row.credited = order[p].credited
  <2>1. order[p] \in OrderRow
    BY <1>1 DEF TypeOK
  <2>. QED
    BY <2>1 DEF Written, OrderRow
<1>. HIDE DEF row
<1>3. CASE CustomerOf[p] = NoCustomer \/ order[p].credited
  <2>1. order' = [order EXCEPT ![p] = row] /\ ledger' = ledger
    BY <1>1, <1>2, <1>3 DEF FinalizeDeliveredCashback, Credit, NoCredit
  <2>. QED
    BY <1>1, <1>3, <2>1 DEF TypeOK, Kept, Ended, row
<1>4. CASE CustomerOf[p] # NoCustomer /\ ~order[p].credited
  <2>1. /\ order' = [order EXCEPT ![p] = [row EXCEPT !.credited = TRUE]]
        /\ ledger' = IF EarnedOf[p] > 0
                     THEN [ledger EXCEPT ![p] = [ledger[p] EXCEPT !.earned = @ + 1]]
                     ELSE ledger
    BY <1>1, <1>2, <1>4 DEF FinalizeDeliveredCashback, Credit, NoCredit
  <2>2. CASE o # p
    BY <2>1, <2>2 DEF TypeOK, Kept
  <2>3. CASE o = p
    <3>1. /\ order'[p] = [row EXCEPT !.credited = TRUE]
          /\ ledger'[p] = IF EarnedOf[p] > 0
                          THEN [ledger[p] EXCEPT !.earned = @ + 1]
                          ELSE ledger[p]
      BY <1>1, <2>1 DEF TypeOK
    <3>. QED
      BY <1>1, <1>4, <2>3, <3>1 DEF Ended, row
  <2>. QED
    BY <2>2, <2>3
<1>. QED
  BY <1>3, <1>4

LEMMA OrderStep ==
    ASSUME TypeOK, [Next]_vars, NEW o \in Orders
    PROVE  RowStep(o)
<1>1. CASE UNCHANGED <<order, ledger>>
  BY <1>1 DEF RowStep, Kept
<1>2. ASSUME NEW h \in Handlers, WriteStatus(h)
      PROVE  RowStep(o)
  <2>1. Kept(o) \/ Stored(o, h)
    BY <1>2 DEF TypeOK, WriteStatus, Store, Kept, Stored
  <2>. QED
    BY <2>1 DEF RowStep
<1>3. ASSUME NEW h \in Handlers, Deliver(h)
      PROVE  RowStep(o)
  BY <1>3, Credits DEF RowStep
<1>4. ASSUME NEW h \in Handlers, Cancel(h)
      PROVE  RowStep(o)
  <2>. DEFINE p == req[h].order
  <2>1. /\ req[h].op = "status" /\ req[h].next = "CANCELLED"
        /\ p \in Orders
        /\ order' = [order EXCEPT ![p] = Written(order[p], "CANCELLED", req[h].user)]
        /\ ledger' = IF CustomerOf[p] = NoCustomer \/ RedeemOf[p] = 0
                     THEN ledger
                     ELSE [ledger EXCEPT ![p] = [ledger[p] EXCEPT !.refund = @ + 1]]
    BY <1>4 DEF Cancel, TypeOK, RefundOrderCashbackSpend
  <2>2. CASE o # p
    BY <2>1, <2>2 DEF TypeOK, Kept, RowStep
  <2>3. CASE o = p
    <3>1. /\ order'[p] = Written(order[p], "CANCELLED", req[h].user)
          /\ ledger'[p] = IF CustomerOf[p] = NoCustomer \/ RedeemOf[p] = 0
                          THEN ledger[p]
                          ELSE [ledger[p] EXCEPT !.refund = @ + 1]
      BY <2>1 DEF TypeOK
    <3>2. Dropped(o, h)
      BY <2>1, <2>3, <3>1 DEF Dropped
    <3>. QED
      BY <3>2 DEF RowStep
  <2>. QED
    BY <2>2, <2>3
<1>5. ASSUME NEW h \in Handlers, GiveBack(h)
      PROVE  RowStep(o)
  <2>1. Kept(o) \/ Returned(o, h)
    BY <1>5 DEF TypeOK, GiveBack, Kept, Returned
  <2>. QED
    BY <2>1 DEF RowStep
<1>6. ASSUME NEW r \in CronRuns, ActivateDue(r)
      PROVE  RowStep(o)
  BY <1>6 DEF ActivateDue, Release, RowStep, Kept, Activated
<1>7. ASSUME NEW h \in Handlers, RequestStep(h)
      PROVE  RowStep(o)
  BY <1>1, <1>2, <1>3, <1>4, <1>5, <1>7
  DEF RequestStep, ReadStatus, BeginReject, ReadForReject, HideOrder, Reject, RequestFails,
      orderVars
<1>8. ASSUME NEW r \in CronRuns, CronStep(r)
      PROVE  RowStep(o)
  BY <1>1, <1>6, <1>8 DEF CronStep, ReadDue, ReadBatch, NotifyActivated, Notify, orderVars
<1>. QED
  BY <1>1, <1>7, <1>8
  DEF Next, CooldownExpires, DeleteCoupon, BecomeDue, Restart, vars, orderVars

-----------------------------------------------------------------------------
(* Credited once *)

LEMMA CreditedStep ==
    ASSUME TypeOK, CreditedOnce, [Next]_vars
    PROVE  CreditedOnce'
<1>. SUFFICES ASSUME NEW o \in Orders
              PROVE  ledger'[o].earned =
                        IF order'[o].credited /\ EarnedOf[o] > 0 THEN 1 ELSE 0
  BY DEF CreditedOnce
<1>1. /\ ledger[o] \in [earned : Nat, refund : Nat]
      /\ order[o] \in OrderRow
      /\ ledger[o].earned = IF order[o].credited /\ EarnedOf[o] > 0 THEN 1 ELSE 0
  BY DEF TypeOK, CreditedOnce
<1>2. RowStep(o)
  BY OrderStep
<1>3. CASE Kept(o) \/ Activated(o)
  BY <1>1, <1>3 DEF Kept, Activated, OrderRow
<1>4. ASSUME NEW h \in Handlers, Stored(o, h) \/ Dropped(o, h) \/ Returned(o, h)
      PROVE  order'[o].credited = order[o].credited /\ ledger'[o].earned = ledger[o].earned
  BY <1>1, <1>4 DEF Stored, Dropped, Returned, Written, GivenBack, OrderRow
<1>5. ASSUME NEW h \in Handlers, Ended(o, h)
      PROVE  ledger'[o].earned =
                IF order'[o].credited /\ EarnedOf[o] > 0 THEN 1 ELSE 0
  <2>. DEFINE row == Written(order[o], "DELIVERED", req[h].user)
  <2>1. row.credited = order[o].credited /\ [row EXCEPT !.credited = TRUE].credited
    BY <1>1 DEF Written, OrderRow
  <2>2. CASE CustomerOf[o] = NoCustomer \/ order[o].credited
    BY <1>1, <1>5, <2>1, <2>2 DEF Ended
  <2>3. CASE CustomerOf[o] # NoCustomer /\ ~order[o].credited
    <3>1. /\ order'[o].credited
          /\ ledger'[o] = IF EarnedOf[o] > 0
                          THEN [ledger[o] EXCEPT !.earned = @ + 1]
                          ELSE ledger[o]
      BY <1>5, <2>1, <2>3 DEF Ended
    <3>2. ledger[o].earned = 0
      BY <1>1, <2>3
    <3>3. ledger'[o].earned = IF EarnedOf[o] > 0 THEN 1 ELSE 0
      BY <1>1, <3>1, <3>2
    <3>. QED
      BY <3>1, <3>3
  <2>. QED
    BY <2>2, <2>3
<1>. QED
  BY <1>1, <1>2, <1>3, <1>4, <1>5 DEF RowStep

\* However many DELIVERED requests reach an order, its cashback is credited
\* at most once, and exactly when cashbackCreditedAt is set.
THEOREM CashbackCreditedOnce == Spec => []CreditedOnce
<1>1. Init => CreditedOnce
  BY DEF Init, CreditedOnce
<1>. QED
  BY <1>1, TypeCorrect, CreditedStep, PTL DEF Spec

-----------------------------------------------------------------------------
(* A final status is settled *)

LEMMA TerminalStep ==
    ASSUME TypeOK, TerminalIsSettled, [Next]_vars
    PROVE  TerminalIsSettled'
<1>. SUFFICES ASSUME NEW o \in Orders, CustomerOf[o] # NoCustomer
              PROVE  /\ order'[o].status = "DELIVERED" => order'[o].credited
                     /\ order'[o].status = "CANCELLED" /\ RedeemOf[o] > 0
                           => ledger'[o].refund > 0
  BY DEF TerminalIsSettled
<1>1. /\ ledger[o] \in [earned : Nat, refund : Nat]
      /\ order[o] \in OrderRow
      /\ order[o].status = "DELIVERED" => order[o].credited
      /\ order[o].status = "CANCELLED" /\ RedeemOf[o] > 0 => ledger[o].refund > 0
  BY DEF TypeOK, TerminalIsSettled
<1>2. RowStep(o)
  BY OrderStep
<1>3. CASE Kept(o) \/ Activated(o)
  BY <1>1, <1>3 DEF Kept, Activated, OrderRow
<1>4. ASSUME NEW h \in Handlers, Stored(o, h) \/ Returned(o, h)
      PROVE  order'[o].status \notin {"DELIVERED", "CANCELLED"}
  BY <1>1, <1>4 DEF Stored, Returned, Written, GivenBack, OrderRow
<1>5. ASSUME NEW h \in Handlers, Ended(o, h)
      PROVE  order'[o].status = "DELIVERED" /\ order'[o].credited
  <2>1. CASE order[o].credited /\ order'[o] = Written(order[o], "DELIVERED", req[h].user)
    BY <1>1, <2>1 DEF Written, OrderRow
  <2>2. CASE order'[o] = [Written(order[o], "DELIVERED", req[h].user)
                            EXCEPT !.credited = TRUE]
    BY <1>1, <2>2 DEF Written, OrderRow
  <2>. QED
    BY <1>5, <2>1, <2>2 DEF Ended
<1>6. ASSUME NEW h \in Handlers, Dropped(o, h)
      PROVE  order'[o].status = "CANCELLED" /\ (RedeemOf[o] > 0 => ledger'[o].refund > 0)
  BY <1>1, <1>6 DEF Dropped, Written, OrderRow
<1>. QED
  BY <1>1, <1>2, <1>3, <1>4, <1>5, <1>6 DEF RowStep

\* Status and settlement commit together: no failure or restart leaves an
\* order delivered without its credit or cancelled without its refund.
THEOREM TerminalSettled == Spec => []TerminalIsSettled
<1>1. Init => TerminalIsSettled
  BY DEF Init, TerminalIsSettled
<1>. QED
  BY <1>1, TypeCorrect, TerminalStep, PTL DEF Spec

\* No request and no late updateMany brings an order back to NEW.
THEOREM NewOnlyFromPending == Spec => OnlyPendingBecomesNew
<1>1. ASSUME TypeOK, [Next]_vars, NEW o \in Orders,
             order'[o].status = "NEW", order[o].status # "NEW"
      PROVE  order[o].status = "PENDING_SCHEDULE"
  <2>1. RowStep(o) /\ order[o] \in OrderRow
    BY <1>1, OrderStep DEF TypeOK
  <2>2. ASSUME NEW h \in Handlers,
               Stored(o, h) \/ Ended(o, h) \/ Dropped(o, h) \/ Returned(o, h)
        PROVE  order'[o].status # "NEW"
    BY <2>1, <2>2 DEF Stored, Ended, Dropped, Returned, Written, GivenBack, OrderRow
  <2>. QED
    BY <1>1, <2>1, <2>2 DEF RowStep, Kept, Activated
<1>2. TypeOK /\ [Next]_vars =>
         [\A o \in Orders : order'[o].status = "NEW" /\ order[o].status # "NEW"
             => order[o].status = "PENDING_SCHEDULE"]_vars
  BY <1>1
<1>. QED
  BY <1>2, TypeCorrect, PTL DEF Spec, OnlyPendingBecomesNew

-----------------------------------------------------------------------------
(* Stages leave evidence *)

\* A request that is about to be awaited holds the evidence of the row it read.
LEMMA ReadHolds ==
    ASSUME TypeOK, StageEvidence, NEW h \in Handlers, RequestStep(h),
           req'[h] # req[h], req'[h].op # "idle"
    PROVE  /\ req'[h].order \in Orders
           /\ order' = order
           /\ RequestEvidence(req'[h], order[req'[h].order])
<1>1. ASSUME NEW s \in Staff, NEW o \in Orders, NEW next \in OrderStatus,
             ReadStatus(h, s[1], s[2], o, next)
      PROVE  /\ req'[h].order = o
             /\ order' = order
             /\ RequestEvidence(req'[h], order[o])
  <2>1. /\ req'[h] = [op |-> "status", order |-> o, user |-> s[2], next |-> next]
        /\ order' = order
        /\ next \in Transitions(order[o].status)
    BY <1>1 DEF ReadStatus, Await, MayApply, TypeOK, orderVars
  <2>2. RowEvidence(order[o]) /\ order[o].status \in OrderStatus
    BY DEF StageEvidence, TypeOK, OrderRow
  <2>3. /\ next = "READY" => order[o].status = "PICKING"
        /\ next = "DELIVERING" => order[o].status = "READY"
        /\ next = "DELIVERED" => order[o].status = "DELIVERING"
    BY <2>1, <2>2 DEF Transitions, TransitionTable, OrderStatus
  <2>. QED
    BY <2>1, <2>2, <2>3 DEF RowEvidence, RequestEvidence
<1>2. ASSUME NEW user \in Users, NEW o \in Orders, BeginReject(h, user, o)
      PROVE  /\ req'[h].order = o
             /\ order' = order
             /\ RequestEvidence(req'[h], order[o])
  BY <1>2 DEF BeginReject, Await, RequestEvidence, TypeOK, orderVars
<1>3. CASE ReadForReject(h)
  <2>1. req[h] \in Request /\ req[h].op = "reject" /\ req[h].order \in Orders
    BY <1>3 DEF ReadForReject, TypeOK
  <2>2. RowEvidence(order[req[h].order])
    BY <2>1 DEF StageEvidence
  <2>3. \/ req'[h] = [req[h] EXCEPT !.op = "hide"]
        \/ req'[h] = [req[h] EXCEPT !.op = "giveBack"]
           /\ order[req[h].order].status = "DELIVERING"
        \/ req'[h] = Idle
    BY <1>3 DEF ReadForReject, TypeOK, Answer
  <2>4. req'[h].order = req[h].order /\ order' = order
    BY <1>3, <2>1, <2>3 DEF Idle, Request, ReadForReject, orderVars
  <2>. QED
    BY <2>1, <2>2, <2>3, <2>4 DEF RowEvidence, RequestEvidence, Idle, Request
<1>4. CASE Answer(h)
  BY <1>4 DEF Answer, Idle, TypeOK
<1>. QED
  BY <1>1, <1>2, <1>3, <1>4
  DEF RequestStep, WriteStatus, Store, Deliver, Cancel, HideOrder, Reject, GiveBack,
      RequestFails

\* Nothing takes away a picker or a preparation timestamp.
LEMMA EvidenceKept ==
    ASSUME TypeOK, [Next]_vars, NEW o \in Orders
    PROVE  /\ order[o].picker # NoUser => order'[o].picker # NoUser
           /\ order[o].stamps \ {"deliveringAt"} \subseteq order'[o].stamps
<1>1. RowStep(o) /\ order[o] \in OrderRow
  BY OrderStep DEF TypeOK
<1>2. ASSUME NEW h \in Handlers, Stored(o, h) \/ Ended(o, h) \/ Dropped(o, h)
      PROVE  /\ order[o].picker # NoUser => order'[o].picker # NoUser
             /\ order[o].stamps \subseteq order'[o].stamps
  <2>. DEFINE row == Written(order[o], req[h].next, req[h].user)
  <2>1. req[h].user # NoUser
    BY <1>2 DEF TypeOK, Stored, Ended, Dropped
  <2>2. /\ order[o].picker # NoUser => row.picker # NoUser
        /\ order[o].stamps \subseteq row.stamps
    BY <1>1, <2>1 DEF Written, OrderRow
  <2>3. row \in OrderRow
    BY <1>1, <1>2, PendingRequest DEF Stored, Ended, Dropped
  <2>4. order'[o] = row \/ order'[o] = [row EXCEPT !.credited = TRUE]
    BY <1>2 DEF Stored, Ended, Dropped
  <2>. QED
    BY <2>2, <2>3, <2>4 DEF OrderRow
<1>3. ASSUME NEW h \in Handlers, Returned(o, h)
      PROVE  /\ order'[o].picker = order[o].picker
             /\ order'[o].stamps = order[o].stamps \ {"deliveringAt"}
  BY <1>1, <1>3 DEF Returned, GivenBack, OrderRow
<1>4. CASE Kept(o) \/ Activated(o)
  BY <1>1, <1>4 DEF Kept, Activated, OrderRow
<1>. QED
  BY <1>1, <1>2, <1>3, <1>4 DEF RowStep

LEMMA StageStep ==
    ASSUME TypeOK, StageEvidence, ReadEvidence, [Next]_vars
    PROVE  StageEvidence'
<1>. SUFFICES ASSUME NEW o \in Orders PROVE RowEvidence(order'[o])
  BY DEF StageEvidence
<1>1. RowStep(o) /\ order[o] \in OrderRow /\ RowEvidence(order[o])
  BY OrderStep DEF TypeOK, StageEvidence
<1>2. CASE Kept(o) \/ Activated(o)
  BY <1>1, <1>2 DEF Kept, Activated, OrderRow, RowEvidence
<1>3. ASSUME NEW h \in Handlers, Stored(o, h) \/ Ended(o, h) \/ Dropped(o, h)
      PROVE  RowEvidence(order'[o])
  <2>. DEFINE row == Written(order[o], req[h].next, req[h].user)
  <2>1. /\ req[h].op = "status"
        /\ req[h].next \in {"PICKING", "READY", "DELIVERING", "DELIVERED", "CANCELLED"}
        /\ req[h].user # NoUser
        /\ RequestEvidence(req[h], order[o])
    BY <1>3 DEF Stored, Ended, Dropped, TypeOK, ReadEvidence
  <2>2. RowEvidence(row)
    BY <1>1, <2>1 DEF RowEvidence, RequestEvidence, Written, StampOf, OrderRow
  <2>3. row \in OrderRow
    BY <1>1, <1>3, PendingRequest DEF Stored, Ended, Dropped
  <2>4. order'[o] = row \/ order'[o] = [row EXCEPT !.credited = TRUE]
    BY <1>3 DEF Stored, Ended, Dropped
  <2>. QED
    BY <2>2, <2>3, <2>4 DEF RowEvidence, OrderRow
<1>4. ASSUME NEW h \in Handlers, Returned(o, h)
      PROVE  RowEvidence(order'[o])
  <2>1. RequestEvidence(req[h], order[o]) /\ req[h].op = "giveBack"
    BY <1>4 DEF Returned, ReadEvidence
  <2>. QED
    BY <1>1, <1>4, <2>1 DEF Returned, GivenBack, RowEvidence, RequestEvidence, OrderRow
<1>. QED
  BY <1>1, <1>2, <1>3, <1>4 DEF RowStep

LEMMA ReadStep ==
    ASSUME TypeOK, StageEvidence, ReadEvidence, [Next]_vars
    PROVE  ReadEvidence'
<1>. SUFFICES ASSUME NEW h \in Handlers, req'[h].op # "idle"
              PROVE  RequestEvidence(req'[h], order'[req'[h].order])
  BY DEF ReadEvidence
<1>1. CASE req'[h] = req[h]
  <2>1. req[h].order \in Orders /\ RequestEvidence(req[h], order[req[h].order])
    BY <1>1 DEF TypeOK, ReadEvidence
  <2>. QED
    BY <1>1, <2>1, EvidenceKept DEF RequestEvidence
<1>2. CASE req'[h] # req[h]
  <2>1. ASSUME NEW g \in Handlers, RequestStep(g)
        PROVE  h = g
    BY <1>2, <2>1
    DEF TypeOK, RequestStep, ReadStatus, WriteStatus, Store, Deliver, Cancel, BeginReject,
        ReadForReject, HideOrder, Reject, GiveBack, RequestFails, Await, Answer
  <2>2. RequestStep(h)
    <3>1. ~Restart
      BY <1>2 DEF Restart, Idle
    <3>2. req' # req
      BY <1>2
    <3>. QED
      BY <2>1, <3>1, <3>2
      DEF Next, CronStep, ReadDue, ReadBatch, ActivateDue, Release, NotifyActivated, Notify,
          CooldownExpires,
          DeleteCoupon, BecomeDue, vars, requestVars
  <2>. QED
    BY <1>2, <2>2, ReadHolds
<1>. QED
  BY <1>1, <1>2

\* Whatever requests collide, an order's status is backed by the timestamps
\* and assignees of the stages it has been through.
THEOREM StagesEvident == Spec => []StageEvidence
<1>1. Init => StageEvidence /\ ReadEvidence
  BY DEF Init, StageEvidence, ReadEvidence, RowEvidence, Idle
<1>. QED
  BY <1>1, TypeCorrect, StageStep, ReadStep, PTL DEF Spec

-----------------------------------------------------------------------------
(* Staff hear of an activation after it happened *)

\* An execution that has done its updateMany holds only orders that left
\* PENDING_SCHEDULE, whoever moved them.
RunEvidence ==
    \A r \in CronRuns : cron[r].pc = "notify" =>
        \A o \in cron[r].ids : order[o].status # "PENDING_SCHEDULE"

\* PENDING_SCHEDULE is left for good.
LEMMA PendingLeft ==
    ASSUME TypeOK, [Next]_vars, NEW o \in Orders, order[o].status # "PENDING_SCHEDULE"
    PROVE  order'[o].status # "PENDING_SCHEDULE"
<1>1. RowStep(o) /\ order[o] \in OrderRow
  BY OrderStep DEF TypeOK
<1>2. ASSUME NEW h \in Handlers,
             Stored(o, h) \/ Ended(o, h) \/ Dropped(o, h) \/ Returned(o, h)
      PROVE  order'[o].status # "PENDING_SCHEDULE"
  BY <1>1, <1>2 DEF Stored, Ended, Dropped, Returned, Written, GivenBack, OrderRow
<1>. QED
  BY <1>1, <1>2 DEF RowStep, Kept, Activated

LEMMA NotifiedStep ==
    ASSUME TypeOK, RunEvidence, NotifiedAfterActivation, [Next]_vars
    PROVE  RunEvidence' /\ NotifiedAfterActivation'
<1>1. CASE cron' = cron /\ notified' = notified
  <2>1. \A r \in CronRuns : cron[r].ids \subseteq Orders
    BY DEF TypeOK, CronRun
  <2>. QED
    BY <1>1, <2>1, PendingLeft DEF RunEvidence, NotifiedAfterActivation
<1>2. ASSUME NEW r \in CronRuns, ReadDue(r)
      PROVE  RunEvidence' /\ NotifiedAfterActivation'
  BY <1>2 DEF ReadDue, ReadBatch, TypeOK, RunEvidence, NotifiedAfterActivation, orderVars
<1>3. ASSUME NEW r \in CronRuns, ActivateDue(r)
      PROVE  RunEvidence' /\ NotifiedAfterActivation'
  <2>1. /\ cron[r] \in CronRun /\ cron[r].ids \subseteq Orders
        /\ cron' = [cron EXCEPT ![r] = [cron[r] EXCEPT !.pc = "notify"]]
        /\ notified' = notified
    BY <1>3 DEF ActivateDue, Release, TypeOK, CronRun
  <2>2. \A q \in CronRuns : cron'[q].ids = cron[q].ids /\ cron[q].ids \subseteq Orders
    BY <2>1 DEF TypeOK, CronRun
  <2>3. ASSUME NEW o \in cron[r].ids PROVE order'[o].status # "PENDING_SCHEDULE"
    <3>1. o \in Orders /\ order[o] \in OrderRow
      BY <2>1 DEF TypeOK
    <3>. QED
      BY <1>3, <3>1 DEF ActivateDue, Release, OrderRow
  <2>4. RunEvidence'
    BY <2>1, <2>2, <2>3, PendingLeft DEF TypeOK, RunEvidence
  <2>. QED
    BY <2>1, <2>4, PendingLeft DEF NotifiedAfterActivation
<1>4. ASSUME NEW r \in CronRuns, NEW o \in Orders, NotifyActivated(r, o)
      PROVE  RunEvidence' /\ NotifiedAfterActivation'
  <2>1. order[o].status # "PENDING_SCHEDULE" /\ order' = order
    BY <1>4 DEF NotifyActivated, Notify, RunEvidence, orderVars
  <2>2. RunEvidence'
    BY <1>4, <2>1 DEF NotifyActivated, Notify, RunEvidence, TypeOK, NoRun
  <2>3. NotifiedAfterActivation'
    BY <1>4, <2>1 DEF NotifyActivated, Notify, NotifiedAfterActivation, TypeOK
  <2>. QED
    BY <2>2, <2>3
<1>5. CASE Restart
  BY <1>5 DEF Restart, RunEvidence, NotifiedAfterActivation, NoRun, orderVars
<1>6. ASSUME NEW h \in Handlers, RequestStep(h)
      PROVE  cron' = cron /\ notified' = notified
  BY <1>6
  DEF RequestStep, ReadStatus, WriteStatus, Store, Deliver, Cancel, BeginReject, ReadForReject,
      HideOrder, Reject, GiveBack, RequestFails, cronVars
<1>. QED
  BY <1>1, <1>2, <1>3, <1>4, <1>5, <1>6
  DEF Next, CronStep, CooldownExpires, DeleteCoupon, BecomeDue, vars, cronVars

\* Overlapping executions and early pickers notwithstanding, an activation is
\* announced only for an order that has left PENDING_SCHEDULE.
THEOREM AnnouncedAfterActivation == Spec => []NotifiedAfterActivation
<1>1. Init => RunEvidence /\ NotifiedAfterActivation
  BY DEF Init, RunEvidence, NotifiedAfterActivation, NoRun
<1>. QED
  BY <1>1, TypeCorrect, NotifiedStep, PTL DEF Spec

\* However many requests collide, fail or are sent again, and whenever the server restarts:
\* rows are well typed, carry the evidence of their stage, and are settled once.
THEOREM SoundOrders == Spec => []OrdersSound
  BY TypeCorrect, StagesEvident, CashbackCreditedOnce, TerminalSettled, PTL DEF OrdersSound

-----------------------------------------------------------------------------
(* Every som is explained *)

\* What one step can do to the accounts: nothing, the credit of one order, or the
\* refund of one.
OthersKept(o) ==
    \A p \in Orders \ {o} :
        Explained'[p] = Explained[p] /\ order'[p].credited = order[p].credited

AccountsKept ==
    /\ account' = account
    /\ \A o \in Orders :
           Explained'[o] = Explained[o] /\ order'[o].credited = order[o].credited

CreditOf(o) ==
    LET c == CustomerOf[o] IN
    /\ c \in Customers
    /\ ~order[o].credited /\ order'[o].credited
    /\ account' = [account EXCEPT ![c] =
                      [balance |-> @.balance + EarnedOf[o],
                       totalSpent |-> @.totalSpent + TotalOf[o],
                       totalOrders |-> @.totalOrders + 1]]
    /\ Explained'[o] = Explained[o] + EarnedOf[o]
    /\ OthersKept(o)

RefundOf(o) ==
    LET c == CustomerOf[o] IN
    /\ c \in Customers
    /\ order'[o].credited = order[o].credited
    /\ account' = [account EXCEPT ![c].balance = @ + RedeemOf[o]]
    /\ Explained'[o] = Explained[o] + RedeemOf[o]
    /\ OthersKept(o)

\* Neither an update of the row nor the return to the queue credits.
LEMMA CreditedKept ==
    ASSUME NEW row \in OrderRow, NEW next, NEW user
    PROVE  /\ Written(row, next, user).credited = row.credited
           /\ GivenBack(row).credited = row.credited
  BY DEF Written, GivenBack, OrderRow

LEMMA OneMore == \A n, amount \in Nat : (n + 1) * amount = n * amount + amount
  OBVIOUS

LEMMA DeliverAccounts ==
    ASSUME TypeOK, NEW h \in Handlers, Deliver(h)
    PROVE  AccountsKept \/ CreditOf(req[h].order)
<1>. DEFINE p == req[h].order
            row == Written(order[p], "DELIVERED", req[h].user)
<1>1. p \in Orders /\ FinalizeDeliveredCashback(p, row)
  BY DEF Deliver, TypeOK
<1>2. row.credited = order[p].credited
  BY <1>1, CreditedKept DEF TypeOK
<1>. HIDE DEF row
<1>3. CASE CustomerOf[p] = NoCustomer \/ order[p].credited
  <2>1. order' = [order EXCEPT ![p] = row] /\ UNCHANGED <<account, ledger>>
    BY <1>1, <1>2, <1>3 DEF FinalizeDeliveredCashback, Credit, NoCredit
  <2>2. \A o \in Orders : order'[o].credited = order[o].credited
    BY <1>1, <1>2, <2>1 DEF TypeOK
  <2>. QED
    BY <2>1, <2>2 DEF AccountsKept, Explained
<1>4. CASE CustomerOf[p] # NoCustomer /\ ~order[p].credited
  <2>1. /\ order' = [order EXCEPT ![p] = [row EXCEPT !.credited = TRUE]]
        /\ account' = [account EXCEPT ![CustomerOf[p]] =
                      [balance |-> @.balance + EarnedOf[p],
                       totalSpent |-> @.totalSpent + TotalOf[p],
                       totalOrders |-> @.totalOrders + 1]]
        /\ ledger' = IF EarnedOf[p] > 0
                     THEN [ledger EXCEPT ![p] = [ledger[p] EXCEPT !.earned = @ + 1]]
                     ELSE ledger
    BY <1>1, <1>2, <1>4 DEF FinalizeDeliveredCashback, Credit, NoCredit
  <2>2. order[p] \in OrderRow /\ row \in [OrderRow -> OrderRow] \cup {row}
    BY <1>1 DEF TypeOK
  <2>3. order'[p].credited /\ \A o \in Orders \ {p} : order'[o] = order[o]
    <3>1. order'[p] = [row EXCEPT !.credited = TRUE]
      BY <1>1, <2>1 DEF TypeOK
    <3>2. "credited" \in DOMAIN row
      BY <2>2 DEF row, Written, OrderRow
    <3>. QED
      BY <1>1, <2>1, <3>1, <3>2 DEF TypeOK
  <2>4. \A o \in Orders \ {p} : Explained'[o] = Explained[o]
    BY <1>1, <2>1 DEF TypeOK, Explained
  <2>5. Explained'[p] = Explained[p] + EarnedOf[p]
    <3>1. /\ ledger[p].earned \in Nat /\ ledger[p].refund \in Nat
          /\ EarnedOf[p] \in Nat /\ RedeemOf[p] \in Nat
      BY <1>1 DEF TypeOK
    <3>2. CASE EarnedOf[p] > 0
      <4>1. /\ ledger'[p].earned = ledger[p].earned + 1
            /\ ledger'[p].refund = ledger[p].refund
        BY <1>1, <2>1, <3>2 DEF TypeOK
      <4>2. (ledger[p].earned + 1) * EarnedOf[p] = ledger[p].earned * EarnedOf[p] + EarnedOf[p]
        BY <3>1, OneMore
      <4>3. /\ ledger[p].earned * EarnedOf[p] \in Int
            /\ ledger[p].refund * RedeemOf[p] \in Int
        BY <3>1
      <4>. QED
        BY <1>1, <3>1, <4>1, <4>2, <4>3 DEF Explained
    <3>3. CASE EarnedOf[p] = 0
      BY <1>1, <2>1, <3>1, <3>3 DEF Explained
    <3>. QED
      BY <3>1, <3>2, <3>3
  <2>6. CustomerOf[p] \in Customers
    BY <1>1, <1>4
  <2>. QED
    BY <1>4, <2>1, <2>3, <2>4, <2>5, <2>6 DEF CreditOf, OthersKept
<1>. QED
  BY <1>3, <1>4

LEMMA CancelAccounts ==
    ASSUME TypeOK, NEW h \in Handlers, Cancel(h)
    PROVE  AccountsKept \/ RefundOf(req[h].order)
<1>. DEFINE p == req[h].order
            row == Written(order[p], "CANCELLED", req[h].user)
<1>1. p \in Orders /\ RefundOrderCashbackSpend(p) /\ order' = [order EXCEPT ![p] = row]
  BY DEF Cancel, TypeOK
<1>2. row.credited = order[p].credited
  BY <1>1, CreditedKept DEF TypeOK
<1>. HIDE DEF row
<1>3. \A o \in Orders : order'[o].credited = order[o].credited
  BY <1>1, <1>2 DEF TypeOK
<1>4. CASE CustomerOf[p] = NoCustomer \/ RedeemOf[p] = 0
  BY <1>1, <1>3, <1>4 DEF RefundOrderCashbackSpend, AccountsKept, Explained
<1>5. CASE CustomerOf[p] # NoCustomer /\ RedeemOf[p] # 0
  <2>1. /\ account' = [account EXCEPT ![CustomerOf[p]].balance = @ + RedeemOf[p]]
        /\ ledger' = [ledger EXCEPT ![p].refund = @ + 1]
        /\ CustomerOf[p] \in Customers
    BY <1>1, <1>5 DEF RefundOrderCashbackSpend
  <2>2. \A o \in Orders \ {p} : Explained'[o] = Explained[o]
    BY <1>1, <2>1 DEF TypeOK, Explained
  <2>3. Explained'[p] = Explained[p] + RedeemOf[p]
    <3>1. /\ ledger[p].earned \in Nat /\ ledger[p].refund \in Nat
          /\ EarnedOf[p] \in Nat /\ RedeemOf[p] \in Nat
      BY <1>1 DEF TypeOK
    <3>2. /\ ledger'[p].earned = ledger[p].earned
          /\ ledger'[p].refund = ledger[p].refund + 1
      BY <1>1, <2>1 DEF TypeOK
    <3>3. (ledger[p].refund + 1) * RedeemOf[p] = ledger[p].refund * RedeemOf[p] + RedeemOf[p]
      BY <3>1, OneMore
    <3>4. /\ ledger[p].earned * EarnedOf[p] \in Int
          /\ ledger[p].refund * RedeemOf[p] \in Int
      BY <3>1
    <3>. QED
      BY <1>1, <3>1, <3>2, <3>3, <3>4 DEF Explained
  <2>. QED
    BY <1>1, <1>3, <2>1, <2>2, <2>3 DEF RefundOf, OthersKept
<1>. QED
  BY <1>4, <1>5

LEMMA AccountStep ==
    ASSUME TypeOK, [Next]_vars
    PROVE  AccountsKept \/ \E o \in Orders : CreditOf(o) \/ RefundOf(o)
<1>1. ASSUME UNCHANGED <<account, ledger>>,
             \A o \in Orders : order'[o].credited = order[o].credited
      PROVE  AccountsKept
  BY <1>1 DEF AccountsKept, Explained
<1>2. ASSUME UNCHANGED <<order, account, ledger>> PROVE AccountsKept
  BY <1>1, <1>2
<1>3. ASSUME NEW h \in Handlers, WriteStatus(h) \/ GiveBack(h)
      PROVE  AccountsKept
  <2>1. PICK p \in Orders : /\ UNCHANGED <<account, ledger>>
                            /\ \/ order' = [order EXCEPT ![p] =
                                      Written(order[p], req[h].next, req[h].user)]
                               \/ order' = [order EXCEPT ![p] = GivenBack(order[p])]
    BY <1>3 DEF WriteStatus, Store, GiveBack, TypeOK
  <2>2. order[p] \in OrderRow
    BY DEF TypeOK
  <2>3. PICK row : order' = [order EXCEPT ![p] = row] /\ row.credited = order[p].credited
    BY <2>1, <2>2, CreditedKept
  <2>4. \A o \in Orders : order'[o].credited = order[o].credited
    BY <2>3 DEF TypeOK
  <2>. QED
    BY <1>1, <2>1, <2>4
<1>4. ASSUME NEW r \in CronRuns, ActivateDue(r)
      PROVE  AccountsKept
  <2>1. \A o \in Orders : order'[o].credited = order[o].credited
    <3>1. \A o \in Orders : order[o] \in OrderRow
      BY DEF TypeOK
    <3>. QED
      BY <1>4, <3>1 DEF ActivateDue, Release, OrderRow
  <2>. QED
    BY <1>1, <1>4, <2>1 DEF ActivateDue, Release
<1>5. ASSUME NEW h \in Handlers, Deliver(h) \/ Cancel(h)
      PROVE  AccountsKept \/ \E o \in Orders : CreditOf(o) \/ RefundOf(o)
  <2>1. req[h].order \in Orders
    BY <1>5 DEF Deliver, Cancel, TypeOK
  <2>. QED
    BY <1>5, <2>1, DeliverAccounts, CancelAccounts
<1>6. ASSUME NEW h \in Handlers, RequestStep(h)
      PROVE  AccountsKept \/ \E o \in Orders : CreditOf(o) \/ RefundOf(o)
  <2>1. WriteStatus(h) \/ GiveBack(h) \/ Deliver(h) \/ Cancel(h)
           \/ UNCHANGED <<order, account, ledger>>
    <3>1. ASSUME NEW x \in Staff, NEW o \in Orders, NEW next \in OrderStatus,
                 ReadStatus(h, x[1], x[2], o, next)
          PROVE  UNCHANGED <<order, account, ledger>>
      BY <3>1 DEF ReadStatus, orderVars
    <3>2. ASSUME NEW user \in Users, NEW o \in Orders, BeginReject(h, user, o)
          PROVE  UNCHANGED <<order, account, ledger>>
      BY <3>2 DEF BeginReject, orderVars
    <3>3. ReadForReject(h) \/ HideOrder(h) \/ RequestFails(h)
             => UNCHANGED <<order, account, ledger>>
      BY DEF ReadForReject, HideOrder, Reject, RequestFails, orderVars
    <3>. QED
      BY <1>6, <3>1, <3>2, <3>3 DEF RequestStep
  <2>. QED
    BY <1>2, <1>3, <1>5, <2>1
<1>7. ASSUME NEW r \in CronRuns, CronStep(r)
      PROVE  AccountsKept
  <2>1. ReadDue(r) => UNCHANGED <<order, account, ledger>>
    BY DEF ReadDue, ReadBatch, orderVars
  <2>2. \A o \in Orders : NotifyActivated(r, o) => UNCHANGED <<order, account, ledger>>
    BY DEF NotifyActivated, Notify, orderVars
  <2>3. ActivateDue(r) \/ UNCHANGED <<order, account, ledger>>
    BY <1>7, <2>1, <2>2 DEF CronStep
  <2>. QED
    BY <1>2, <1>4, <2>3
<1>. QED
  BY <1>2, <1>6, <1>7
  DEF Next, CooldownExpires, DeleteCoupon, BecomeDue, Restart, vars, orderVars

LEMMA ExplainedType ==
    ASSUME TypeOK PROVE \A o \in Orders : Explained[o] \in Int
  BY DEF TypeOK, Explained

LEMMA BalancedStep ==
    ASSUME TypeOK, TypeOK', Balanced, [Next]_vars
    PROVE  Balanced'
<1>. SUFFICES ASSUME NEW c \in Customers
              PROVE  account'[c].balance = Opening[c] + Total(Explained', OrdersOf(c))
  BY DEF Balanced, OrdersOf
<1>1. account[c].balance = Opening[c] + Total(Explained, OrdersOf(c))
  BY DEF Balanced
<1>2. /\ IsFiniteSet(OrdersOf(c)) /\ OrdersOf(c) \subseteq Orders
      /\ \A o \in OrdersOf(c) : CustomerOf[o] = c
      /\ \A o \in Orders \ OrdersOf(c) : CustomerOf[o] # c
  BY FS_Subset DEF OrdersOf
<1>3. \A o \in Orders : Explained[o] \in Int /\ Explained'[o] \in Int
  <2>1. \A o \in Orders : Explained'[o] \in Int
    BY DEF TypeOK, Explained
  <2>. QED
    BY <2>1, ExplainedType
<1>4. Total(Explained, OrdersOf(c)) \in Int
  BY <1>2, <1>3, TotalType
<1>5. Opening[c] \in Int
  OBVIOUS
<1>6. ASSUME account'[c] = account[c], \A o \in OrdersOf(c) : Explained'[o] = Explained[o]
      PROVE  account'[c].balance = Opening[c] + Total(Explained', OrdersOf(c))
  <2>1. Total(Explained', OrdersOf(c)) = Total(Explained, OrdersOf(c))
    BY <1>2, <1>3, <1>6, TotalSame
  <2>. QED
    BY <1>1, <1>6, <2>1
<1>7. CASE AccountsKept
  BY <1>2, <1>6, <1>7 DEF AccountsKept
<1>8. ASSUME NEW o \in Orders, NEW amount \in Nat, OthersKept(o), CustomerOf[o] \in Customers,
             \A d \in Customers \ {CustomerOf[o]} : account'[d] = account[d],
             account'[CustomerOf[o]].balance = account[CustomerOf[o]].balance + amount,
             Explained'[o] = Explained[o] + amount
      PROVE  account'[c].balance = Opening[c] + Total(Explained', OrdersOf(c))
  <2>1. CASE CustomerOf[o] = c
    <3>1. o \in OrdersOf(c)
      BY <1>2, <2>1
    <3>2. \A p \in OrdersOf(c) \ {o} : Explained'[p] = Explained[p]
      BY <1>2, <1>8 DEF OthersKept
    <3>3. Total(Explained', OrdersOf(c))
              = Total(Explained, OrdersOf(c)) + (Explained'[o] - Explained[o])
      BY <1>2, <1>3, <3>1, <3>2, TotalUpdate
    <3>. QED
      BY <1>1, <1>3, <1>4, <1>5, <1>8, <2>1, <3>3
  <2>2. CASE CustomerOf[o] # c
    <3>1. \A p \in OrdersOf(c) : Explained'[p] = Explained[p]
      BY <1>2, <1>8, <2>2 DEF OthersKept
    <3>. QED
      BY <1>6, <1>8, <2>2, <3>1
  <2>. QED
    BY <2>1, <2>2
<1>9. ASSUME NEW o \in Orders, CreditOf(o)
      PROVE  account'[c].balance = Opening[c] + Total(Explained', OrdersOf(c))
  <2>1. EarnedOf[o] \in Nat
    OBVIOUS
  <2>. QED
    BY <1>8, <1>9, <2>1 DEF CreditOf, TypeOK
<1>10. ASSUME NEW o \in Orders, RefundOf(o)
      PROVE  account'[c].balance = Opening[c] + Total(Explained', OrdersOf(c))
  <2>1. RedeemOf[o] \in Nat
    OBVIOUS
  <2>2. /\ \A d \in Customers \ {CustomerOf[o]} : account'[d] = account[d]
        /\ account'[CustomerOf[o]].balance = account[CustomerOf[o]].balance + RedeemOf[o]
    BY <1>10 DEF RefundOf, TypeOK, AccountRow
  <2>. QED
    BY <1>8, <1>10, <2>1, <2>2 DEF RefundOf
<1>. QED
  BY <1>7, <1>9, <1>10, AccountStep

LEMMA CountedStep ==
    ASSUME TypeOK, TypeOK', Counted, [Next]_vars
    PROVE  Counted'
<1>. SUFFICES ASSUME NEW c \in Customers
              PROVE  /\ account'[c].totalOrders = Cardinality(PaidOf(c)')
                     /\ account'[c].totalSpent = Total(TotalOf, PaidOf(c)')
  BY DEF Counted
<1>1. /\ account[c].totalOrders = Cardinality(PaidOf(c))
      /\ account[c].totalSpent = Total(TotalOf, PaidOf(c))
  BY DEF Counted
<1>2. /\ PaidOf(c) = {o \in Orders : CustomerOf[o] = c /\ order[o].credited}
      /\ PaidOf(c)' = {o \in Orders : CustomerOf[o] = c /\ order'[o].credited}
  BY DEF PaidOf, OrdersOf
<1>3. IsFiniteSet(PaidOf(c)) /\ \A o \in Orders : TotalOf[o] \in Int
  BY <1>2, FS_Subset
<1>4. ASSUME account'[c].totalOrders = account[c].totalOrders,
             account'[c].totalSpent = account[c].totalSpent,
             PaidOf(c)' = PaidOf(c)
      PROVE  /\ account'[c].totalOrders = Cardinality(PaidOf(c)')
             /\ account'[c].totalSpent = Total(TotalOf, PaidOf(c)')
  BY <1>1, <1>4
<1>5. CASE AccountsKept
  BY <1>2, <1>4, <1>5 DEF AccountsKept
<1>6. ASSUME NEW o \in Orders, RefundOf(o)
      PROVE  /\ account'[c].totalOrders = Cardinality(PaidOf(c)')
             /\ account'[c].totalSpent = Total(TotalOf, PaidOf(c)')
  <2>1. PaidOf(c)' = PaidOf(c)
    BY <1>2, <1>6 DEF RefundOf, OthersKept
  <2>2. /\ account'[c].totalOrders = account[c].totalOrders
        /\ account'[c].totalSpent = account[c].totalSpent
    BY <1>6 DEF RefundOf, TypeOK, AccountRow
  <2>. QED
    BY <1>4, <2>1, <2>2
<1>7. ASSUME NEW o \in Orders, CreditOf(o)
      PROVE  /\ account'[c].totalOrders = Cardinality(PaidOf(c)')
             /\ account'[c].totalSpent = Total(TotalOf, PaidOf(c)')
  <2>1. CASE CustomerOf[o] = c
    <3>1. o \notin PaidOf(c) /\ PaidOf(c)' = PaidOf(c) \cup {o}
      BY <1>2, <1>7, <2>1 DEF CreditOf, OthersKept
    <3>2. Cardinality(PaidOf(c)') = Cardinality(PaidOf(c)) + 1
      BY <1>3, <3>1, FS_AddElement
    <3>3. Total(TotalOf, PaidOf(c)') = TotalOf[o] + Total(TotalOf, PaidOf(c))
      BY <1>2, <1>3, <3>1, TotalAdd
    <3>4. /\ account'[c].totalOrders = account[c].totalOrders + 1
          /\ account'[c].totalSpent = account[c].totalSpent + TotalOf[o]
      BY <1>7, <2>1 DEF CreditOf, TypeOK
    <3>5. Total(TotalOf, PaidOf(c)) \in Int
      BY <1>2, <1>3, TotalType
    <3>. QED
      BY <1>1, <1>3, <3>2, <3>3, <3>4, <3>5
  <2>2. CASE CustomerOf[o] # c
    <3>1. PaidOf(c)' = PaidOf(c)
      BY <1>2, <1>7, <2>2 DEF CreditOf, OthersKept
    <3>2. account'[c] = account[c]
      BY <1>7, <2>2 DEF CreditOf, TypeOK
    <3>. QED
      BY <1>4, <3>1, <3>2
  <2>. QED
    BY <2>1, <2>2
<1>. QED
  BY <1>5, <1>6, <1>7, AccountStep

LEMMA InitAgrees == Init => Balanced /\ Counted
<1>. SUFFICES ASSUME Init PROVE Balanced /\ Counted
  OBVIOUS
<1>1. \A c \in Customers : IsFiniteSet(OrdersOf(c)) /\ OrdersOf(c) \subseteq Orders
  BY FS_Subset DEF OrdersOf
<1>2. \A o \in Orders : Explained[o] = 0
  BY DEF Init, Explained
<1>3. ASSUME NEW S, S \subseteq Orders PROVE Total(Explained, S) = 0
  <2>. DEFINE zero == [o \in Orders |-> 0]
  <2>1. IsFiniteSet(S)
    BY <1>3, FS_Subset
  <2>2. Total(Explained, S) = Total(zero, S)
    BY <1>2, <1>3, <2>1, TotalSame
  <2>. QED
    BY <1>3, <2>1, <2>2, TotalZero
<1>4. Balanced
  BY <1>1, <1>3 DEF Init, Balanced
<1>5. \A c \in Customers : PaidOf(c) = {}
  BY DEF Init, PaidOf, OrdersOf
<1>6. Counted
  BY <1>5, TotalEmpty, FS_EmptySet DEF Init, Counted
<1>. QED
  BY <1>4, <1>6

\* Every som and every order on a customer's account is explained by the orders, for any
\* number of requests that deliver, cancel, collide, fail or are sent again
\* (finalizeDeliveredCashback, refundOrderCashbackSpend).
THEOREM AccountsExplained == Spec => []AccountsAgree
<1>1. TypeOK /\ Balanced /\ Counted /\ [Next]_vars => Balanced' /\ Counted'
  BY NextType, BalancedStep, CountedStep
<1>2. ASSUME TypeOK, Balanced, Counted PROVE AccountsAgree
  <2>1. \A c : OrdersOf(c) \subseteq Orders /\ PaidOf(c) \subseteq Orders
    BY DEF OrdersOf, PaidOf
  <2>2. BooksBalance
    BY <1>2, <2>1, ExplainedTotal DEF BooksBalance, Balanced
  <2>3. CountersMatchCredits
    BY <1>2, <2>1, SpentTotal DEF CountersMatchCredits, Counted, PaidOf
  <2>. QED
    BY <2>2, <2>3 DEF AccountsAgree
<1>. QED
  BY <1>1, <1>2, InitAgrees, TypeCorrect, PTL DEF Spec

-----------------------------------------------------------------------------
(* Requests that do not meet on an order *)

\* No two requests are at work on one order.
OneEach ==
    \A g, h \in Handlers :
        req[g].op # "idle" /\ req[h].op # "idle" /\ req[g].order = req[h].order => g = h

\* What a request has read of its order still holds when it writes.
Fresh ==
    \A h \in Handlers :
        /\ req[h].op = "status" =>
              /\ req[h].next \in Transitions(order[req[h].order].status)
              /\ req[h].next # "NEW"
        /\ req[h].op = "giveBack" =>
              /\ order[req[h].order].status = "DELIVERING"
              /\ order[req[h].order].courier = req[h].user

\* Nobody holds an order before its stage.
Unclaimed ==
    \A o \in Orders :
        /\ order[o].status \in {"PENDING_SCHEDULE", "NEW"} => order[o].picker = NoUser
        /\ order[o].status \in {"PENDING_SCHEDULE", "NEW", "PICKING", "READY"} =>
              order[o].courier = NoUser

\* The redemption row of an order that still has its coupon goes with its cancellation.
Redeemed ==
    \A o \in Orders : couponRef[o] # NoCoupon /\ order[o].status # "CANCELLED" =>
        o \in redemption

Apart == OneRequestPerOrder => OneEach /\ Fresh /\ Unclaimed
AsEnded == OneRequestPerOrder => Redeemed /\ SettledAsEnded

\* An order row moves by the minute job or by a request that is then answered.
LEMMA Mover ==
    ASSUME TypeOK, [Next]_vars, NEW o \in Orders, order'[o] # order[o]
    PROVE  \/ Activated(o)
           \/ \E h \in Handlers : /\ req[h].op # "idle" /\ req[h].order = o
                                  /\ req'[h].op = "idle"
<1>. DEFINE Done(h) == req[h].op # "idle" /\ req[h].order = o /\ req'[h].op = "idle"
<1>1. ASSUME NEW h \in Handlers, WriteStatus(h) \/ Deliver(h) \/ Cancel(h) \/ GiveBack(h)
      PROVE  Done(h)
  <2>1. req[h].op # "idle" /\ Answer(h)
    BY <1>1 DEF WriteStatus, Store, Deliver, Cancel, GiveBack
  <2>2. req'[h].op = "idle"
    BY <2>1 DEF Answer, Idle, TypeOK
  <2>3. \A p \in Orders \ {req[h].order} : order'[p] = order[p]
    BY <1>1
    DEF TypeOK, WriteStatus, Store, Deliver, FinalizeDeliveredCashback, Credit, NoCredit,
        Cancel, GiveBack
  <2>. QED
    BY <2>1, <2>2, <2>3
<1>2. ASSUME NEW r \in CronRuns, ActivateDue(r)
      PROVE  Activated(o)
  BY <1>2 DEF ActivateDue, Release, Activated
<1>. HIDE DEF Done
<1>3. ASSUME NEW h \in Handlers, RequestStep(h)
      PROVE  \E g \in Handlers : Done(g)
  <2>1. \A s \in Staff, p \in Orders, next \in OrderStatus :
            ReadStatus(h, s[1], s[2], p, next) => order' = order
    BY DEF ReadStatus, orderVars
  <2>2. \A user \in Users, p \in Orders : BeginReject(h, user, p) => order' = order
    BY DEF BeginReject, orderVars
  <2>3. ReadForReject(h) \/ HideOrder(h) \/ RequestFails(h) => order' = order
    BY DEF ReadForReject, HideOrder, Reject, RequestFails, orderVars
  <2>4. order' # order
    OBVIOUS
  <2>5. WriteStatus(h) \/ Deliver(h) \/ Cancel(h) \/ GiveBack(h)
    BY <1>3, <2>1, <2>2, <2>3, <2>4 DEF RequestStep
  <2>. QED
    BY <1>1, <2>5
<1>4. ASSUME NEW r \in CronRuns, CronStep(r)
      PROVE  Activated(o)
  <2>1. ReadDue(r) => order' = order
    BY DEF ReadDue, ReadBatch, orderVars
  <2>2. \A p \in Orders : NotifyActivated(r, p) => order' = order
    BY DEF NotifyActivated, Notify, orderVars
  <2>3. order' # order
    OBVIOUS
  <2>. QED
    BY <1>2, <1>4, <2>1, <2>2, <2>3 DEF CronStep
<1>5. UNCHANGED vars => order' = order
  BY DEF vars, orderVars
<1>6. \A user \in Users : CooldownExpires(user) => order' = order
  BY DEF CooldownExpires, orderVars
<1>7. \A k \in Coupons : DeleteCoupon(k) => order' = order
  BY DEF DeleteCoupon, orderVars
<1>8. \A p \in Orders : BecomeDue(p) => order' = order
  BY DEF BecomeDue, orderVars
<1>9. Restart => order' = order
  BY DEF Restart, orderVars
<1>10. order' # order
  OBVIOUS
<1>11. Activated(o) \/ \E h \in Handlers : Done(h)
  BY <1>3, <1>4, <1>5, <1>6, <1>7, <1>8, <1>9, <1>10 DEF Next
<1>. QED
  BY <1>11 DEF Done

\* A request begins or goes on by a step of its own.
LEMMA OwnStep ==
    ASSUME TypeOK, [Next]_vars, NEW h \in Handlers,
           req'[h] # req[h], req'[h].op # "idle"
    PROVE  RequestStep(h) /\ \A g \in Handlers \ {h} : req'[g] = req[g]
<1>1. ASSUME NEW g \in Handlers, RequestStep(g), NEW f \in Handlers, f # g
      PROVE  req'[f] = req[f]
  BY <1>1
  DEF TypeOK, RequestStep, ReadStatus, WriteStatus, Store, Deliver, Cancel, BeginReject,
      ReadForReject, HideOrder, Reject, GiveBack, RequestFails, Await, Answer
<1>2. ~Restart
  BY DEF Restart, Idle
<1>3. req' # req
  OBVIOUS
<1>4. \E g \in Handlers : RequestStep(g)
  BY <1>2, <1>3
  DEF Next, CronStep, ReadDue, ReadBatch, ActivateDue, Release, NotifyActivated, Notify,
      CooldownExpires, DeleteCoupon, BecomeDue, vars, requestVars
<1>. QED
  BY <1>1, <1>4

\* What a request knows when it begins or goes on.
LEMMA ReadsFresh ==
    ASSUME TypeOK, NEW h \in Handlers, RequestStep(h),
           req'[h] # req[h], req'[h].op # "idle"
    PROVE  /\ order' = order
           /\ req'[h].order \in Orders
           /\ \/ /\ req[h].op = "idle"
                 /\ OneRequestPerOrder => \A g \in Handlers : req[g].order # req'[h].order
              \/ req[h].op # "idle" /\ req'[h].order = req[h].order
           /\ req'[h].op = "status" =>
                 /\ req'[h].next \in Transitions(order[req'[h].order].status)
                 /\ req'[h].next # "NEW"
           /\ req'[h].op = "giveBack" =>
                 /\ order[req'[h].order].status = "DELIVERING"
                 /\ order[req'[h].order].courier = req'[h].user
<1>1. ASSUME NEW s \in Staff, NEW o \in Orders, NEW next \in OrderStatus,
             ReadStatus(h, s[1], s[2], o, next)
      PROVE  /\ order' = order
             /\ req'[h] = [op |-> "status", order |-> o, user |-> s[2], next |-> next]
             /\ req[h].op = "idle"
             /\ OneRequestPerOrder => \A g \in Handlers : req[g].order # o
             /\ next \in Transitions(order[o].status)
             /\ next # "NEW"
  <2>1. s[1] \in Role
    OBVIOUS
  <2>2. next \in AllowedByRole(s[1]) /\ next \in Transitions(order[o].status)
    BY <1>1 DEF ReadStatus, MayApply
  <2>3. next # "NEW"
    BY <2>1, <2>2 DEF AllowedByRole, Role
  <2>. QED
    BY <1>1, <2>2, <2>3 DEF ReadStatus, Await, TypeOK, orderVars
<1>2. ASSUME NEW user \in Users, NEW o \in Orders, BeginReject(h, user, o)
      PROVE  /\ order' = order
             /\ req'[h] = [op |-> "reject", order |-> o, user |-> user, next |-> "READY"]
             /\ req[h].op = "idle"
             /\ OneRequestPerOrder => \A g \in Handlers : req[g].order # o
  BY <1>2 DEF BeginReject, Await, TypeOK, orderVars
<1>3. ASSUME ReadForReject(h)
      PROVE  /\ order' = order /\ req[h].op = "reject"
             /\ req[h] \in Request /\ req[h].order \in Orders
             /\ \/ req'[h] = [req[h] EXCEPT !.op = "hide"]
                \/ /\ req'[h] = [req[h] EXCEPT !.op = "giveBack"]
                   /\ order[req[h].order].status = "DELIVERING"
                   /\ order[req[h].order].courier = req[h].user
  BY <1>3 DEF ReadForReject, TypeOK, Answer, Idle, orderVars
<1>4. ~Answer(h)
  BY DEF Answer, Idle, TypeOK
<1>5. \/ \E s \in Staff, o \in Orders, next \in OrderStatus :
             ReadStatus(h, s[1], s[2], o, next)
      \/ \E user \in Users, o \in Orders : BeginReject(h, user, o)
      \/ ReadForReject(h)
  BY <1>4
  DEF RequestStep, WriteStatus, Store, Deliver, Cancel, HideOrder, Reject, GiveBack,
      RequestFails
<1>6. CASE \E s \in Staff, o \in Orders, next \in OrderStatus :
               ReadStatus(h, s[1], s[2], o, next)
  <2>1. PICK s \in Staff, o \in Orders, next \in OrderStatus :
            ReadStatus(h, s[1], s[2], o, next)
    BY <1>6
  <2>2. /\ order' = order /\ req[h].op = "idle"
        /\ req'[h] = [op |-> "status", order |-> o, user |-> s[2], next |-> next]
        /\ OneRequestPerOrder => \A g \in Handlers : req[g].order # o
        /\ next \in Transitions(order[o].status) /\ next # "NEW"
    BY <1>1, <2>1
  <2>3. req'[h].op = "status" /\ req'[h].order = o /\ req'[h].next = next
    BY <2>2
  <2>. QED
    BY <2>2, <2>3
<1>7. CASE \E user \in Users, o \in Orders : BeginReject(h, user, o)
  <2>1. PICK user \in Users, o \in Orders : BeginReject(h, user, o)
    BY <1>7
  <2>2. /\ order' = order /\ req[h].op = "idle"
        /\ req'[h] = [op |-> "reject", order |-> o, user |-> user, next |-> "READY"]
        /\ OneRequestPerOrder => \A g \in Handlers : req[g].order # o
    BY <1>2, <2>1
  <2>3. req'[h].op = "reject" /\ req'[h].order = o
    BY <2>2
  <2>. QED
    BY <2>2, <2>3
<1>8. CASE ReadForReject(h)
  <2>1. /\ req'[h].order = req[h].order /\ req'[h].user = req[h].user
        /\ req'[h].op \in {"hide", "giveBack"}
        /\ req'[h].op = "giveBack" =>
              /\ order[req[h].order].status = "DELIVERING"
              /\ order[req[h].order].courier = req[h].user
    BY <1>3, <1>8 DEF Request
  <2>. QED
    BY <1>3, <1>8, <2>1
<1>. QED
  BY <1>5, <1>6, <1>7, <1>8

LEMMA OneEachStep ==
    ASSUME TypeOK, OneRequestPerOrder, OneEach, [Next]_vars
    PROVE  OneEach'
<1>. SUFFICES ASSUME NEW g \in Handlers, NEW h \in Handlers, g # h,
                     req'[g].op # "idle", req'[h].op # "idle", req'[g].order = req'[h].order
              PROVE  FALSE
  BY DEF OneEach
<1>1. CASE req'[g] = req[g] /\ req'[h] = req[h]
  BY <1>1 DEF OneEach
<1>2. ASSUME NEW f \in Handlers, NEW e \in Handlers, e # f,
             req'[f].op # "idle", req'[e].op # "idle", req'[f].order = req'[e].order,
             req'[f] # req[f]
      PROVE  FALSE
  <2>1. RequestStep(f) /\ req'[e] = req[e]
    BY <1>2, OwnStep
  <2>2. \/ \A d \in Handlers : req[d].order # req'[f].order
        \/ req[f].op # "idle" /\ req'[f].order = req[f].order
    BY <1>2, <2>1, ReadsFresh
  <2>. QED
    BY <1>2, <2>1, <2>2 DEF OneEach
<1>. QED
  BY <1>1, <1>2

LEMMA FreshStep ==
    ASSUME TypeOK, OneEach, Fresh, [Next]_vars
    PROVE  Fresh'
<1>. SUFFICES ASSUME NEW h \in Handlers, req'[h].op \in {"status", "giveBack"}
              PROVE  /\ req'[h].op = "status" =>
                           /\ req'[h].next \in Transitions(order'[req'[h].order].status)
                           /\ req'[h].next # "NEW"
                     /\ req'[h].op = "giveBack" =>
                           /\ order'[req'[h].order].status = "DELIVERING"
                           /\ order'[req'[h].order].courier = req'[h].user
  BY DEF Fresh, Transitions, TransitionTable
<1>1. CASE req'[h] # req[h]
  <2>1. RequestStep(h)
    BY <1>1, OwnStep
  <2>. QED
    BY <1>1, <2>1, ReadsFresh
<1>2. CASE req'[h] = req[h]
  <2>. DEFINE o == req[h].order
  <2>1. o \in Orders /\ order[o] \in OrderRow
    BY <1>2 DEF TypeOK
  <2>2. /\ req[h].op = "status" =>
              req[h].next \in Transitions(order[o].status) /\ req[h].next # "NEW"
        /\ req[h].op = "giveBack" =>
              order[o].status = "DELIVERING" /\ order[o].courier = req[h].user
    BY DEF Fresh
  <2>3. CASE order'[o] = order[o]
    BY <1>2, <2>2, <2>3
  <2>4. CASE order'[o] # order[o]
    <3>1. Activated(o)
      <4>1. ASSUME NEW g \in Handlers, req[g].op # "idle", req[g].order = o,
                   req'[g].op = "idle"
            PROVE  FALSE
        BY <1>2, <4>1 DEF OneEach
      <4>. QED
        BY <2>1, <2>4, <4>1, Mover
    <3>2. order'[o].status = "NEW" /\ order[o].status = "PENDING_SCHEDULE"
      BY <2>1, <3>1 DEF Activated, OrderRow
    <3>3. Transitions("PENDING_SCHEDULE") \ {"NEW"} \subseteq Transitions("NEW")
      BY DEF Transitions, TransitionTable, OrderStatus
    <3>. QED
      BY <1>2, <2>2, <3>2, <3>3
  <2>. QED
    BY <2>3, <2>4
<1>. QED
  BY <1>1, <1>2

-----------------------------------------------------------------------------
(* What requests that do not meet do to one order *)

\* A write finds the status it was meant for.
LEMMA FreshRow ==
    ASSUME TypeOK, Fresh, NEW o \in Orders, RowStep(o)
    PROVE  \/ Kept(o)
           \/ Activated(o)
           \/ \E h \in Handlers :
                 \/ Stored(o, h) /\ req[h].next \in Transitions(order[o].status)
                 \/ Ended(o, h) /\ order[o].status = "DELIVERING"
                 \/ Dropped(o, h) /\ order[o].status \notin {"DELIVERED", "CANCELLED"}
                 \/ /\ Returned(o, h) /\ order[o].status = "DELIVERING"
                    /\ order[o].courier = req[h].user
<1>1. order[o].status \in OrderStatus
  BY DEF TypeOK, OrderRow
<1>2. ASSUME NEW h \in Handlers, Stored(o, h)
      PROVE  req[h].next \in Transitions(order[o].status)
  BY <1>2 DEF Stored, Fresh
<1>3. ASSUME NEW h \in Handlers, Ended(o, h) PROVE order[o].status = "DELIVERING"
  BY <1>1, <1>3 DEF Ended, Fresh, Transitions, TransitionTable, OrderStatus
<1>4. ASSUME NEW h \in Handlers, Dropped(o, h)
      PROVE  order[o].status \notin {"DELIVERED", "CANCELLED"}
  BY <1>1, <1>4 DEF Dropped, Fresh, Transitions, TransitionTable, OrderStatus
<1>5. ASSUME NEW h \in Handlers, Returned(o, h)
      PROVE  order[o].status = "DELIVERING" /\ order[o].courier = req[h].user
  BY <1>5 DEF Returned, Fresh
<1>. QED
  BY <1>2, <1>3, <1>4, <1>5 DEF RowStep

\* The columns an update writes.
LEMMA WrittenColumns ==
    ASSUME NEW row \in OrderRow, NEW next \in OrderStatus, NEW user \in Users
    PROVE  LET new == Written(row, next, user) IN
           /\ new.status = next /\ new.credited = row.credited
           /\ row.stamps \subseteq new.stamps
           /\ new.picker = IF next = "PICKING" THEN user ELSE row.picker
           /\ new.courier = IF next = "DELIVERING" THEN user ELSE row.courier
  BY DEF Written, OrderRow

\* The columns that the proofs below speak of, after one step.
Columns(o) ==
    LET old == order[o]
        new == order'[o]
    IN
    \/ new = old
    \/ /\ old.status = "PENDING_SCHEDULE" /\ new.status = "NEW"
       /\ new.picker = old.picker /\ new.courier = old.courier
       /\ new.credited = old.credited
    \/ /\ new.status \in Transitions(old.status) \cap {"PICKING", "READY", "DELIVERING"}
       /\ new.picker = old.picker \/ new.status = "PICKING"
       /\ new.courier = old.courier \/ new.status = "DELIVERING"
       /\ new.credited = old.credited
    \/ /\ old.status = "DELIVERING" /\ new.status = "DELIVERED"
       /\ new.picker = old.picker /\ new.courier = old.courier
       /\ old.stamps \subseteq new.stamps
       /\ CustomerOf[o] # NoCustomer => new.credited
    \/ /\ old.status \notin {"DELIVERED", "CANCELLED"} /\ new.status = "CANCELLED"
       /\ new.picker = old.picker /\ new.courier = old.courier
       /\ new.credited = old.credited
    \/ /\ old.status = "DELIVERING" /\ new.status = "READY"
       /\ new.picker = old.picker /\ new.courier = NoUser
       /\ new.credited = old.credited

LEMMA ColumnsStep ==
    ASSUME TypeOK, Fresh, [Next]_vars, NEW o \in Orders
    PROVE  Columns(o)
<1>1. RowStep(o) /\ order[o] \in OrderRow
  BY OrderStep DEF TypeOK
<1>2. CASE Kept(o)
  BY <1>2 DEF Kept, Columns
<1>3. CASE Activated(o)
  BY <1>1, <1>3 DEF Activated, Columns, OrderRow
<1>4. ASSUME NEW h \in Handlers, Stored(o, h), req[h].next \in Transitions(order[o].status)
      PROVE  Columns(o)
  <2>1. req[h].next \in OrderStatus /\ req[h].user \in Users
    BY <1>4, PendingRequest DEF Stored
  <2>. QED
    BY <1>1, <1>4, <2>1, WrittenColumns DEF Stored, Columns
<1>5. ASSUME NEW h \in Handlers, Ended(o, h), order[o].status = "DELIVERING"
      PROVE  Columns(o)
  <2>. DEFINE row == Written(order[o], "DELIVERED", req[h].user)
  <2>1. "DELIVERED" \in OrderStatus /\ req[h].user \in Users
    BY <1>5 DEF Ended, OrderStatus, TypeOK
  <2>2. /\ row.status = "DELIVERED" /\ row.credited = order[o].credited
        /\ order[o].stamps \subseteq row.stamps
        /\ row.picker = order[o].picker /\ row.courier = order[o].courier
        /\ row \in OrderRow
    BY <1>1, <2>1, WrittenColumns, WrittenRow
  <2>3. \/ order'[o] = row /\ (CustomerOf[o] # NoCustomer => order[o].credited)
        \/ order'[o] = [row EXCEPT !.credited = TRUE]
    BY <1>5 DEF Ended
  <2>. HIDE DEF row
  <2>4. /\ order'[o].status = "DELIVERED"
        /\ order[o].stamps \subseteq order'[o].stamps
        /\ order'[o].picker = order[o].picker /\ order'[o].courier = order[o].courier
        /\ CustomerOf[o] # NoCustomer => order'[o].credited
    BY <2>2, <2>3 DEF OrderRow
  <2>. QED
    BY <1>5, <2>4 DEF Columns
<1>6. ASSUME NEW h \in Handlers, Dropped(o, h),
             order[o].status \notin {"DELIVERED", "CANCELLED"}
      PROVE  Columns(o)
  <2>1. "CANCELLED" \in OrderStatus /\ req[h].user \in Users
    BY <1>6 DEF Dropped, OrderStatus, TypeOK
  <2>2. /\ order'[o].status = "CANCELLED" /\ order'[o].credited = order[o].credited
        /\ order'[o].picker = order[o].picker /\ order'[o].courier = order[o].courier
    BY <1>1, <1>6, <2>1, WrittenColumns DEF Dropped
  <2>. QED
    BY <1>6, <2>2 DEF Columns
<1>7. ASSUME NEW h \in Handlers, Returned(o, h), order[o].status = "DELIVERING"
      PROVE  Columns(o)
  <2>1. /\ order'[o].status = "READY" /\ order'[o].credited = order[o].credited
        /\ order'[o].picker = order[o].picker /\ order'[o].courier = NoUser
    BY <1>1, <1>7 DEF Returned, GivenBack, OrderRow
  <2>. QED
    BY <1>7, <2>1 DEF Columns
<1>. QED
  BY <1>1, <1>2, <1>3, <1>4, <1>5, <1>6, <1>7, FreshRow

LEMMA UnclaimedStep ==
    ASSUME TypeOK, Fresh, Unclaimed, [Next]_vars
    PROVE  Unclaimed'
<1>. SUFFICES ASSUME NEW o \in Orders
              PROVE  /\ order'[o].status \in {"PENDING_SCHEDULE", "NEW"} =>
                           order'[o].picker = NoUser
                     /\ order'[o].status \in {"PENDING_SCHEDULE", "NEW", "PICKING", "READY"} =>
                           order'[o].courier = NoUser
  BY DEF Unclaimed
<1>1. Columns(o) /\ order[o].status \in OrderStatus
  BY ColumnsStep DEF TypeOK, OrderRow
<1>2. /\ order[o].status \in {"PENDING_SCHEDULE", "NEW"} => order[o].picker = NoUser
      /\ order[o].status \in {"PENDING_SCHEDULE", "NEW", "PICKING", "READY"} =>
            order[o].courier = NoUser
  BY DEF Unclaimed
<1>3. \A s \in OrderStatus : Transitions(s) \cap {"PICKING", "READY"} # {} =>
          s \in {"PENDING_SCHEDULE", "NEW", "PICKING"}
  BY DEF Transitions, TransitionTable, OrderStatus
<1>. QED
  BY <1>1, <1>2, <1>3 DEF Columns

LEMMA ApartStep == TypeOK /\ Apart /\ [Next]_vars => Apart'
  BY OneEachStep, FreshStep, UnclaimedStep DEF Apart

LEMMA InitApart == Init => Apart
  BY DEF Init, Apart, OneEach, Fresh, Unclaimed, Idle

\* Requests that staff do not send for one order at a time follow the table and leave
\* every order in the hands that hold it, the minute job and any restart
\* notwithstanding (applyStatus, rejectByCourier).
THEOREM ApartStepsAllowed == ASSUME OneRequestPerOrder PROVE Spec => StepsAllowed
<1>1. ASSUME TypeOK, Fresh, Unclaimed, [Next]_vars, NEW o \in Orders
      PROVE  /\ order[o].status # order'[o].status =>
                   \/ order'[o].status \in Transitions(order[o].status)
                   \/ order[o].status = "DELIVERING" /\ order'[o].status = "READY"
             /\ order[o].picker # NoUser => order'[o].picker = order[o].picker
             /\ order[o].courier # NoUser => order'[o].courier \in {order[o].courier, NoUser}
  <2>1. Columns(o) /\ order[o].status \in OrderStatus
    BY <1>1, ColumnsStep DEF TypeOK, OrderRow
  <2>2. \A s \in OrderStatus :
            /\ "PICKING" \in Transitions(s) => s \in {"PENDING_SCHEDULE", "NEW"}
            /\ "DELIVERING" \in Transitions(s) => s = "READY"
            /\ s \notin {"DELIVERED", "CANCELLED"} => "CANCELLED" \in Transitions(s)
            /\ s = "PENDING_SCHEDULE" => "NEW" \in Transitions(s)
            /\ s = "DELIVERING" => "DELIVERED" \in Transitions(s)
    BY DEF Transitions, TransitionTable, OrderStatus
  <2>3. /\ order[o].status \in {"PENDING_SCHEDULE", "NEW"} => order[o].picker = NoUser
        /\ order[o].status = "READY" => order[o].courier = NoUser
    BY <1>1 DEF Unclaimed
  <2>. QED
    BY <2>1, <2>2, <2>3 DEF Columns
<1>2. TypeOK /\ Apart /\ [Next]_vars =>
         [\A o \in Orders :
             LET from == order[o].status
                 to == order'[o].status
             IN  from # to => \/ to \in Transitions(from)
                              \/ from = "DELIVERING" /\ to = "READY"]_vars
  BY <1>1 DEF Apart
<1>3. TypeOK /\ Apart /\ [Next]_vars =>
         [\A o \in Orders :
             /\ order[o].picker # NoUser => order'[o].picker = order[o].picker
             /\ order[o].courier # NoUser =>
                   order'[o].courier \in {order[o].courier, NoUser}]_vars
  BY <1>1 DEF Apart
<1>. QED
  BY <1>2, <1>3, InitApart, ApartStep, TypeCorrect, PTL
  DEF Spec, StepsAllowed, TableFollowed, ClaimsHold

-----------------------------------------------------------------------------
(* An order that staff do not touch together is settled as it ended *)

LEMMA DeliveredStep ==
    ASSUME TypeOK, Fresh, StageEvidence, DeliveredByCourier, [Next]_vars
    PROVE  DeliveredByCourier'
<1>. SUFFICES ASSUME NEW o \in Orders, order'[o].status = "DELIVERED"
              PROVE  order'[o].courier # NoUser /\ "deliveringAt" \in order'[o].stamps
  BY DEF DeliveredByCourier
<1>1. Columns(o) /\ RowEvidence(order[o])
  BY ColumnsStep DEF StageEvidence
<1>2. order[o].status = "DELIVERED" =>
          order[o].courier # NoUser /\ "deliveringAt" \in order[o].stamps
  BY DEF DeliveredByCourier
<1>. QED
  BY <1>1, <1>2 DEF Columns, RowEvidence

LEMMA SettlementStep ==
    ASSUME TypeOK, Fresh, SettlementMatchesStatus, [Next]_vars
    PROVE  SettlementMatchesStatus'
<1>. SUFFICES ASSUME NEW o \in Orders, CustomerOf[o] # NoCustomer
              PROVE  /\ order'[o].credited <=> order'[o].status = "DELIVERED"
                     /\ ledger'[o].refund =
                           IF order'[o].status = "CANCELLED" /\ RedeemOf[o] > 0 THEN 1 ELSE 0
  BY DEF SettlementMatchesStatus
<1>1. /\ order[o].credited <=> order[o].status = "DELIVERED"
      /\ ledger[o].refund =
            IF order[o].status = "CANCELLED" /\ RedeemOf[o] > 0 THEN 1 ELSE 0
  BY DEF SettlementMatchesStatus
<1>2. /\ order[o].status \in OrderStatus /\ order[o] \in OrderRow
      /\ order[o].credited \in BOOLEAN /\ order'[o].credited \in BOOLEAN
      /\ ledger[o] \in [earned : Nat, refund : Nat]
  BY NextType DEF TypeOK, OrderRow
<1>3. \A s \in {"DELIVERED", "CANCELLED"} : Transitions(s) = {}
  BY DEF Transitions, TransitionTable, OrderStatus
<1>4. order'[o].credited <=> order'[o].status = "DELIVERED"
  BY <1>1, <1>2, <1>3, ColumnsStep DEF Columns
<1>5. RowStep(o)
  BY OrderStep
<1>6. CASE Kept(o) \/ Activated(o)
  BY <1>1, <1>2, <1>4, <1>6 DEF Kept, Activated, OrderRow
<1>7. ASSUME NEW h \in Handlers, Stored(o, h), req[h].next \in Transitions(order[o].status)
      PROVE  /\ order[o].status \notin {"DELIVERED", "CANCELLED"}
             /\ order'[o].status # "CANCELLED" /\ ledger'[o] = ledger[o]
  BY <1>2, <1>3, <1>7 DEF Stored, Written, OrderRow
<1>8. ASSUME NEW h \in Handlers, Ended(o, h), order[o].status = "DELIVERING"
      PROVE  order'[o].status = "DELIVERED" /\ ledger'[o].refund = ledger[o].refund
  <2>1. order'[o].status = "DELIVERED"
    BY <1>2, <1>8 DEF Ended, Written, OrderRow
  <2>. QED
    BY <1>2, <1>8, <2>1 DEF Ended
<1>9. ASSUME NEW h \in Handlers, Dropped(o, h),
             order[o].status \notin {"DELIVERED", "CANCELLED"}
      PROVE  /\ order'[o].status = "CANCELLED"
             /\ ledger'[o].refund = IF RedeemOf[o] > 0 THEN 1 ELSE 0
  <2>1. order'[o].status = "CANCELLED"
    BY <1>2, <1>9 DEF Dropped, Written, OrderRow
  <2>2. RedeemOf[o] \in Nat /\ ledger[o].refund = 0
    BY <1>1, <1>9
  <2>. QED
    BY <1>2, <1>9, <2>1, <2>2 DEF Dropped
<1>10. ASSUME NEW h \in Handlers, Returned(o, h), order[o].status = "DELIVERING"
       PROVE  order'[o].status = "READY" /\ ledger'[o] = ledger[o]
  BY <1>2, <1>10 DEF Returned, GivenBack, OrderRow
<1>. QED
  BY <1>1, <1>4, <1>5, <1>6, <1>7, <1>8, <1>9, <1>10, FreshRow

\* The coupon columns move by a cancellation or by the deletion of a coupon.
LEMMA CouponMover ==
    ASSUME [Next]_vars
    PROVE  \/ UNCHANGED couponVars
           \/ \E h \in Handlers : Cancel(h)
           \/ \E k \in Coupons : DeleteCoupon(k)
<1>1. ASSUME NEW h \in Handlers, RequestStep(h)
      PROVE  Cancel(h) \/ UNCHANGED couponVars
  <2>1. \A s \in Staff, p \in Orders, next \in OrderStatus :
            ReadStatus(h, s[1], s[2], p, next) => UNCHANGED couponVars
    BY DEF ReadStatus
  <2>2. \A user \in Users, p \in Orders : BeginReject(h, user, p) => UNCHANGED couponVars
    BY DEF BeginReject
  <2>3. WriteStatus(h) \/ Deliver(h) \/ ReadForReject(h) \/ HideOrder(h) \/ GiveBack(h)
           \/ RequestFails(h) => UNCHANGED couponVars
    BY DEF WriteStatus, Store, Deliver, ReadForReject, HideOrder, Reject, GiveBack,
           RequestFails
  <2>. QED
    BY <1>1, <2>1, <2>2, <2>3 DEF RequestStep
<1>2. ASSUME NEW r \in CronRuns, CronStep(r)
      PROVE  UNCHANGED couponVars
  <2>1. \A p \in Orders : NotifyActivated(r, p) => UNCHANGED couponVars
    BY DEF NotifyActivated, Notify
  <2>2. ReadDue(r) \/ ActivateDue(r) => UNCHANGED couponVars
    BY DEF ReadDue, ReadBatch, ActivateDue, Release
  <2>. QED
    BY <1>2, <2>1, <2>2 DEF CronStep
<1>3. UNCHANGED vars => UNCHANGED couponVars
  BY DEF vars
<1>4. Restart \/ (\E user \in Users : CooldownExpires(user))
         \/ (\E o \in Orders : BecomeDue(o)) => UNCHANGED couponVars
  BY DEF Restart, CooldownExpires, BecomeDue
<1>. QED
  BY <1>1, <1>2, <1>3, <1>4 DEF Next

LEMMA CouponStep ==
    ASSUME TypeOK, Fresh, Redeemed, CouponRowsMatch, [Next]_vars
    PROVE  Redeemed' /\ CouponRowsMatch'
<1>. DEFINE Rows(k) == {o \in redemption : couponRef[o] = k}
<1>1. \A k \in Coupons : usedCount[k] = Cardinality(Rows(k))
  BY DEF CouponRowsMatch
<1>2. \A k : IsFiniteSet(Rows(k))
  BY FS_Subset DEF TypeOK
<1>3. \A o \in Orders : order[o].status = "CANCELLED" => order'[o].status = "CANCELLED"
  <2>1. Transitions("CANCELLED") = {}
    BY DEF Transitions, TransitionTable, OrderStatus
  <2>. QED
    BY <2>1, ColumnsStep DEF Columns
<1>4. CASE UNCHANGED couponVars
  <2>1. Redeemed'
    BY <1>3, <1>4 DEF couponVars, Redeemed
  <2>2. CouponRowsMatch'
    BY <1>4 DEF couponVars, CouponRowsMatch
  <2>. QED
    BY <2>1, <2>2
<1>5. ASSUME NEW h \in Handlers, Cancel(h) PROVE Redeemed' /\ CouponRowsMatch'
  <2>. DEFINE p == req[h].order
              k == couponRef[p]
  <2>1. /\ p \in Orders /\ k \in Coupons \cup {NoCoupon}
        /\ RefundCouponOnCancel(p)
    BY <1>5 DEF Cancel, TypeOK
  <2>2. /\ order[p].status # "CANCELLED"
        /\ order'[p].status = "CANCELLED"
    <3>1. req[h].next \in Transitions(order[p].status) /\ req[h].next = "CANCELLED"
      BY <1>5 DEF Cancel, Fresh
    <3>2. order[p] \in OrderRow
      BY <2>1 DEF TypeOK
    <3>3. order[p].status # "CANCELLED"
      BY <3>1 DEF Transitions, TransitionTable, OrderStatus
    <3>4. order'[p] = Written(order[p], req[h].next, req[h].user)
      BY <1>5, <2>1 DEF Cancel, TypeOK
    <3>. QED
      BY <3>1, <3>2, <3>3, <3>4 DEF Written, OrderRow
  <2>3. CASE k = NoCoupon
    <3>1. UNCHANGED couponVars
      BY <2>1, <2>3 DEF RefundCouponOnCancel
    <3>. QED
      BY <1>4, <3>1
  <2>4. CASE k # NoCoupon
    <3>1. /\ redemption' = redemption \ {p} /\ couponRef' = couponRef
          /\ usedCount' = [usedCount EXCEPT ![k] = @ - 1]
      BY <2>1, <2>4 DEF RefundCouponOnCancel
    <3>2. p \in Rows(k)
      BY <2>1, <2>2, <2>4 DEF Redeemed
    <3>3. Redeemed'
      BY <1>3, <2>1, <2>2, <3>1 DEF Redeemed
    <3>4. ASSUME NEW l \in Coupons
          PROVE  usedCount'[l] = Cardinality({o \in redemption' : couponRef'[o] = l})
      <4>1. CASE l = k
        <5>1. {o \in redemption' : couponRef'[o] = l} = Rows(k) \ {p}
          BY <3>1, <4>1
        <5>2. IsFiniteSet(Rows(k)) /\ p \in Rows(k)
          BY <1>2, <3>2
        <5>. HIDE DEF Rows, p, k
        <5>3. Cardinality(Rows(k) \ {p}) = Cardinality(Rows(k)) - 1
          BY <5>2, FS_RemoveElement
        <5>. QED
          BY <1>1, <3>1, <4>1, <5>1, <5>3 DEF TypeOK
      <4>2. CASE l # k
        <5>1. {o \in redemption' : couponRef'[o] = l} = Rows(l)
          BY <3>1, <4>2
        <5>. QED
          BY <1>1, <3>1, <4>2, <5>1 DEF TypeOK
      <4>. QED
        BY <4>1, <4>2
    <3>. QED
      BY <3>3, <3>4 DEF CouponRowsMatch
  <2>. QED
    BY <2>3, <2>4
<1>6. ASSUME NEW k \in Coupons, DeleteCoupon(k) PROVE Redeemed' /\ CouponRowsMatch'
  <2>1. /\ couponRef' = [o \in Orders |-> IF couponRef[o] = k THEN NoCoupon ELSE couponRef[o]]
        /\ redemption' = {o \in redemption : couponRef[o] # k}
        /\ usedCount' = [usedCount EXCEPT ![k] = 0]
        /\ order' = order
    BY <1>6 DEF DeleteCoupon, orderVars
  <2>2. Redeemed'
    BY <2>1 DEF Redeemed
  <2>3. ASSUME NEW l \in Coupons
        PROVE  usedCount'[l] = Cardinality({o \in redemption' : couponRef'[o] = l})
    <3>1. NoCoupon # l /\ redemption \subseteq Orders
      BY DEF TypeOK
    <3>2. CASE l = k
      <4>1. {o \in redemption' : couponRef'[o] = l} = {}
        BY <2>1, <3>1, <3>2
      <4>. QED
        BY <2>1, <3>2, <4>1, FS_EmptySet DEF TypeOK
    <3>3. CASE l # k
      <4>1. {o \in redemption' : couponRef'[o] = l} = Rows(l)
        BY <2>1, <3>1, <3>3
      <4>. QED
        BY <1>1, <2>1, <3>3, <4>1 DEF TypeOK
    <3>. QED
      BY <3>2, <3>3
  <2>. QED
    BY <2>2, <2>3 DEF CouponRowsMatch
<1>. QED
  BY <1>4, <1>5, <1>6, CouponMover

LEMMA InitAsEnded == Init => AsEnded
<1>. SUFFICES ASSUME Init PROVE Redeemed /\ SettledAsEnded
  BY DEF AsEnded
<1>1. Redeemed
  BY DEF Init, Redeemed
<1>2. SettlementMatchesStatus /\ DeliveredByCourier
  BY DEF Init, SettlementMatchesStatus, DeliveredByCourier
<1>3. CouponRowsMatch
  <2>1. \A k \in Coupons : {o \in redemption : couponRef[o] = k} = {o \in Orders : CouponOf[o] = k}
    BY DEF Init
  <2>. QED
    BY <2>1 DEF Init, CouponRowsMatch
<1>. QED
  BY <1>1, <1>2, <1>3 DEF SettledAsEnded

LEMMA AsEndedStep == TypeOK /\ StageEvidence /\ Apart /\ AsEnded /\ [Next]_vars => AsEnded'
  BY DeliveredStep, SettlementStep, CouponStep DEF Apart, AsEnded, SettledAsEnded

\* As long as staff do not act on one order at the same time, every order is settled the
\* way it ended and no other way, its coupon use included, and a delivered one has the
\* courier who took it (applyStatus, refundCouponOnCancel).
THEOREM ApartSettledAsEnded == ASSUME OneRequestPerOrder PROVE Spec => []SettledAsEnded
<1>1. AsEnded => SettledAsEnded
  BY DEF AsEnded
<1>. QED
  BY <1>1, InitApart, ApartStep, InitAsEnded, AsEndedStep, TypeCorrect, StagesEvident, PTL
  DEF Spec

-----------------------------------------------------------------------------
(* Each order ends once, as its customer was promised *)

LEMMA PromiseInit == Init => Promise!Init
  BY DEF Init, Promise!Init, Outcome

OutcomeOf(status) ==
    CASE status = "DELIVERED" -> "delivered"
      [] status = "CANCELLED" -> "cancelled"
      [] OTHER -> "open"

\* Only a delivery or a cancellation ends an order or touches an account.
NoneEnds ==
    \A o \in Orders :
        order'[o] = order[o] \/ order'[o].status \notin {"DELIVERED", "CANCELLED"}

LEMMA OnlyEndsPay ==
    ASSUME TypeOK, [Next]_vars
    PROVE  \/ \E h \in Handlers : Deliver(h) \/ Cancel(h)
           \/ UNCHANGED account /\ NoneEnds
<1>1. UNCHANGED orderVars => UNCHANGED account /\ NoneEnds
  BY DEF orderVars, NoneEnds
<1>2. ASSUME NEW h \in Handlers, WriteStatus(h) PROVE UNCHANGED account /\ NoneEnds
  <2>. DEFINE p == req[h].order
  <2>1. p \in Orders /\ req[h].next \in {"PICKING", "READY", "DELIVERING"}
    BY <1>2 DEF WriteStatus, Store, TypeOK
  <2>2. Written(order[p], req[h].next, req[h].user).status = req[h].next
    BY <1>2, <2>1, PendingRequest DEF WriteStatus, Store, Written, OrderRow, TypeOK
  <2>. QED
    BY <1>2, <2>1, <2>2 DEF WriteStatus, Store, NoneEnds, TypeOK
<1>3. ASSUME NEW h \in Handlers, GiveBack(h) PROVE UNCHANGED account /\ NoneEnds
  <2>. DEFINE p == req[h].order
  <2>1. p \in Orders /\ order[p] \in OrderRow
    BY <1>3 DEF GiveBack, TypeOK
  <2>2. GivenBack(order[p]).status = "READY"
    BY <2>1 DEF GivenBack, OrderRow
  <2>. QED
    BY <1>3, <2>1, <2>2 DEF GiveBack, NoneEnds, TypeOK
<1>4. ASSUME NEW r \in CronRuns, ActivateDue(r) PROVE UNCHANGED account /\ NoneEnds
  <2>1. \A o \in Orders : order[o] \in OrderRow
    BY DEF TypeOK
  <2>. QED
    BY <1>4, <2>1 DEF ActivateDue, Release, NoneEnds, OrderRow
<1>5. ASSUME NEW h \in Handlers, RequestStep(h)
      PROVE  Deliver(h) \/ Cancel(h) \/ WriteStatus(h) \/ GiveBack(h) \/ UNCHANGED orderVars
  <2>1. \A s \in Staff, p \in Orders, next \in OrderStatus :
            ReadStatus(h, s[1], s[2], p, next) => UNCHANGED orderVars
    BY DEF ReadStatus
  <2>2. \A user \in Users, p \in Orders : BeginReject(h, user, p) => UNCHANGED orderVars
    BY DEF BeginReject
  <2>3. ReadForReject(h) \/ HideOrder(h) \/ RequestFails(h) => UNCHANGED orderVars
    BY DEF ReadForReject, HideOrder, Reject, RequestFails
  <2>. QED
    BY <1>5, <2>1, <2>2, <2>3 DEF RequestStep
<1>6. ASSUME NEW r \in CronRuns, CronStep(r)
      PROVE  ActivateDue(r) \/ UNCHANGED orderVars
  <2>1. \A p \in Orders : NotifyActivated(r, p) => UNCHANGED orderVars
    BY DEF NotifyActivated, Notify
  <2>2. ReadDue(r) => UNCHANGED orderVars
    BY DEF ReadDue, ReadBatch
  <2>. QED
    BY <1>6, <2>1, <2>2 DEF CronStep
<1>7. (UNCHANGED vars) \/ Restart \/ (\E user \in Users : CooldownExpires(user))
         \/ (\E o \in Orders : BecomeDue(o)) \/ (\E k \in Coupons : DeleteCoupon(k))
            => UNCHANGED orderVars
  BY DEF vars, Restart, CooldownExpires, BecomeDue, DeleteCoupon
<1>. QED
  BY <1>1, <1>2, <1>3, <1>4, <1>5, <1>6, <1>7 DEF Next

LEMMA PromiseKept ==
    ASSUME TypeOK, Apart, AsEnded, OneRequestPerOrder, [Next]_vars
    PROVE  [Promise!Next]_<<Outcome, account>>
<1>1. \A o \in Orders : Columns(o)
  BY ColumnsStep DEF Apart
<1>2. /\ Outcome = [o \in Orders |-> OutcomeOf(order[o].status)]
      /\ Outcome' = [o \in Orders |-> OutcomeOf(order'[o].status)]
  BY DEF Outcome, OutcomeOf
<1>3. ASSUME UNCHANGED account,
             \A o \in Orders :
                 order'[o].status \in {"DELIVERED", "CANCELLED"} => order'[o] = order[o]
      PROVE  UNCHANGED <<Outcome, account>>
  <2>1. ASSUME NEW o \in Orders
        PROVE  OutcomeOf(order'[o].status) = OutcomeOf(order[o].status)
    <3>1. Transitions("DELIVERED") = {} /\ Transitions("CANCELLED") = {}
      BY DEF Transitions, TransitionTable, OrderStatus
    <3>. QED
      BY <1>1, <1>3, <3>1 DEF Columns, OutcomeOf
  <2>. QED
    BY <1>2, <1>3, <2>1
<1>4. ASSUME NEW h \in Handlers, Deliver(h)
      PROVE  Promise!Deliver(req[h].order)
  <2>. DEFINE p == req[h].order
              row == Written(order[p], "DELIVERED", req[h].user)
  <2>1. /\ p \in Orders /\ order[p].status = "DELIVERING"
        /\ FinalizeDeliveredCashback(p, row)
    BY <1>4 DEF Deliver, TypeOK, Apart, Fresh, Transitions, TransitionTable, OrderStatus,
        OrderRow
  <2>2. row.status = "DELIVERED" /\ row.credited = order[p].credited /\ row \in OrderRow
    <3>1. order[p] \in OrderRow /\ "DELIVERED" \in OrderStatus /\ req[h].user \in Users
      BY <1>4, <2>1 DEF TypeOK, OrderStatus, Deliver
    <3>. QED
      BY <3>1, WrittenRow, WrittenColumns
  <2>. HIDE DEF row
  <2>3. CustomerOf[p] # NoCustomer => ~order[p].credited
    BY <2>1 DEF AsEnded, SettledAsEnded, SettlementMatchesStatus
  <2>4. /\ \A o \in Orders \ {p} : order'[o] = order[o]
        /\ order'[p].status = "DELIVERED"
    BY <2>1, <2>2 DEF TypeOK, FinalizeDeliveredCashback, Credit, NoCredit, OrderRow
  <2>5. Outcome[p] = "open" /\ Outcome' = [Outcome EXCEPT ![p] = "delivered"]
    BY <1>2, <2>1, <2>4 DEF OutcomeOf
  <2>6. account' = Promise!Paid(CustomerOf[p], EarnedOf[p], TotalOf[p], 1)
    BY <2>1, <2>2, <2>3
    DEF FinalizeDeliveredCashback, Credit, NoCredit, Promise!Paid
  <2>. QED
    BY <2>5, <2>6 DEF Promise!Deliver, Promise!End
<1>5. ASSUME NEW h \in Handlers, Cancel(h)
      PROVE  Promise!Cancel(req[h].order)
  <2>. DEFINE p == req[h].order
              row == Written(order[p], "CANCELLED", req[h].user)
  <2>1. /\ p \in Orders /\ RefundOrderCashbackSpend(p)
        /\ order[p].status \notin {"DELIVERED", "CANCELLED"}
        /\ order' = [order EXCEPT ![p] = row]
    BY <1>5 DEF Cancel, TypeOK, Apart, Fresh, Transitions, TransitionTable, OrderStatus,
        OrderRow
  <2>2. row.status = "CANCELLED"
    <3>1. order[p] \in OrderRow /\ "CANCELLED" \in OrderStatus /\ req[h].user \in Users
      BY <1>5, <2>1 DEF TypeOK, OrderStatus, Cancel
    <3>. QED
      BY <3>1, WrittenColumns
  <2>. HIDE DEF row
  <2>3. /\ \A o \in Orders \ {p} : order'[o] = order[o]
        /\ order'[p].status = "CANCELLED"
    BY <2>1, <2>2 DEF TypeOK
  <2>4. Outcome[p] = "open" /\ Outcome' = [Outcome EXCEPT ![p] = "cancelled"]
    BY <1>2, <2>1, <2>3 DEF OutcomeOf
  <2>5. account' = Promise!Paid(CustomerOf[p], RedeemOf[p], 0, 0)
    <3>1. CASE CustomerOf[p] = NoCustomer
      BY <2>1, <3>1 DEF RefundOrderCashbackSpend, Promise!Paid
    <3>2. CASE CustomerOf[p] # NoCustomer
      <4>. DEFINE c == CustomerOf[p]
      <4>1. c \in Customers /\ account[c] \in AccountRow /\ RedeemOf[p] \in Nat
        BY <2>1, <3>2 DEF TypeOK
      <4>2. account[c] = [balance |-> account[c].balance, totalSpent |-> account[c].totalSpent,
                          totalOrders |-> account[c].totalOrders]
        BY <4>1 DEF AccountRow
      <4>3. [account[c] EXCEPT !.balance = @ + RedeemOf[p]] =
                [balance |-> account[c].balance + RedeemOf[p],
                 totalSpent |-> account[c].totalSpent + 0,
                 totalOrders |-> account[c].totalOrders + 0]
        BY <4>1 DEF AccountRow
      <4>4. CASE RedeemOf[p] = 0
        <5>1. account' = account
          BY <2>1, <4>4 DEF RefundOrderCashbackSpend
        <5>2. [balance |-> account[c].balance + RedeemOf[p],
               totalSpent |-> account[c].totalSpent + 0,
               totalOrders |-> account[c].totalOrders + 0] = account[c]
          BY <4>1, <4>2, <4>4 DEF AccountRow
        <5>. QED
          BY <3>2, <4>1, <5>1, <5>2 DEF Promise!Paid, TypeOK
      <4>5. CASE RedeemOf[p] # 0
        <5>1. account' = [account EXCEPT ![c] = [account[c] EXCEPT !.balance = @ + RedeemOf[p]]]
          BY <2>1, <3>2, <4>5 DEF RefundOrderCashbackSpend
        <5>. QED
          BY <3>2, <4>3, <5>1 DEF Promise!Paid
      <4>. QED
        BY <4>4, <4>5
    <3>. QED
      BY <3>1, <3>2
  <2>. QED
    BY <2>4, <2>5 DEF Promise!Cancel, Promise!End
<1>6. (\E h \in Handlers : Deliver(h) \/ Cancel(h)) => Promise!Next
  <2>1. \A h \in Handlers : Deliver(h) \/ Cancel(h) => req[h].order \in Orders
    BY DEF Deliver, Cancel, TypeOK
  <2>. QED
    BY <1>4, <1>5, <2>1 DEF Promise!Next
<1>7. (\E h \in Handlers : Deliver(h) \/ Cancel(h)) \/ (UNCHANGED account /\ NoneEnds)
  BY OnlyEndsPay
<1>. QED
  BY <1>3, <1>6, <1>7 DEF NoneEnds

\* The outcomes and accounts of the orders change only as OrderSettlement has them: an
\* open order is delivered and credited, or cancelled and refunded, once, however
\* requests, the minute job, failures and restarts interleave, as long as staff do not
\* act on one order at the same time.
THEOREM ApartSettlesAsPromised == ASSUME OneRequestPerOrder PROVE Spec => SettlesAsPromised
<1>1. TypeOK /\ Apart /\ AsEnded /\ [Next]_vars => [Promise!Next]_<<Outcome, account>>
  BY PromiseKept
<1>. QED
  BY <1>1, PromiseInit, InitApart, ApartStep, InitAsEnded, AsEndedStep, TypeCorrect,
     StagesEvident, PTL
  DEF Spec, SettlesAsPromised, Promise!Spec

=============================================================================
