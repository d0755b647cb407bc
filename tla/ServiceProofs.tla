--------------------------- MODULE ServiceProofs ---------------------------
(***************************************************************************)
(* What the services beside the order promise, for every number of users.  *)
(*                                                                         *)
(*   PagesStayFresh       the cached pages of the shop (CatalogCache):     *)
(*                        what is held is as new as the last save that     *)
(*                        deleted its keys, or the deletion is to come     *)
(*   BreakerCountsTrials  the circuit breaker of the uploads               *)
(*                        (UploadCircuit)                                  *)
(*   EventsArrive         the queue of the visitors' events                *)
(*                        (VisitorEvents): none is lost but by a fault,    *)
(*                        and none is counted twice but by one             *)
(*   PagesAsAsked         the lists of products (CatalogPages): what they  *)
(*                        show is what was asked for                       *)
(*   NoticesArrive        the push notices of the staff (StaffPush)        *)
(*   ReportsAgree         the reports on the orders (Reports), whatever    *)
(*   ReportsAddUp         changes while one is read                        *)
(*                                                                         *)
(* Each has an inductive invariant of its own, and one lemma per action.   *)
(***************************************************************************)
EXTENDS CatalogCache, UploadCircuit, VisitorEvents, CatalogPages, StaffPush, Reports, FiniteSums

-----------------------------------------------------------------------------
(* The pages of the shop in the cache: the tables of keys, sources and saves. *)

\* The keys by name: what each list of feeds makes a page of.
LEMMA KeysAre == Keys = {"deliverySettings","schedulingSettings", "publicSettings","bannersActive",
  "categoriesPublic","productsHome","marketplaceHome","storesShowcase","marketplacePopular"}
BY DEF Keys, SettingsFeeds, CatalogFeeds, MarketFeeds

\* The sources a page reads itself, key by key.
LEMMA FeedsAre ==
    /\ Feeds["deliverySettings"] = {"delivery"}
    /\ Feeds["schedulingSettings"] = {"scheduling"}
    /\ Feeds["publicSettings"] = {"delivery", "support", "scheduling"}
    /\ Feeds["bannersActive"] = {"banners"}
    /\ Feeds["categoriesPublic"] = {"categories", "products"}
    /\ Feeds["productsHome"] = {"products"}
    /\ Feeds["marketplaceHome"] = {"products", "listings"}
    /\ Feeds["storesShowcase"] = {"stores"}
    /\ Feeds["marketplacePopular"] = {"listings"}
BY KeysAre DEF Feeds, SettingsFeeds, CatalogFeeds, MarketFeeds

\* A part of a page is a page without parts, and the whole reads what it reads.
LEMMA PartFacts ==
    ASSUME NEW k \in Keys, NEW j \in Parts(k)
    PROVE j \in Keys /\ Parts(j) = {} /\ Feeds[j] \subseteq Reads(k)
BY KeysAre DEF Parts, Reads

\* What a page reads itself is what it reads and no part of it does.
LEMMA OwnFacts ==
    ASSUME NEW k \in Keys
    PROVE Own(k) \subseteq Reads(k) /\ \A j \in Parts(k) : Own(k) \cap Feeds[j] = {}
BY DEF Own, Reads

\* A page reads nothing but sources.
LEMMA ReadsKnown ==
    ASSUME NEW k \in Keys PROVE Reads(k) \subseteq Sources
<1>1. \A j \in Keys : Feeds[j] \subseteq Sources BY KeysAre, FeedsAre DEF Sources
<1> QED BY <1>1, PartFacts DEF Reads

\* The sources only the page itself reads, key by key.
LEMMA OwnIs ==
    /\ Own("deliverySettings") = {"delivery"}
    /\ Own("schedulingSettings") = {"scheduling"}
    /\ Own("publicSettings") = {"delivery", "support", "scheduling"}
    /\ Own("bannersActive") = {"banners"}
    /\ Own("categoriesPublic") = {"categories", "products"}
    /\ Own("productsHome") = {"products"}
    /\ Own("marketplaceHome") = {"products"}
    /\ Own("storesShowcase") = {"stores"}
BY FeedsAre DEF Own, Parts

\* The saves by name.
LEMMA SettingsSavesAre ==
    /\ DOMAIN SettingsSaves =
          {"updateDeliverySettings", "updateSupportSettings", "updateSchedulingSettings"}
    /\ SettingsSaves["updateDeliverySettings"] =
          Save("delivery", {"deliverySettings", "publicSettings"}, FALSE)
    /\ SettingsSaves["updateSupportSettings"] = Save("support", {"publicSettings"}, FALSE)
    /\ SettingsSaves["updateSchedulingSettings"] =
          Save("scheduling", {"schedulingSettings", "publicSettings"}, FALSE)
BY DEF SettingsSaves

\* The other saves by name: their source, the keys they delete, and the bump.
LEMMA OtherSavesAre ==
    /\ DOMAIN BannerSaves = {"saveBanner", "updateBanner"}
    /\ BannerSaves["saveBanner"] = Save("banners", {"bannersActive"}, FALSE)
    /\ BannerSaves["updateBanner"] = Save("banners", {}, FALSE)
    /\ DOMAIN CategorySaves = {"saveCategory"}
    /\ CategorySaves["saveCategory"] = Save("categories", CatalogKeys, TRUE)
    /\ DOMAIN StoreSaves = {"saveStore"}
    /\ StoreSaves["saveStore"] = Save("stores", MarketKeys, FALSE)
    /\ DOMAIN ListingSaves = {"saveListing"}
    /\ ListingSaves["saveListing"] = Save("listings", MarketKeys, FALSE)
    /\ DOMAIN ProductSaves = {"saveProduct", "editProduct"}
    /\ ProductSaves["saveProduct"] = Save("products", CatalogKeys, TRUE)
    /\ ProductSaves["editProduct"] = Save("products", CatalogKeys, TRUE)
BY DEF BannerSaves, CategorySaves, StoreSaves, ListingSaves, ProductSaves

\* Every save is one of these.
LEMMA SavesAre ==
    ASSUME NEW name \in SaveNames
    PROVE \/ name = "updateDeliverySettings"
             /\ SaveOf[name] = Save("delivery", {"deliverySettings", "publicSettings"}, FALSE)
          \/ name = "updateSupportSettings"
             /\ SaveOf[name] = Save("support", {"publicSettings"}, FALSE)
          \/ name = "updateSchedulingSettings"
             /\ SaveOf[name] = Save("scheduling", {"schedulingSettings", "publicSettings"}, FALSE)
          \/ name = "saveBanner" /\ SaveOf[name] = Save("banners", {"bannersActive"}, FALSE)
          \/ name = "updateBanner" /\ SaveOf[name] = Save("banners", {}, FALSE)
          \/ name = "saveCategory" /\ SaveOf[name] = Save("categories", CatalogKeys, TRUE)
          \/ name = "saveStore" /\ SaveOf[name] = Save("stores", MarketKeys, FALSE)
          \/ name = "saveListing" /\ SaveOf[name] = Save("listings", MarketKeys, FALSE)
          \/ name = "saveProduct" /\ SaveOf[name] = Save("products", CatalogKeys, TRUE)
          \/ name = "editProduct" /\ SaveOf[name] = Save("products", CatalogKeys, TRUE)
<1>1. CASE name \in DOMAIN SettingsSaves
    <2>1. SaveOf[name] = SettingsSaves[name]
        BY <1>1, SettingsSavesAre, OtherSavesAre DEF SaveOf
    <2> QED BY <1>1, <2>1, SettingsSavesAre
<1>2. CASE name \in DOMAIN BannerSaves
    <2>1. SaveOf[name] = BannerSaves[name]
        BY <1>2, SettingsSavesAre, OtherSavesAre DEF SaveOf
    <2> QED BY <1>2, <2>1, OtherSavesAre
<1>3. CASE name \in DOMAIN CategorySaves
    <2>1. SaveOf[name] = CategorySaves[name]
        BY <1>3, SettingsSavesAre, OtherSavesAre DEF SaveOf
    <2> QED BY <1>3, <2>1, OtherSavesAre
<1>4. CASE name \in DOMAIN StoreSaves
    <2>1. SaveOf[name] = StoreSaves[name]
        BY <1>4, SettingsSavesAre, OtherSavesAre DEF SaveOf
    <2> QED BY <1>4, <2>1, OtherSavesAre
<1>5. CASE name \in DOMAIN ListingSaves
    <2>1. SaveOf[name] = ListingSaves[name]
        BY <1>5, SettingsSavesAre, OtherSavesAre DEF SaveOf
    <2> QED BY <1>5, <2>1, OtherSavesAre
<1>6. CASE name \in DOMAIN ProductSaves
    <2>1. SaveOf[name] = ProductSaves[name]
        BY <1>6, SettingsSavesAre, OtherSavesAre DEF SaveOf
    <2> QED BY <1>6, <2>1, OtherSavesAre
<1> QED BY <1>1, <1>2, <1>3, <1>4, <1>5, <1>6 DEF SaveNames

\* A save the code claims to follow deletes every key that reads its source itself:
\* the one fact about the tables of the code that the theorem turns on.
LEMMA Deletes ==
    ASSUME NEW name \in SaveNames \ Unclaimed, NEW k \in Keys \ {"marketplacePopular"},
           SaveOf[name].of \in Own(k)
    PROVE k \in SaveOf[name].keys
BY KeysAre, OwnIs, SavesAre DEF Save, CatalogKeys, MarketKeys, Unclaimed

\* A save writes a source and deletes keys.
LEMMA SaveTypes ==
    ASSUME NEW name \in SaveNames
    PROVE SaveOf[name].of \in Sources /\ SaveOf[name].keys \subseteq Keys
BY KeysAre, SavesAre DEF Save, CatalogKeys, MarketKeys, Sources
-----------------------------------------------------------------------------
(* The inductive invariant. *)

Entries(k) == {Absent} \cup
    IF k \in pages
    THEN [held : {TRUE}, seen : [Reads(k) -> 0 .. MaxSaves], overtaken : BOOLEAN] ELSE {}
Fillings(k) == [step : {"asking"}, key : {k}, todo : SUBSET Parts(k),
                seen : [Reads(k) -> 0 .. MaxSaves], overtaken : BOOLEAN]
Lookups == [step : {"keyed"}, key : {"none"}, under : Versions]
                \cup [step : {"promoting"}, key : {"none"}, under : Versions, seen : 0 .. MaxSaves]
SaveStates == [step : {"idle", "bump", "bumping", "clear"}, open : BOOLEAN,
               left : SUBSET (pages \cap Keys), of : Sources \cup {"none"}, base : 0 .. MaxSaves]

CacheTyped ==
    /\ cacheManner \in CacheManners /\ pages \in PageGroups
    /\ savedTimes \in [Sources -> 0 .. MaxSaves] /\ loud \in [Sources -> 0 .. MaxSaves]
    /\ version \in 0 .. MaxSaves /\ bumped \in 0 .. MaxSaves /\ spent \in 0 .. MaxSaves
    /\ entry = [k \in Keys |-> entry[k]] /\ \A k \in Keys : entry[k] \in Entries(k)
    /\ promoted \in [Versions -> {Absent} \cup [held : {TRUE}, seen : 0 .. MaxSaves]]
    /\ visit = [r \in Visitors |-> visit[r]]
    /\ \A r \in Visitors : \/ visit[r] \in {NoVisit} \cup Lookups
                           \/ \E k \in pages \cap Keys : visit[r] \in Fillings(k)
    /\ save \in [Editors -> SaveStates]

\* The saves of an open transaction, and those whose bump is still to come.
OpenSaves == {w \in Editors : save[w].open}
BumpSaves == {w \in Editors : save[w].step \in {"bump", "bumping"}}

\* Every commit and every bump is paid for by a save that was started.
CacheCounted ==
    /\ \A w \in OpenSaves : save[w].of = "products"
    /\ \A s \in Sources : savedTimes[s] <= spent
    /\ savedTimes["products"] + Cardinality(OpenSaves) <= spent
    /\ version + Cardinality(BumpSaves) <= spent
    /\ \A w \in Editors : save[w].step = "bumping" =>
                                save[w].base + Cardinality(BumpSaves) <= spent
    /\ \A s \in Sources : loud[s] <= savedTimes[s]
    /\ bumped <= loud["products"]

\* What is on its way into the cache is as fresh as what is there.
FillsAreFresh ==
    \A r \in Visitors, k \in Keys \ {"marketplacePopular"} :
        visit[r].step = "asking" /\ visit[r].key = k /\ ~visit[r].overtaken =>
            \A s \in Own(k) : visit[r].seen[s] >= loud[s] \/ StillToClear(k, s)

\* While saves come one at a time, a version that was bumped is a new one.
BumpsInTurn ==
    cacheManner = "serial" =>
        /\ \A u, w \in Editors : save[u] # NoSave /\ save[w] # NoSave => u = w
        /\ \A w \in Editors : save[w].step = "bumping" => save[w].base = version
        /\ \A v \in Versions : promoted[v].held =>
                v <= version /\ (v = version => promoted[v].seen >= bumped)
        /\ \A r \in Visitors : visit[r].step \in {"keyed", "promoting"} =>
                visit[r].under <= version
        /\ \A r \in Visitors : visit[r].step = "promoting" =>
                (visit[r].under = version => visit[r].seen >= bumped)

CacheInv == CacheTyped /\ CacheCounted /\ PeaceIsFresh /\ FillsAreFresh /\ BumpsInTurn

\* An entry that is held is of a page, with a count for each source the page reads.
LEMMA HeldIs ==
    ASSUME CacheTyped, NEW k \in Keys, entry[k].held
    PROVE /\ k \in pages
          /\ entry[k] \in [held : {TRUE}, seen : [Reads(k) -> 0 .. MaxSaves], overtaken : BOOLEAN]
          /\ entry[k].seen \in [Reads(k) -> 0 .. MaxSaves]
<1>1. entry[k] \in Entries(k)
    BY DEF CacheTyped
<1>2. CASE entry[k] = Absent
    BY <1>2 DEF Absent
<1>3. CASE k \in pages
        /\ entry[k] \in [held : {TRUE}, seen : [Reads(k) -> 0 .. MaxSaves], overtaken : BOOLEAN]
    BY <1>3
<1> QED BY <1>1, <1>2, <1>3 DEF Entries

\* The inductive invariant is enough for what the runs check.
LEMMA CacheInvSuffices == CacheInv => CacheSound
<1> SUFFICES ASSUME CacheInv PROVE CacheSound OBVIOUS
<1> USE CatalogAssumption DEF CacheInv
<1>1. CacheTypeOK
    <2>1. ASSUME NEW k \in Keys, entry[k].held PROVE entry[k].seen \in [Reads(k) -> 0 .. MaxSaves]
        BY <2>1, HeldIs
    <2>2. ASSUME NEW v \in Versions, promoted[v].held PROVE promoted[v].seen \in 0 .. MaxSaves
        <3>1. promoted[v] \in {Absent} \cup [held : {TRUE}, seen : 0 .. MaxSaves]
            BY DEF CacheTyped
        <3>2. CASE promoted[v] = Absent
            BY <2>2, <3>2 DEF Absent
        <3>3. CASE promoted[v] \in [held : {TRUE}, seen : 0 .. MaxSaves]
            BY <3>3
        <3> QED BY <3>1, <3>2, <3>3
    <2>3. ASSUME NEW r \in Visitors
          PROVE visit[r].step \in {"idle", "asking", "keyed", "promoting"}
        BY DEF CacheTyped, NoVisit, Lookups, Fillings
    <2>4. ASSUME NEW w \in Editors
          PROVE save[w].step \in {"idle", "bump", "bumping", "clear"} /\ save[w].left \subseteq pages
        BY DEF CacheTyped, SaveStates
    <2> QED BY <2>1, <2>2, <2>3, <2>4 DEF CacheTypeOK, CacheTyped, Versions
<1>2. PromotionsFollow
    BY DEF PromotionsFollow, BumpsInTurn, CacheTyped, Versions
<1> QED BY <1>1, <1>2 DEF CacheSound

\* An empty cache with nobody on the way satisfies the invariant.
LEMMA CacheInvInit == CacheInit => CacheInv
<1> SUFFICES ASSUME CacheInit PROVE CacheInv OBVIOUS
<1> USE CatalogAssumption DEF CacheInit
<1>1. CacheTyped
    BY DEF CacheTyped, Entries, NoVisit, NoSave, SaveStates, Versions, Absent
<1>2. \A w \in Editors : save[w].step = "idle" /\ ~save[w].open
    BY DEF NoSave
<1>3. CacheCounted
    <2>1. OpenSaves = {}
        BY <1>2 DEF OpenSaves
    <2>2. BumpSaves = {}
        BY <1>2 DEF BumpSaves
    <2>3. Cardinality(OpenSaves) = 0 /\ Cardinality(BumpSaves) = 0
        BY <2>1, <2>2, FS_EmptySet
    <2>4. \A s \in Sources : savedTimes[s] = 0 /\ loud[s] = 0
        OBVIOUS
    <2>5. "products" \in Sources
        BY DEF Sources
    <2> HIDE DEF CacheInit
    <2>6. version = 0 /\ bumped = 0 /\ spent = 0
        BY DEF CacheInit
    <2> QED BY <1>2, <2>1, <2>3, <2>4, <2>5, <2>6 DEF CacheCounted
<1>4. PeaceIsFresh
    BY DEF PeaceIsFresh, Absent
<1>5. FillsAreFresh
    BY DEF FillsAreFresh, NoVisit
<1>6. BumpsInTurn
    BY DEF BumpsInTurn, NoSave, NoVisit, Absent
<1> QED BY <1>1, <1>3, <1>4, <1>5, <1>6 DEF CacheInv
-----------------------------------------------------------------------------
(* What a step that leaves some of the variables alone keeps. *)

\* ... the counts,
LEMMA CountsUntouched ==
    ASSUME CacheCounted, UNCHANGED <<savedTimes, version, save, spent, loud, bumped>>
    PROVE CacheCounted'
<1>1. OpenSaves' = OpenSaves /\ BumpSaves' = BumpSaves
    BY DEF OpenSaves, BumpSaves
<1> QED BY <1>1 DEF CacheCounted

\* ... the freshness of what is held,
LEMMA PeaceUntouched ==
    ASSUME PeaceIsFresh, UNCHANGED <<entry, loud, save>>
    PROVE PeaceIsFresh'
BY DEF PeaceIsFresh, StillToClear

\* ... the freshness of what is on its way,
LEMMA FillsUntouched ==
    ASSUME FillsAreFresh, UNCHANGED <<visit, loud, save>>
    PROVE FillsAreFresh'
BY DEF FillsAreFresh, StillToClear

\* ... and the order of the bumps.
LEMMA BumpsUntouched ==
    ASSUME BumpsInTurn, UNCHANGED <<chosen, version, promoted, visit, save, bumped>>
    PROVE BumpsInTurn'
BY DEF BumpsInTurn, chosen

\* A request that takes a step and leaves the rest alone.
LEMMA VisitTyped ==
    ASSUME CacheTyped, NEW r \in Visitors, NEW x,
           visit' = [visit EXCEPT ![r] = x],
           x \in {NoVisit} \cup Lookups \/ \E k \in pages \cap Keys : x \in Fillings(k),
           UNCHANGED <<chosen, savedTimes, version, save, spent, loud, bumped>>,
           entry' = [k \in Keys |-> entry'[k]], \A k \in Keys : entry'[k] \in Entries(k),
           promoted' \in [Versions -> {Absent} \cup [held : {TRUE}, seen : 0 .. MaxSaves]]
    PROVE CacheTyped'
<1>1. visit' = [u \in Visitors |-> visit'[u]]
    BY DEF CacheTyped
<1>2. ASSUME NEW u \in Visitors
      PROVE \/ visit'[u] \in {NoVisit} \cup Lookups
            \/ \E k \in pages' \cap Keys : visit'[u] \in Fillings(k)'
    <2>1. visit'[u] = IF u = r THEN x ELSE visit[u]
        BY DEF CacheTyped
    <2>2. pages' = pages
        BY DEF chosen
    <2>3. \A k \in Keys : Fillings(k)' = Fillings(k)
        BY DEF Fillings
    <2> QED BY <2>1, <2>2, <2>3 DEF CacheTyped
<1>3. \A k \in Keys : Entries(k)' = Entries(k)
    BY DEF Entries, chosen
<1>4. SaveStates' = SaveStates
    BY DEF SaveStates, chosen
<1> QED BY <1>1, <1>2, <1>3, <1>4 DEF CacheTyped, chosen

\* What a typed request that is filling a key looks like.
LEMMA AskingIs ==
    ASSUME CacheTyped, NEW r \in Visitors, visit[r].step = "asking"
    PROVE /\ visit[r].key \in pages \cap Keys
          /\ visit[r] \in Fillings(visit[r].key)
BY DEF CacheTyped, Lookups, NoVisit, Fillings

\* What a typed request for the promotions looks like.
LEMMA LookingIs ==
    ASSUME CacheTyped, NEW r \in Visitors, visit[r].step \in {"keyed", "promoting"}
    PROVE visit[r] \in Lookups
BY DEF CacheTyped, NoVisit, Fillings

\* The parts of a page that is looked at are looked at too.
LEMMA PartsAreLooked ==
    ASSUME CacheTyped, NEW k \in pages \cap Keys
    PROVE Parts(k) \subseteq pages \cap Keys
BY CatalogAssumption, PartFacts DEF CacheTyped

-----------------------------------------------------------------------------
(* A page request keeps the invariant. *)

\* A page that was not held is asked for, and reads its sources.
LEMMA AskKeeps ==
    ASSUME CacheInv, NEW r \in Visitors, NEW k \in Keys, Ask(r, k)
    PROVE CacheInv'
<1> USE DEF CacheInv, Ask
<1> DEFINE x == Filling(k, Parts(k), [s \in Reads(k) |-> savedTimes[s]], FALSE)
<1>1. \A s \in Reads(k) : savedTimes[s] \in 0 .. MaxSaves
    BY ReadsKnown DEF CacheTyped
<1>2. x \in Fillings(k)
    BY <1>1 DEF Filling, Fillings
<1>3. visit' = [visit EXCEPT ![r] = x]
    OBVIOUS
<1>4. CacheTyped'
    <2> HIDE DEF x
    <2>1. entry' = [j \in Keys |-> entry'[j]] /\ \A j \in Keys : entry'[j] \in Entries(j)
        BY DEF CacheTyped
    <2>2. promoted' \in [Versions -> {Absent} \cup [held : {TRUE}, seen : 0 .. MaxSaves]]
        BY DEF CacheTyped
    <2> QED BY <1>2, <1>3, <2>1, <2>2, VisitTyped
<1>5. FillsAreFresh'
    <2> SUFFICES ASSUME NEW u \in Visitors, NEW i \in Keys \ {"marketplacePopular"},
                        visit'[u].step = "asking", visit'[u].key = i, ~visit'[u].overtaken,
                        NEW s \in Own(i)
                 PROVE visit'[u].seen[s] >= loud'[s] \/ StillToClear(i, s)'
        BY DEF FillsAreFresh
    <2>1. CASE u = r
        <3>1. visit'[u] = x
            BY <2>1 DEF CacheTyped
        <3>2. i = k /\ visit'[u].seen = [t \in Reads(k) |-> savedTimes[t]]
            BY <3>1 DEF Filling
        <3>3. s \in Reads(k)
            BY <3>2, OwnFacts
        <3>4. s \in Sources
            BY <3>3, ReadsKnown
        <3>5. visit'[u].seen[s] = savedTimes[s] /\ loud'[s] = loud[s]
            BY <3>2, <3>3
        <3> QED BY <3>4, <3>5 DEF CacheCounted, CacheTyped
    <2>2. CASE u # r
        <3>1. visit'[u] = visit[u]
            BY <2>2 DEF CacheTyped
        <3>2. visit[u].step = "asking" /\ visit[u].key = i /\ ~visit[u].overtaken
            BY <3>1
        <3>3. visit[u].seen[s] >= loud[s] \/ StillToClear(i, s)
            BY <3>2 DEF FillsAreFresh
        <3> QED BY <3>1, <3>3 DEF StillToClear
    <2> QED BY <2>1, <2>2
<1>6. BumpsInTurn'
    <2>1. \A u \in Visitors : visit'[u] = IF u = r THEN x ELSE visit[u]
        BY DEF CacheTyped
    <2>2. x.step = "asking"
        BY DEF Filling
    <2> QED BY <2>1, <2>2 DEF BumpsInTurn, chosen
<1> QED BY <1>4, <1>5, <1>6, CountsUntouched, PeaceUntouched

\* What the state of a request that fills a page is made of.
LEMMA FillingTyped ==
    ASSUME NEW k \in Keys, NEW todo \in SUBSET Parts(k),
           NEW seen \in [Reads(k) -> 0 .. MaxSaves], NEW o \in BOOLEAN
    PROVE LET x == Filling(k, todo, seen, o)
          IN /\ x \in Fillings(k) /\ x.key = k /\ x.step = "asking" /\ x.seen = seen
             /\ (x.overtaken <=> o)
BY DEF Filling, Fillings

\* What the page knows after a part: its own sources are as it read them.
LEMMA MergeFacts ==
    ASSUME NEW k \in Keys, NEW j \in Parts(k),
           NEW seen \in [Reads(k) -> 0 .. MaxSaves], NEW got \in [Reads(j) -> 0 .. MaxSaves]
    PROVE /\ Merge(k, seen, j, got) \in [Reads(k) -> 0 .. MaxSaves]
          /\ \A s \in Own(k) : Merge(k, seen, j, got)[s] = seen[s]
<1>1. Feeds[j] \subseteq Reads(j)
    BY DEF Reads
<1>2. ASSUME NEW s \in Reads(k)
      PROVE Merge(k, seen, j, got)[s] \in 0 .. MaxSaves
    BY <1>1, <1>2 DEF Merge
<1> QED BY <1>2, OwnFacts DEF Merge

\* A part is taken from the cache or read, and its age becomes the age of the page.
LEMMA AskPartKeeps ==
    ASSUME CacheInv, NEW r \in Visitors, NEW j \in Keys, AskPart(r, j)
    PROVE CacheInv'
<1> USE DEF CacheInv
<1> DEFINE read == Entry([s \in Reads(j) |-> savedTimes[s]], FALSE)
           got == IF entry[j].held THEN entry[j] ELSE read
           v == visit[r]
           k == v.key
           x == Filling(k, v.todo \ {j}, Merge(k, v.seen, j, got.seen),
                        v.overtaken \/ got.overtaken)
<1>1. k \in pages \cap Keys /\ v \in Fillings(k) /\ j \in v.todo
    BY AskingIs DEF AskPart
<1>2. j \in Parts(k) /\ v.seen \in [Reads(k) -> 0 .. MaxSaves] /\ j \in pages
      /\ v.todo \subseteq Parts(k) /\ v.step = "asking"
    BY <1>1, PartsAreLooked DEF Fillings
<1>3. read \in [held : {TRUE}, seen : [Reads(j) -> 0 .. MaxSaves], overtaken : BOOLEAN]
    <2>1. \A s \in Reads(j) : savedTimes[s] \in 0 .. MaxSaves
        BY ReadsKnown DEF CacheTyped
    <2> QED BY <2>1 DEF Entry
<1>4. got \in [held : {TRUE}, seen : [Reads(j) -> 0 .. MaxSaves], overtaken : BOOLEAN]
    <2>1. CASE entry[j].held
        BY <2>1, HeldIs
    <2> QED BY <1>3, <2>1
<1>5. entry' = [entry EXCEPT ![j] = got] /\ visit' = [visit EXCEPT ![r] = x]
      /\ UNCHANGED <<chosen, savedTimes, version, promoted, save, spent, loud, bumped>>
    BY DEF AskPart
<1>6. /\ x \in Fillings(k) /\ x.key = k /\ x.step = "asking"
      /\ ~x.overtaken => ~v.overtaken
      /\ \A s \in Own(k) : x.seen[s] = v.seen[s]
    <2>1. v.overtaken \in BOOLEAN /\ got.overtaken \in BOOLEAN
          /\ got.seen \in [Reads(j) -> 0 .. MaxSaves]
        BY <1>1, <1>4 DEF Fillings
    <2> DEFINE m == Merge(k, v.seen, j, got.seen)
    <2>2. m \in [Reads(k) -> 0 .. MaxSaves] /\ \A s \in Own(k) : m[s] = v.seen[s]
        BY <1>1, <1>2, <2>1, MergeFacts
    <2>3. v.todo \ {j} \in SUBSET Parts(k)
        BY <1>2
    <2> DEFINE o == v.overtaken \/ got.overtaken
           todo == v.todo \ {j}
    <2>4. o \in BOOLEAN /\ (~o => ~v.overtaken) /\ todo \in SUBSET Parts(k) /\ k \in Keys
        BY <1>1, <2>3
    <2>5. x = Filling(k, todo, m, o)
        OBVIOUS
    <2> HIDE DEF m, o, todo, x, k
    <2>6. /\ x \in Fillings(k) /\ x.key = k /\ x.step = "asking" /\ x.seen = m
          /\ (x.overtaken <=> o)
        BY <2>2, <2>4, <2>5, FillingTyped
    <2> QED BY <2>2, <2>4, <2>6
<1>7. CacheTyped'
    <2> HIDE DEF x, got
    <2>1. entry' = [i \in Keys |-> entry'[i]] /\ \A i \in Keys : entry'[i] \in Entries(i)
        <3>1. got \in Entries(j)
            BY <1>2, <1>4 DEF Entries
        <3> QED BY <1>5, <3>1 DEF CacheTyped
    <2>2. promoted' \in [Versions -> {Absent} \cup [held : {TRUE}, seen : 0 .. MaxSaves]]
        BY <1>5 DEF CacheTyped
    <2> QED BY <1>1, <1>5, <1>6, <2>1, <2>2, VisitTyped
<1>8. CacheCounted'
    BY <1>5, CountsUntouched
<1>9. PeaceIsFresh'
    <2> SUFFICES ASSUME NEW i \in Keys \ {"marketplacePopular"}, entry'[i].held,
                        ~entry'[i].overtaken, NEW s \in Own(i)
                 PROVE entry'[i].seen[s] >= loud'[s] \/ StillToClear(i, s)'
        BY DEF PeaceIsFresh
    <2>1. entry'[i] = IF i = j THEN got ELSE entry[i]
        BY <1>5 DEF CacheTyped
    <2>2. CASE entry'[i] = entry[i]
        BY <1>5, <2>2 DEF PeaceIsFresh, StillToClear
    <2>3. CASE entry'[i] = read /\ i = j
        <3>1. s \in Reads(i) /\ s \in Sources
            BY OwnFacts, ReadsKnown
        <3>2. entry'[i].seen[s] = savedTimes[s] /\ loud'[s] = loud[s]
            BY <1>5, <2>3, <3>1 DEF Entry
        <3> QED BY <3>1, <3>2 DEF CacheCounted, CacheTyped
    <2> QED BY <2>1, <2>2, <2>3
<1>10. FillsAreFresh'
    <2> HIDE DEF x, got
    <2> SUFFICES ASSUME NEW u \in Visitors, NEW i \in Keys \ {"marketplacePopular"},
                        visit'[u].step = "asking", visit'[u].key = i, ~visit'[u].overtaken,
                        NEW s \in Own(i)
                 PROVE visit'[u].seen[s] >= loud'[s] \/ StillToClear(i, s)'
        BY DEF FillsAreFresh
    <2>1. visit'[u] = IF u = r THEN x ELSE visit[u]
        BY <1>5 DEF CacheTyped
    <2>2. ~visit[u].overtaken /\ visit[u].step = "asking" /\ visit[u].key = i
          /\ visit'[u].seen[s] = visit[u].seen[s]
        BY <1>2, <1>6, <2>1
    <2> QED BY <1>5, <2>2 DEF FillsAreFresh, StillToClear
<1>11. BumpsInTurn'
    <2> HIDE DEF x, got
    <2>1. \A u \in Visitors : visit'[u] = IF u = r THEN x ELSE visit[u]
        BY <1>5 DEF CacheTyped
    <2> QED BY <1>5, <1>6, <2>1 DEF BumpsInTurn, chosen
<1> QED BY <1>7, <1>8, <1>9, <1>10, <1>11

\* The answer goes into the cache.
LEMMA FillKeeps ==
    ASSUME CacheInv, NEW r \in Visitors, Fill(r)
    PROVE CacheInv'
<1> USE DEF CacheInv
<1> DEFINE k == visit[r].key
           x == Entry(visit[r].seen, visit[r].overtaken)
<1>1. k \in pages \cap Keys /\ visit[r] \in Fillings(k) /\ visit[r].step = "asking"
    BY AskingIs DEF Fill
<1>2. entry' = [entry EXCEPT ![k] = x] /\ visit' = [visit EXCEPT ![r] = NoVisit]
      /\ UNCHANGED <<chosen, savedTimes, version, promoted, save, spent, loud, bumped>>
    BY DEF Fill
<1>3. x \in Entries(k) /\ x.seen = visit[r].seen /\ x.overtaken = visit[r].overtaken
    BY <1>1 DEF Entry, Entries, Fillings
<1>4. \A u \in Visitors : visit'[u] = IF u = r THEN NoVisit ELSE visit[u]
    BY <1>2 DEF CacheTyped
<1>5. \A i \in Keys : entry'[i] = IF i = k THEN x ELSE entry[i]
    BY <1>2 DEF CacheTyped
<1> HIDE DEF x
<1>6. CacheTyped'
    <2>1. entry' = [i \in Keys |-> entry'[i]] /\ \A i \in Keys : entry'[i] \in Entries(i)
        BY <1>2, <1>3, <1>5 DEF CacheTyped
    <2>2. promoted' \in [Versions -> {Absent} \cup [held : {TRUE}, seen : 0 .. MaxSaves]]
        BY <1>2 DEF CacheTyped
    <2> QED BY <1>2, <2>1, <2>2, VisitTyped
<1>7. PeaceIsFresh'
    BY <1>1, <1>2, <1>3, <1>5 DEF PeaceIsFresh, FillsAreFresh, StillToClear
<1>8. FillsAreFresh'
    BY <1>2, <1>4 DEF FillsAreFresh, StillToClear, NoVisit
<1>9. BumpsInTurn'
    BY <1>2, <1>4 DEF BumpsInTurn, chosen, NoVisit
<1> QED BY <1>2, <1>6, <1>7, <1>8, <1>9, CountsUntouched

\* The lookups of the promotions.
LEMMA LookupsLeaveFills ==
    ASSUME CacheTyped, FillsAreFresh, NEW r \in Visitors, NEW x, x.step # "asking",
           visit' = [visit EXCEPT ![r] = x], UNCHANGED <<loud, save>>
    PROVE FillsAreFresh'
<1>1. \A u \in Visitors : visit'[u] = IF u = r THEN x ELSE visit[u]
    BY DEF CacheTyped
<1> QED BY <1>1 DEF FillsAreFresh, StillToClear

\* A request for the promotions that takes a step keeps the types.
LEMMA LooksTyped ==
    ASSUME CacheTyped, NEW r \in Visitors, NEW x \in {NoVisit} \cup Lookups,
           visit' = [visit EXCEPT ![r] = x],
           UNCHANGED <<chosen, savedTimes, entry, version, promoted, save, spent, loud, bumped>>
    PROVE CacheTyped'
<1>1. entry' = [i \in Keys |-> entry'[i]] /\ \A i \in Keys : entry'[i] \in Entries(i)
    BY DEF CacheTyped
<1>2. promoted' \in [Versions -> {Absent} \cup [held : {TRUE}, seen : 0 .. MaxSaves]]
    BY DEF CacheTyped
<1> QED BY <1>1, <1>2, VisitTyped

\* The version is one of the bounded versions, and so is the next.
LEMMA VersionTyped ==
    ASSUME CacheTyped
    PROVE version \in Versions /\ version + 1 \in Versions
BY CatalogAssumption DEF CacheTyped, Versions

\* The version is read before the promotions are looked up under it.
LEMMA ReadVersionKeeps ==
    ASSUME CacheInv, NEW r \in Visitors, ReadVersion(r)
    PROVE CacheInv'
<1> USE DEF CacheInv
<1> DEFINE x == [step |-> "keyed", key |-> "none", under |-> version]
<1>1. visit' = [visit EXCEPT ![r] = x]
      /\ UNCHANGED <<chosen, savedTimes, entry, version, promoted, save, spent, loud, bumped>>
    BY DEF ReadVersion
<1>2. x \in Lookups /\ x.step = "keyed" /\ x.under = version
    BY VersionTyped DEF Lookups
<1>3. \A u \in Visitors : visit'[u] = IF u = r THEN x ELSE visit[u]
    BY <1>1 DEF CacheTyped
<1>4. BumpsInTurn'
    BY <1>1, <1>2, <1>3, VersionTyped DEF BumpsInTurn, chosen, Versions
<1> HIDE DEF x
<1>5. x.step # "asking"
    BY <1>2
<1>6. CacheTyped' /\ FillsAreFresh'
    BY <1>1, <1>2, <1>5, LooksTyped, LookupsLeaveFills
<1> QED BY <1>1, <1>4, <1>6, CountsUntouched, PeaceUntouched

\* The promotions are held under that version, or read.
LEMMA AskPromotionsKeeps ==
    ASSUME CacheInv, NEW r \in Visitors, AskPromotions(r)
    PROVE CacheInv'
<1> USE DEF CacheInv
<1> DEFINE y == [step |-> "promoting", key |-> "none", under |-> visit[r].under,
                 seen |-> savedTimes["products"]]
           x == IF promoted[visit[r].under].held THEN NoVisit ELSE y
<1>1. visit' = [visit EXCEPT ![r] = x]
      /\ UNCHANGED <<chosen, savedTimes, entry, version, promoted, save, spent, loud, bumped>>
    BY DEF AskPromotions
<1>2. visit[r].step = "keyed" /\ visit[r] \in Lookups /\ visit[r].under \in Versions
    BY LookingIs DEF AskPromotions, Lookups
<1>3. savedTimes["products"] \in 0 .. MaxSaves /\ bumped <= savedTimes["products"]
      /\ savedTimes["products"] \in Nat /\ bumped \in Nat
    BY DEF CacheCounted, CacheTyped, Sources
<1>4. y \in Lookups
    BY <1>2, <1>3 DEF Lookups
<1>5. x \in {NoVisit} \cup Lookups /\ x.step # "asking" /\ x.step # "keyed"
      /\ (x.step = "promoting" => x.under = visit[r].under /\ x.seen >= bumped)
    BY <1>3, <1>4 DEF NoVisit
<1> HIDE DEF x
<1>6. CacheTyped' /\ FillsAreFresh'
    BY <1>1, <1>5, LooksTyped, LookupsLeaveFills
<1>7. \A u \in Visitors : visit'[u] = IF u = r THEN x ELSE visit[u]
    BY <1>1 DEF CacheTyped
<1>8. BumpsInTurn'
    BY <1>1, <1>2, <1>5, <1>7 DEF BumpsInTurn, chosen
<1> QED BY <1>1, <1>6, <1>8, CountsUntouched, PeaceUntouched

\* The promotions go into the cache under the version that was read.
LEMMA FillPromotionsKeeps ==
    ASSUME CacheInv, NEW r \in Visitors, FillPromotions(r)
    PROVE CacheInv'
<1> USE DEF CacheInv
<1> DEFINE n == visit[r].under
           x == [held |-> TRUE, seen |-> visit[r].seen]
<1>1. visit' = [visit EXCEPT ![r] = NoVisit] /\ promoted' = [promoted EXCEPT ![n] = x]
      /\ UNCHANGED <<chosen, savedTimes, entry, version, save, spent, loud, bumped>>
    BY DEF FillPromotions
<1>2. visit[r].step = "promoting" /\ n \in Versions /\ visit[r].seen \in 0 .. MaxSaves
    BY LookingIs DEF FillPromotions, Lookups
<1>3. x \in [held : {TRUE}, seen : 0 .. MaxSaves] /\ x.held /\ x.seen = visit[r].seen
    BY <1>2
<1>4. \A m \in Versions : promoted'[m] = IF m = n THEN x ELSE promoted[m]
    BY <1>1 DEF CacheTyped
<1>5. \A u \in Visitors : visit'[u] = IF u = r THEN NoVisit ELSE visit[u]
    BY <1>1 DEF CacheTyped
<1> HIDE DEF x
<1>6. CacheTyped'
    <2>1. entry' = [i \in Keys |-> entry'[i]] /\ \A i \in Keys : entry'[i] \in Entries(i)
        BY <1>1 DEF CacheTyped
    <2>2. promoted' \in [Versions -> {Absent} \cup [held : {TRUE}, seen : 0 .. MaxSaves]]
        BY <1>1, <1>2, <1>3 DEF CacheTyped
    <2> QED BY <1>1, <2>1, <2>2, VisitTyped
<1>7. FillsAreFresh'
    BY <1>1, LookupsLeaveFills DEF NoVisit
<1>8. BumpsInTurn'
    BY <1>1, <1>2, <1>3, <1>4, <1>5 DEF BumpsInTurn, chosen, NoVisit
<1> QED BY <1>1, <1>6, <1>7, <1>8, CountsUntouched, PeaceUntouched

-----------------------------------------------------------------------------
(* Time keeps the invariant. *)

\* A page runs out of time.
LEMMA ExpireKeeps ==
    ASSUME CacheInv, NEW k \in Keys, Expire(k)
    PROVE CacheInv'
<1> USE DEF CacheInv, Expire
<1>1. \A i \in Keys : entry'[i] = IF i = k THEN Absent ELSE entry[i]
    BY DEF CacheTyped
<1>2. CacheTyped'
    <2>1. \A i \in Keys : Entries(i)' = Entries(i) /\ Fillings(i)' = Fillings(i)
        BY DEF Entries, Fillings, chosen
    <2>2. SaveStates' = SaveStates
        BY DEF SaveStates, chosen
    <2>3. \A i \in Keys : entry'[i] \in Entries(i)
        BY <1>1 DEF CacheTyped, Entries
    <2>4. entry' = [i \in Keys |-> entry'[i]]
        BY DEF CacheTyped
    <2> QED BY <2>1, <2>2, <2>3, <2>4 DEF CacheTyped, chosen
<1>3. PeaceIsFresh'
    BY <1>1 DEF PeaceIsFresh, StillToClear, Absent
<1> QED BY <1>2, <1>3, CountsUntouched, FillsUntouched, BumpsUntouched

\* The promotions of a version run out of time.
LEMMA ExpirePromotionsKeeps ==
    ASSUME CacheInv, NEW v \in Versions, ExpirePromotions(v)
    PROVE CacheInv'
<1> USE DEF CacheInv, ExpirePromotions
<1>1. \A i \in Versions : promoted'[i] = IF i = v THEN Absent ELSE promoted[i]
    BY DEF CacheTyped
<1>2. CacheTyped'
    <2>1. \A i \in Keys : Entries(i)' = Entries(i) /\ Fillings(i)' = Fillings(i)
        BY DEF Entries, Fillings, chosen
    <2>2. SaveStates' = SaveStates
        BY DEF SaveStates, chosen
    <2>3. promoted' \in [Versions -> {Absent} \cup [held : {TRUE}, seen : 0 .. MaxSaves]]
        BY <1>1 DEF CacheTyped
    <2> QED BY <2>1, <2>2, <2>3 DEF CacheTyped, chosen
<1>3. BumpsInTurn'
    BY <1>1 DEF BumpsInTurn, Absent, chosen
<1> QED BY <1>2, <1>3, CountsUntouched, FillsUntouched, PeaceUntouched

\* The version only goes away where nothing is claimed of the bumps.
LEMMA ExpireVersionKeeps ==
    ASSUME CacheInv, ExpireVersion
    PROVE CacheInv'
<1> USE DEF CacheInv, ExpireVersion
<1>1. CacheTyped'
    <2>1. \A i \in Keys : Entries(i)' = Entries(i) /\ Fillings(i)' = Fillings(i)
        BY DEF Entries, Fillings, chosen
    <2>2. SaveStates' = SaveStates
        BY DEF SaveStates, chosen
    <2>3. version' \in 0 .. MaxSaves
        BY CatalogAssumption
    <2> QED BY <2>1, <2>2, <2>3 DEF CacheTyped, chosen
<1>2. CacheCounted'
    <2>1. OpenSaves' = OpenSaves /\ BumpSaves' = BumpSaves
        BY DEF OpenSaves, BumpSaves
    <2>2. BumpSaves \in SUBSET Editors
        BY DEF BumpSaves
    <2>3. Cardinality(BumpSaves) \in Nat
        BY <2>2, CatalogAssumption, FS_Subset, FS_CardinalityType
    <2> QED BY <2>1, <2>3 DEF CacheCounted, CacheTyped
<1>3. BumpsInTurn'
    BY DEF BumpsInTurn, chosen
<1> QED BY <1>1, <1>2, <1>3, FillsUntouched, PeaceUntouched

-----------------------------------------------------------------------------
(* A save keeps the invariant. *)

\* The saves in an open transaction and those with a bump to come are countable.
LEMMA EditorSets ==
    ASSUME CacheTyped
    PROVE /\ IsFiniteSet(OpenSaves) /\ Cardinality(OpenSaves) \in Nat
          /\ IsFiniteSet(BumpSaves) /\ Cardinality(BumpSaves) \in Nat
<1>1. OpenSaves \in SUBSET Editors /\ BumpSaves \in SUBSET Editors
    BY DEF OpenSaves, BumpSaves
<1> QED BY <1>1, CatalogAssumption, FS_Subset, FS_CardinalityType

\* A save that takes a step to x.
LEMMA SaveStep ==
    ASSUME CacheTyped, NEW w \in Editors, NEW x \in SaveStates,
           save' = [save EXCEPT ![w] = x]
    PROVE /\ \A u \in Editors : save'[u] = IF u = w THEN x ELSE save[u]
          /\ x.open => OpenSaves' = OpenSaves \cup {w}
          /\ ~x.open => OpenSaves' = OpenSaves \ {w}
          /\ x.step \in {"bump", "bumping"} => BumpSaves' = BumpSaves \cup {w}
          /\ x.step \notin {"bump", "bumping"} => BumpSaves' = BumpSaves \ {w}
<1>1. \A u \in Editors : save'[u] = IF u = w THEN x ELSE save[u]
    BY DEF CacheTyped
<1> QED BY <1>1 DEF OpenSaves, BumpSaves

\* A save that stays where it is leaves both sets alone.
LEMMA SaveStepSame ==
    ASSUME CacheTyped, NEW w \in Editors, NEW x \in SaveStates,
           save' = [save EXCEPT ![w] = x]
    PROVE /\ (x.open <=> save[w].open) => OpenSaves' = OpenSaves
          /\ (x.step \in {"bump", "bumping"} <=> save[w].step \in {"bump", "bumping"})
                => BumpSaves' = BumpSaves
<1>1. \A u \in Editors : save'[u] = IF u = w THEN x ELSE save[u]
    BY DEF CacheTyped
<1>2. ASSUME x.open <=> save[w].open PROVE OpenSaves' = OpenSaves
    BY <1>1, <1>2 DEF OpenSaves
<1>3. ASSUME x.step \in {"bump", "bumping"} <=> save[w].step \in {"bump", "bumping"}
      PROVE BumpSaves' = BumpSaves
    BY <1>1, <1>3 DEF BumpSaves
<1> QED BY <1>2, <1>3

\* A save that does not forget a key keeps the promise to delete it.
LEMMA ClearsKept ==
    ASSUME CacheTyped, NEW w \in Editors, NEW x \in SaveStates,
           save' = [save EXCEPT ![w] = x],
           save[w].left = {} \/ (x.of = save[w].of /\ x.left = save[w].left),
           NEW k, NEW s, StillToClear(k, s)
    PROVE StillToClear(k, s)'
<1>1. PICK u \in Editors : save[u].of = s /\ k \in save[u].left
    BY DEF StillToClear
<1>2. save'[u] = IF u = w THEN x ELSE save[u]
    BY SaveStep
<1>3. save'[u].of = s /\ k \in save'[u].left
    BY <1>1, <1>2
<1> QED BY <1>3 DEF StillToClear

\* So a step of a save that deletes nothing keeps the freshness of the pages.
LEMMA FreshKept ==
    ASSUME CacheInv, NEW w \in Editors, NEW x \in SaveStates,
           save' = [save EXCEPT ![w] = x],
           save[w].left = {} \/ (x.of = save[w].of /\ x.left = save[w].left),
           UNCHANGED <<entry, visit, loud>>
    PROVE PeaceIsFresh' /\ FillsAreFresh'
<1>1. \A k, s : StillToClear(k, s) => StillToClear(k, s)'
    BY ClearsKept DEF CacheInv
<1>2. PeaceIsFresh'
    BY <1>1 DEF CacheInv, PeaceIsFresh
<1>3. FillsAreFresh'
    BY <1>1 DEF CacheInv, FillsAreFresh
<1> QED BY <1>2, <1>3

\* A step of a save keeps the types.
LEMMA SaveTyped ==
    ASSUME CacheTyped, NEW w \in Editors, NEW x \in SaveStates,
           save' = [save EXCEPT ![w] = x],
           UNCHANGED <<chosen, entry, promoted, visit>>,
           savedTimes' \in [Sources -> 0 .. MaxSaves], loud' \in [Sources -> 0 .. MaxSaves],
           version' \in 0 .. MaxSaves, bumped' \in 0 .. MaxSaves, spent' \in 0 .. MaxSaves
    PROVE CacheTyped'
<1>1. \A i \in Keys : Entries(i)' = Entries(i) /\ Fillings(i)' = Fillings(i)
    BY DEF Entries, Fillings, chosen
<1>2. SaveStates' = SaveStates
    BY DEF SaveStates, chosen
<1>3. save' \in [Editors -> SaveStates]
    BY DEF CacheTyped
<1> QED BY <1>1, <1>2, <1>3 DEF CacheTyped, chosen

\* A save that may start has an idle number, and in serial behaviours all are idle.
LEMMA MaySaveFacts ==
    ASSUME CacheInv, NEW w \in Editors, NEW name \in Saves, MaySave(w, name)
    PROVE /\ save[w] = NoSave /\ w \notin OpenSaves /\ w \notin BumpSaves
          /\ save[w].left = {} /\ save[w].of = "none"
          /\ spent < MaxSaves /\ spent \in 0 .. MaxSaves /\ spent + 1 \in 0 .. MaxSaves
          /\ name \in SaveNames
          /\ SaveOf[name].of \in Sources /\ SaveOf[name].keys \subseteq Keys
          /\ cacheManner = "serial" => \A u \in Editors : save[u] = NoSave
<1>1. save[w] = NoSave /\ spent < MaxSaves
      /\ (cacheManner = "serial" => \A u \in Editors : save[u] = NoSave)
    BY DEF MaySave
<1>2. spent \in 0 .. MaxSaves /\ spent + 1 \in 0 .. MaxSaves
    BY <1>1, CatalogAssumption DEF CacheInv, CacheTyped
<1>3. name \in SaveNames
    BY CatalogAssumption
<1> QED BY <1>1, <1>2, <1>3, SaveTypes DEF NoSave, OpenSaves, BumpSaves

\* An idle number is a typed save with nothing to do.
LEMMA NoSaveTyped == NoSave \in SaveStates /\ NoSave.step = "idle" /\ ~NoSave.open
    /\ NoSave.left = {} /\ NoSave.of = "none"
<1>1. 0 \in 0 .. MaxSaves
    BY CatalogAssumption
<1> QED BY <1>1 DEF NoSave, SaveStates

\* A save that is to bump or to clear has the keys of the looked-at pages to delete.
LEMMA InvalidatingTyped ==
    ASSUME NEW name \in SaveNames, NEW open \in BOOLEAN, NEW step \in {"bump", "clear"}
    PROVE LET x == Invalidating(name, open, step, 0)
          IN /\ x \in SaveStates /\ x.step = step /\ x.open = open
             /\ x.left = SaveOf[name].keys \cap pages /\ x.of = SaveOf[name].of
<1>1. 0 \in 0 .. MaxSaves
    BY CatalogAssumption
<1> QED BY <1>1, SaveTypes DEF Invalidating, SaveStates

\* An edit of a product starts its transaction.
LEMMA OpenKeeps ==
    ASSUME CacheInv, NEW w \in Editors, "editProduct" \in Saves, Open(w)
    PROVE CacheInv'
<1> DEFINE x == Invalidating("editProduct", TRUE, "bump", 0)
<1>1. MaySave(w, "editProduct") /\ save' = [save EXCEPT ![w] = x] /\ spent' = spent + 1
      /\ cacheManner = "any"
      /\ UNCHANGED <<chosen, savedTimes, entry, version, promoted, visit, loud, bumped>>
    BY DEF Open
<1>2. /\ save[w] = NoSave /\ w \notin OpenSaves /\ w \notin BumpSaves
      /\ save[w].left = {}
      /\ spent < MaxSaves /\ spent \in 0 .. MaxSaves /\ spent + 1 \in 0 .. MaxSaves
      /\ "editProduct" \in SaveNames
    BY <1>1, MaySaveFacts
<1>3. SaveOf["editProduct"].of = "products"
    BY <1>2, SavesAre DEF Save
<1>4. x \in SaveStates /\ x.open /\ x.step = "bump" /\ x.of = "products"
    BY <1>2, <1>3, InvalidatingTyped
<1> HIDE DEF x
<1>5. CacheTyped'
    BY <1>1, <1>2, <1>4, SaveTyped DEF CacheInv, CacheTyped
<1>6. PeaceIsFresh' /\ FillsAreFresh'
    BY <1>1, <1>2, <1>4, FreshKept
<1>7. CacheCounted'
    <2>1. /\ \A u \in Editors : save'[u] = IF u = w THEN x ELSE save[u]
          /\ OpenSaves' = OpenSaves \cup {w} /\ BumpSaves' = BumpSaves \cup {w}
        BY <1>1, <1>4, SaveStep DEF CacheInv
    <2>2. /\ Cardinality(OpenSaves)' = Cardinality(OpenSaves) + 1
          /\ Cardinality(BumpSaves)' = Cardinality(BumpSaves) + 1
          /\ Cardinality(OpenSaves) \in Nat /\ Cardinality(BumpSaves) \in Nat
        BY <1>2, <2>1, EditorSets, FS_AddElement DEF CacheInv
    <2>3. \A u \in OpenSaves' : save'[u].of = "products"
        BY <1>4, <2>1 DEF CacheInv, CacheCounted, OpenSaves
    <2>4. \A u \in Editors : save'[u].step = "bumping" =>
              save'[u].base + Cardinality(BumpSaves)' <= spent'
        <3> SUFFICES ASSUME NEW u \in Editors, save'[u].step = "bumping"
                     PROVE save'[u].base + Cardinality(BumpSaves)' <= spent'
            OBVIOUS
        <3>1. save'[u] = save[u] /\ save[u].base \in 0 .. MaxSaves
            BY <1>4, <2>1 DEF CacheInv, CacheTyped, SaveStates
        <3>2. save[u].base + Cardinality(BumpSaves) <= spent
            BY <3>1 DEF CacheInv, CacheCounted
        <3> QED BY <1>1, <1>2, <2>2, <3>1, <3>2
    <2>5. "products" \in Sources
        BY DEF Sources
    <2> QED BY <1>1, <1>2, <2>2, <2>3, <2>4, <2>5 DEF CacheInv, CacheCounted, CacheTyped
<1>8. BumpsInTurn'
    BY <1>1 DEF BumpsInTurn, chosen
<1> QED BY <1>5, <1>6, <1>7, <1>8 DEF CacheInv

\* A save writes its row: the pages that read it are stale until the key is deleted.
LEMMA SaveRowKeeps ==
    ASSUME CacheInv, NEW w \in Editors, NEW name \in Saves, SaveRow(w, name)
    PROVE CacheInv'
<1> DEFINE s == SaveOf[name].of
           x == IF SaveOf[name].bumps THEN Invalidating(name, FALSE, "bump", 0)
                ELSE IF SaveOf[name].keys \cap pages = {} THEN NoSave
                ELSE Invalidating(name, FALSE, "clear", 0)
<1>1. /\ MaySave(w, name) /\ savedTimes' = [savedTimes EXCEPT ![s] = @ + 1]
      /\ loud' = IF name \in Unclaimed THEN loud ELSE [loud EXCEPT ![s] = savedTimes'[s]]
      /\ save' = [save EXCEPT ![w] = x] /\ spent' = spent + 1
      /\ UNCHANGED <<chosen, entry, version, promoted, visit, bumped>>
    BY DEF SaveRow
<1>2. /\ save[w] = NoSave /\ w \notin OpenSaves /\ w \notin BumpSaves
      /\ save[w].left = {}
      /\ spent < MaxSaves /\ spent \in 0 .. MaxSaves /\ spent + 1 \in 0 .. MaxSaves
      /\ name \in SaveNames /\ s \in Sources
      /\ cacheManner = "serial" => \A u \in Editors : save[u] = NoSave
    BY <1>1, MaySaveFacts
<1>3. /\ x \in SaveStates /\ ~x.open /\ x.step \in {"idle", "bump", "clear"}
      /\ x.left = SaveOf[name].keys \cap pages /\ (x.of = s \/ x.left = {})
    BY <1>2, InvalidatingTyped, NoSaveTyped
<1> HIDE DEF x
<1>4. \A t \in Sources : savedTimes'[t] = IF t = s THEN savedTimes[t] + 1 ELSE savedTimes[t]
    BY <1>1 DEF CacheInv, CacheTyped
<1>5. \A t \in Sources :
          loud'[t] = IF t = s /\ name \notin Unclaimed THEN savedTimes'[t] ELSE loud[t]
    BY <1>1 DEF CacheInv, CacheTyped
<1>6. /\ \A t \in Sources : /\ savedTimes[t] \in Nat /\ savedTimes[t] <= spent
                            /\ loud[t] \in Nat /\ loud[t] <= savedTimes[t]
      /\ spent \in Nat /\ MaxSaves \in Nat
    BY CatalogAssumption DEF CacheInv, CacheTyped, CacheCounted
<1>7. \A t \in Sources : /\ savedTimes'[t] \in 0 .. MaxSaves /\ loud'[t] \in 0 .. MaxSaves
                         /\ savedTimes'[t] <= spent' /\ loud'[t] <= savedTimes'[t]
                         /\ loud[t] <= loud'[t]
    BY <1>1, <1>2, <1>4, <1>5, <1>6
<1>8. CacheTyped'
    <2>1. /\ savedTimes' = [t \in Sources |-> savedTimes'[t]]
          /\ loud' = [t \in Sources |-> loud'[t]]
        BY <1>1 DEF CacheInv, CacheTyped
    <2>2. savedTimes' \in [Sources -> 0 .. MaxSaves] /\ loud' \in [Sources -> 0 .. MaxSaves]
        BY <1>7, <2>1
    <2> QED BY <1>1, <1>2, <1>3, <2>2, SaveTyped DEF CacheInv, CacheTyped
<1>9. /\ \A u \in Editors : save'[u] = IF u = w THEN x ELSE save[u]
      /\ OpenSaves' = OpenSaves
      /\ BumpSaves' = BumpSaves \/ BumpSaves' = BumpSaves \cup {w}
    <2>1. x.open <=> save[w].open
        BY <1>2, <1>3, NoSaveTyped
    <2>2. OpenSaves' = OpenSaves
        BY <1>1, <1>3, <2>1, SaveStepSame DEF CacheInv
    <2>3. /\ \A u \in Editors : save'[u] = IF u = w THEN x ELSE save[u]
          /\ x.step \in {"bump", "bumping"} => BumpSaves' = BumpSaves \cup {w}
          /\ x.step \notin {"bump", "bumping"} => BumpSaves' = BumpSaves \ {w}
        BY <1>1, <1>3, SaveStep DEF CacheInv
    <2> QED BY <1>2, <2>2, <2>3
<1>10. CacheCounted'
    <2>1. /\ Cardinality(BumpSaves)' <= Cardinality(BumpSaves) + 1
          /\ Cardinality(OpenSaves)' = Cardinality(OpenSaves)
          /\ Cardinality(OpenSaves) \in Nat /\ Cardinality(BumpSaves) \in Nat
          /\ Cardinality(BumpSaves)' \in Nat
        BY <1>2, <1>9, EditorSets, FS_AddElement DEF CacheInv
    <2>2. \A u \in OpenSaves' : save'[u].of = "products"
        BY <1>3, <1>9 DEF CacheInv, CacheCounted, OpenSaves
    <2>3. \A u \in Editors : save'[u].step = "bumping" =>
              save'[u].base + Cardinality(BumpSaves)' <= spent'
        <3> SUFFICES ASSUME NEW u \in Editors, save'[u].step = "bumping"
                     PROVE save'[u].base + Cardinality(BumpSaves)' <= spent'
            OBVIOUS
        <3>1. save'[u] = save[u] /\ save[u].base \in 0 .. MaxSaves
            BY <1>3, <1>9 DEF CacheInv, CacheTyped, SaveStates
        <3>2. save[u].base + Cardinality(BumpSaves) <= spent
            BY <3>1 DEF CacheInv, CacheCounted
        <3> QED BY <1>1, <1>6, <2>1, <3>1, <3>2
    <2>4. "products" \in Sources
        BY DEF Sources
    <2>5. savedTimes'["products"] + Cardinality(OpenSaves)' <= spent'
        BY <1>1, <1>4, <1>6, <2>1, <2>4 DEF CacheInv, CacheCounted
    <2>6. version' + Cardinality(BumpSaves)' <= spent'
        BY <1>1, <1>6, <2>1 DEF CacheInv, CacheCounted, CacheTyped
    <2>7. bumped' <= loud'["products"]
        BY <1>1, <1>6, <1>7, <2>4 DEF CacheInv, CacheCounted, CacheTyped
    <2> QED BY <1>7, <2>2, <2>3, <2>5, <2>6, <2>7 DEF CacheCounted
\* A key that reads s, of a save that can be counted on, is still to be deleted.
<1>11. ASSUME NEW k \in pages \cap Keys, k # "marketplacePopular", NEW t \in Own(k),
              NEW n \in Nat, n >= loud[t] \/ StillToClear(k, t)
       PROVE n >= loud'[t] \/ StillToClear(k, t)'
    <2>1. t \in Sources
        BY OwnFacts, ReadsKnown
    <2>2. CASE t = s /\ name \notin Unclaimed
        <3>1. k \in SaveOf[name].keys
            BY <1>2, <1>11, <2>2, Deletes
        <3>2. k \in x.left /\ x.of = t
            BY <1>3, <2>2, <3>1
        <3>3. save'[w].of = t /\ k \in save'[w].left
            BY <1>9, <3>2
        <3> QED BY <3>3 DEF StillToClear
    <2>3. CASE ~(t = s /\ name \notin Unclaimed)
        <3>1. loud'[t] = loud[t]
            BY <1>5, <2>1, <2>3
        <3>2. StillToClear(k, t) => StillToClear(k, t)'
            BY <1>1, <1>2, <1>3, ClearsKept DEF CacheInv
        <3> QED BY <1>11, <3>1, <3>2
    <2> QED BY <2>2, <2>3
<1>12. PeaceIsFresh'
    <2> SUFFICES ASSUME NEW k \in Keys \ {"marketplacePopular"}, entry[k].held,
                        ~entry[k].overtaken, NEW t \in Own(k)
                 PROVE entry[k].seen[t] >= loud'[t] \/ StillToClear(k, t)'
        BY <1>1 DEF PeaceIsFresh
    <2>1. k \in pages /\ entry[k].seen \in [Reads(k) -> 0 .. MaxSaves]
        BY HeldIs DEF CacheInv
    <2>2. entry[k].seen[t] \in Nat
        BY <2>1, OwnFacts
    <2>3. entry[k].seen[t] >= loud[t] \/ StillToClear(k, t)
        BY DEF CacheInv, PeaceIsFresh
    <2> QED BY <1>11, <2>1, <2>2, <2>3
<1>13. FillsAreFresh'
    <2> SUFFICES ASSUME NEW r \in Visitors, NEW k \in Keys \ {"marketplacePopular"},
                        visit[r].step = "asking", visit[r].key = k, ~visit[r].overtaken,
                        NEW t \in Own(k)
                 PROVE visit[r].seen[t] >= loud'[t] \/ StillToClear(k, t)'
        BY <1>1 DEF FillsAreFresh
    <2>1. k \in pages \cap Keys /\ visit[r].seen \in [Reads(k) -> 0 .. MaxSaves]
        BY AskingIs DEF CacheInv, Fillings
    <2>2. visit[r].seen[t] \in Nat
        BY <2>1, OwnFacts
    <2>3. visit[r].seen[t] >= loud[t] \/ StillToClear(k, t)
        BY DEF CacheInv, FillsAreFresh
    <2> QED BY <1>11, <2>1, <2>2, <2>3
<1>14. BumpsInTurn'
    <2>1. cacheManner' = cacheManner
        BY <1>1 DEF chosen
    <2>2. ASSUME cacheManner = "serial", NEW u \in Editors, NEW v \in Editors,
                 save'[u] # NoSave, save'[v] # NoSave
          PROVE u = v
        BY <1>2, <1>9, <2>2
    <2>3. \A u \in Editors : save'[u].step = "bumping" => save'[u] = save[u]
        BY <1>3, <1>9
    <2> QED BY <1>1, <2>1, <2>2, <2>3 DEF CacheInv, BumpsInTurn
<1> QED BY <1>8, <1>10, <1>12, <1>13, <1>14 DEF CacheInv

\* Resting forgets a save that has nothing left to do, and nothing else.
LEMMA RestIs ==
    ASSUME NEW y \in SaveStates
    PROVE /\ Rest(y) \in SaveStates /\ Rest(y).left = y.left /\ Rest(y).open = y.open
          /\ Rest(y) = y \/ (Rest(y) = NoSave /\ y.step = "clear" /\ y.left = {} /\ ~y.open)
BY NoSaveTyped DEF Rest, SaveStates

\* The transaction of an edit commits after its bump and its deletions.
LEMMA SaveRowOpenKeeps ==
    ASSUME CacheInv, NEW w \in Editors, SaveRowOpen(w)
    PROVE CacheInv'
<1> DEFINE y == [save[w] EXCEPT !.open = FALSE]
           x == Rest(y)
<1>1. /\ save[w].open /\ savedTimes' = [savedTimes EXCEPT ![save[w].of] = @ + 1]
      /\ save' = [save EXCEPT ![w] = x]
      /\ UNCHANGED <<chosen, entry, version, promoted, visit, spent, loud, bumped>>
    BY DEF SaveRowOpen, CacheInv, CacheTyped
<1>2. save[w] \in SaveStates /\ w \in OpenSaves /\ save[w].of = "products"
    BY <1>1 DEF CacheInv, CacheTyped, CacheCounted, OpenSaves
<1>3. y \in SaveStates /\ ~y.open /\ y.left = save[w].left /\ y.of = save[w].of
      /\ y.step = save[w].step /\ y.base = save[w].base
    BY <1>2 DEF SaveStates
<1> HIDE DEF y
<1>4. /\ x \in SaveStates /\ ~x.open
      /\ x.left = save[w].left /\ (x.left = {} \/ x = y)
      /\ x = y \/ (x.step = "idle" /\ y.step = "clear")
    BY <1>3, RestIs, NoSaveTyped
<1> HIDE DEF x
<1>5. /\ \A u \in Editors : save'[u] = IF u = w THEN x ELSE save[u]
      /\ OpenSaves' = OpenSaves \ {w}
      /\ x.step \in {"bump", "bumping"} => BumpSaves' = BumpSaves \cup {w}
      /\ x.step \notin {"bump", "bumping"} => BumpSaves' = BumpSaves \ {w}
    BY <1>1, <1>4, SaveStep DEF CacheInv
<1>6. BumpSaves' = BumpSaves
    BY <1>3, <1>4, <1>5 DEF BumpSaves
<1>7. /\ Cardinality(OpenSaves)' = Cardinality(OpenSaves) - 1
      /\ Cardinality(OpenSaves) \in Nat /\ Cardinality(OpenSaves)' \in Nat
    BY <1>2, <1>5, EditorSets, FS_RemoveElement, FS_CardinalityType DEF CacheInv
<1>8. "products" \in Sources /\ MaxSaves \in Nat
    BY CatalogAssumption DEF Sources
<1>9. \A t \in Sources :
          savedTimes'[t] = IF t = "products" THEN savedTimes[t] + 1 ELSE savedTimes[t]
    BY <1>1, <1>2, <1>8 DEF CacheInv, CacheTyped
<1>10. /\ \A t \in Sources : savedTimes[t] \in Nat /\ loud[t] \in Nat
                             /\ savedTimes[t] <= spent /\ loud[t] <= savedTimes[t]
       /\ spent \in Nat /\ spent <= MaxSaves
       /\ savedTimes["products"] + Cardinality(OpenSaves) <= spent
    BY <1>8 DEF CacheInv, CacheTyped, CacheCounted
<1>11. \A t \in Sources : /\ savedTimes'[t] \in Nat /\ savedTimes'[t] <= spent
                          /\ savedTimes'[t] \in 0 .. MaxSaves /\ loud[t] <= savedTimes'[t]
    BY <1>7, <1>8, <1>9, <1>10
<1>12. CacheTyped'
    <2>1. savedTimes' = [t \in Sources |-> savedTimes'[t]]
        BY <1>1, <1>2 DEF CacheInv, CacheTyped
    <2>2. savedTimes' \in [Sources -> 0 .. MaxSaves]
        BY <1>11, <2>1
    <2> QED BY <1>1, <1>4, <2>2, SaveTyped DEF CacheInv, CacheTyped
<1>13. PeaceIsFresh' /\ FillsAreFresh'
    BY <1>1, <1>3, <1>4, FreshKept
<1>14. CacheCounted'
    <2>1. \A u \in OpenSaves' : save'[u].of = "products"
        BY <1>5 DEF CacheInv, CacheCounted, OpenSaves
    <2>2. \A u \in Editors : save'[u].step = "bumping" =>
              save[u].step = "bumping" /\ save'[u].base = save[u].base
        BY <1>3, <1>4, <1>5
    <2>3. savedTimes'["products"] + Cardinality(OpenSaves)' <= spent
        BY <1>7, <1>8, <1>9, <1>10
    <2> QED BY <1>1, <1>6, <1>11, <2>1, <2>2, <2>3 DEF CacheInv, CacheCounted
<1>15. BumpsInTurn'
    <2>1. save[w] # NoSave
        BY <1>1 DEF NoSave
    <2>2. \A u \in Editors : save'[u] # NoSave => save[u] # NoSave
        BY <1>5, <2>1
    <2>3. \A u \in Editors : save'[u].step = "bumping" =>
              save[u].step = "bumping" /\ save'[u].base = save[u].base
        BY <1>3, <1>4, <1>5
    <2> QED BY <1>1, <2>2, <2>3 DEF CacheInv, BumpsInTurn, chosen
<1> QED BY <1>12, <1>13, <1>14, <1>15 DEF CacheInv

\* The version is read for the bump ...
LEMMA ReadBumpKeeps ==
    ASSUME CacheInv, NEW w \in Editors, ReadBump(w)
    PROVE CacheInv'
<1> DEFINE x == [save[w] EXCEPT !.step = "bumping", !.base = version]
<1>1. /\ save[w].step = "bump" /\ save' = [save EXCEPT ![w] = x]
      /\ UNCHANGED <<chosen, savedTimes, entry, version, promoted, visit, spent, loud, bumped>>
    BY DEF ReadBump, CacheInv, CacheTyped
<1>2. save[w] \in SaveStates /\ w \in BumpSaves /\ save[w] # NoSave
    BY <1>1 DEF CacheInv, CacheTyped, BumpSaves, NoSave
<1>3. /\ x \in SaveStates /\ x.step = "bumping" /\ x.base = version
      /\ x.open = save[w].open /\ x.left = save[w].left /\ x.of = save[w].of
    BY <1>2 DEF SaveStates, CacheInv, CacheTyped
<1> HIDE DEF x
<1>4. /\ \A u \in Editors : save'[u] = IF u = w THEN x ELSE save[u]
      /\ OpenSaves' = OpenSaves /\ BumpSaves' = BumpSaves
    <2>1. \A u \in Editors : save'[u] = IF u = w THEN x ELSE save[u]
        BY <1>1, <1>3, SaveStep DEF CacheInv
    <2>2. OpenSaves' = OpenSaves /\ BumpSaves' = BumpSaves
        BY <1>1, <1>3, SaveStepSame DEF CacheInv
    <2> QED BY <2>1, <2>2
<1>5. CacheTyped'
    BY <1>1, <1>3, SaveTyped DEF CacheInv, CacheTyped
<1>6. PeaceIsFresh' /\ FillsAreFresh'
    BY <1>1, <1>3, FreshKept
<1>7. CacheCounted'
    <2>1. \A u \in OpenSaves' : save'[u].of = "products"
        BY <1>3, <1>4 DEF CacheInv, CacheCounted, OpenSaves
    <2>2. \A u \in Editors : save'[u].step = "bumping" =>
              save'[u].base + Cardinality(BumpSaves) <= spent
        BY <1>3, <1>4 DEF CacheInv, CacheCounted
    <2> QED BY <1>1, <1>4, <2>1, <2>2 DEF CacheInv, CacheCounted
<1>8. BumpsInTurn'
    <2>1. \A u \in Editors : save'[u] # NoSave => save[u] # NoSave
        BY <1>2, <1>4
    <2>2. \A u \in Editors : save'[u].step = "bumping" =>
              \/ save'[u].base = version
              \/ save[u].step = "bumping" /\ save'[u].base = save[u].base
        BY <1>3, <1>4
    <2> QED BY <1>1, <2>1, <2>2 DEF CacheInv, BumpsInTurn, chosen
<1> QED BY <1>5, <1>6, <1>7, <1>8 DEF CacheInv

\* ... and written, one more than was read.
LEMMA WriteBumpKeeps ==
    ASSUME CacheInv, NEW w \in Editors, WriteBump(w)
    PROVE CacheInv'
<1> DEFINE y == [save[w] EXCEPT !.step = "clear"]
           x == Rest(y)
<1>1. /\ save[w].step = "bumping" /\ version' = save[w].base + 1
      /\ save' = [save EXCEPT ![w] = x]
      /\ bumped' = IF save[w].open \/ save[w].of # "products" THEN bumped ELSE loud["products"]
      /\ UNCHANGED <<chosen, savedTimes, entry, promoted, visit, spent, loud>>
    BY DEF WriteBump, CacheInv, CacheTyped
<1>2. /\ save[w] \in SaveStates /\ w \in BumpSaves /\ save[w] # NoSave
      /\ save[w].base \in Nat
    BY <1>1 DEF CacheInv, CacheTyped, BumpSaves, NoSave, SaveStates
<1>3. y \in SaveStates /\ y.open = save[w].open /\ y.left = save[w].left /\ y.of = save[w].of
      /\ y.step = "clear"
    BY <1>2 DEF SaveStates
<1> HIDE DEF y
<1>4. /\ x \in SaveStates /\ x.open = save[w].open
      /\ x.left = save[w].left /\ (x.left = {} \/ x = y)
      /\ x.step \in {"idle", "clear"} /\ (x.open => x = y)
    BY <1>3, RestIs, NoSaveTyped
<1> HIDE DEF x
<1>5. /\ \A u \in Editors : save'[u] = IF u = w THEN x ELSE save[u]
      /\ OpenSaves' = OpenSaves /\ BumpSaves' = BumpSaves \ {w}
    <2>1. /\ \A u \in Editors : save'[u] = IF u = w THEN x ELSE save[u]
          /\ BumpSaves' = BumpSaves \ {w}
        BY <1>1, <1>4, SaveStep DEF CacheInv
    <2>2. OpenSaves' = OpenSaves
        BY <1>1, <1>4, SaveStepSame DEF CacheInv
    <2> QED BY <2>1, <2>2
<1>6. /\ Cardinality(BumpSaves)' = Cardinality(BumpSaves) - 1
      /\ Cardinality(BumpSaves) \in Nat /\ Cardinality(BumpSaves)' \in Nat
      /\ Cardinality(OpenSaves)' = Cardinality(OpenSaves)
    BY <1>2, <1>5, EditorSets, FS_RemoveElement, FS_CardinalityType DEF CacheInv
<1>7. save[w].base + Cardinality(BumpSaves) <= spent
    BY <1>1 DEF CacheInv, CacheCounted
<1>8. "products" \in Sources /\ MaxSaves \in Nat /\ spent \in 0 .. MaxSaves
      /\ loud["products"] \in 0 .. MaxSaves /\ bumped \in 0 .. MaxSaves
    BY CatalogAssumption DEF Sources, CacheInv, CacheTyped
<1>9. version' \in 0 .. MaxSaves /\ bumped' \in 0 .. MaxSaves /\ bumped' <= loud["products"]
    BY <1>1, <1>2, <1>6, <1>7, <1>8 DEF CacheInv, CacheCounted
<1>10. CacheTyped'
    BY <1>1, <1>4, <1>9, SaveTyped DEF CacheInv, CacheTyped
<1>11. PeaceIsFresh' /\ FillsAreFresh'
    BY <1>1, <1>3, <1>4, FreshKept
<1>12. CacheCounted'
    <2>1. \A u \in OpenSaves' : save'[u].of = "products"
        BY <1>3, <1>4, <1>5 DEF CacheInv, CacheCounted, OpenSaves
    <2>2. ASSUME NEW u \in Editors, save'[u].step = "bumping"
          PROVE save'[u].base + Cardinality(BumpSaves)' <= spent'
        <3>1. save'[u] = save[u] /\ save[u].base \in Nat
            BY <1>4, <1>5, <2>2 DEF CacheInv, CacheTyped, SaveStates
        <3>2. save[u].base + Cardinality(BumpSaves) <= spent
            BY <2>2, <3>1 DEF CacheInv, CacheCounted
        <3> QED BY <1>1, <1>6, <1>8, <3>1, <3>2
    <2>3. version' + Cardinality(BumpSaves)' <= spent'
        BY <1>1, <1>2, <1>6, <1>7, <1>8
    <2> QED BY <1>1, <1>6, <1>9, <2>1, <2>2, <2>3 DEF CacheInv, CacheCounted
<1>13. BumpsInTurn'
    <2> SUFFICES ASSUME cacheManner = "serial" PROVE BumpsInTurn'
        BY <1>1 DEF BumpsInTurn, chosen
    <2>1. \A u \in Editors : save'[u] # NoSave => save[u] # NoSave
        BY <1>2, <1>5
    <2>2. \A u \in Editors : save'[u].step # "bumping"
        <3>1. ASSUME NEW u \in Editors, u # w PROVE save[u] = NoSave
            BY <1>2, <3>1 DEF CacheInv, BumpsInTurn
        <3> QED BY <1>4, <1>5, <3>1, NoSaveTyped
    <2>3. version' = version + 1 /\ version \in Nat
        BY <1>1 DEF CacheInv, BumpsInTurn, CacheTyped
    <2>4. ASSUME NEW v \in Versions, promoted[v].held
          PROVE v <= version' /\ v # version'
        BY <2>3, <2>4 DEF CacheInv, BumpsInTurn, Versions
    <2>5. ASSUME NEW r \in Visitors, visit[r].step \in {"keyed", "promoting"}
          PROVE visit[r].under <= version' /\ visit[r].under # version'
        <3>1. visit[r].under \in Versions
            BY <2>5, LookingIs DEF CacheInv, Lookups
        <3> QED BY <2>3, <2>5, <3>1 DEF CacheInv, BumpsInTurn, Versions
    <2> QED BY <1>1, <2>1, <2>2, <2>4, <2>5 DEF CacheInv, BumpsInTurn
<1> QED BY <1>10, <1>11, <1>12, <1>13 DEF CacheInv

\* A deletion takes the page away, and marks those on their way into the same key.
LEMMA ClearKeeps ==
    ASSUME CacheInv, NEW w \in Editors, NEW k \in Keys, Clear(w, k)
    PROVE CacheInv'
<1> DEFINE y == [save[w] EXCEPT !.left = save[w].left \ {k}]
           x == Rest(y)
           Marked(r) == visit[r].step = "asking" /\ visit[r].key = k
           Mark(r) == Filling(k, visit[r].todo, visit[r].seen, TRUE)
<1>1. /\ save[w].step = "clear" /\ k \in save[w].left
      /\ entry' = [entry EXCEPT ![k] = Absent]
      /\ save' = [save EXCEPT ![w] = x]
      /\ visit' = [r \in Visitors |-> IF Marked(r) THEN Mark(r) ELSE visit[r]]
      /\ UNCHANGED <<chosen, savedTimes, version, promoted, spent, loud, bumped>>
    <2>1. save' = [save EXCEPT ![w] = x]
        BY DEF Clear
    <2> HIDE DEF x
    <2> QED BY <2>1 DEF Clear
<1>2. save[w] \in SaveStates /\ save[w] # NoSave
    BY <1>1 DEF CacheInv, CacheTyped, NoSave
<1>3. /\ y \in SaveStates /\ y.open = save[w].open /\ y.left = save[w].left \ {k}
      /\ y.of = save[w].of /\ y.step = "clear" /\ y.base = save[w].base
    BY <1>1, <1>2 DEF SaveStates
<1> HIDE DEF y
<1>4. /\ x \in SaveStates /\ x.open = save[w].open
      /\ x.left = save[w].left \ {k} /\ (x.left = {} \/ x = y)
      /\ x.step \in {"idle", "clear"} /\ (x.open => x = y)
    BY <1>3, RestIs, NoSaveTyped
<1> HIDE DEF x
<1>5. /\ \A u \in Editors : save'[u] = IF u = w THEN x ELSE save[u]
      /\ OpenSaves' = OpenSaves /\ BumpSaves' = BumpSaves
    <2>1. \A u \in Editors : save'[u] = IF u = w THEN x ELSE save[u]
        BY <1>1, <1>4, SaveStep DEF CacheInv
    <2>2. OpenSaves' = OpenSaves /\ BumpSaves' = BumpSaves
        BY <1>1, <1>4, SaveStepSame DEF CacheInv
    <2> QED BY <2>1, <2>2
<1>6. \A i \in Keys : entry'[i] = IF i = k THEN Absent ELSE entry[i]
    BY <1>1 DEF CacheInv, CacheTyped
<1>7. ASSUME NEW r \in Visitors
      PROVE \/ visit'[r] = visit[r] /\ ~Marked(r)
            \/ visit'[r] \in Fillings(k) /\ k \in pages /\ Marked(r) /\ visit'[r].key = k
               /\ visit'[r].overtaken /\ visit'[r].step = "asking"
    <2>1. visit'[r] = IF Marked(r) THEN Mark(r) ELSE visit[r]
        BY <1>1
    <2>2. CASE Marked(r)
        <3>1. visit[r] \in Fillings(k) /\ k \in pages
            BY <2>2, AskingIs DEF CacheInv
        <3> QED BY <2>1, <2>2, <3>1 DEF Filling, Fillings
    <2> QED BY <2>1, <2>2
<1> HIDE DEF Marked, Mark
<1>8. CacheTyped'
    <2>1. \A i \in Keys : Entries(i)' = Entries(i) /\ Fillings(i)' = Fillings(i)
        BY <1>1 DEF Entries, Fillings, chosen
    <2>2. SaveStates' = SaveStates
        BY <1>1 DEF SaveStates, chosen
    <2>3. save' \in [Editors -> SaveStates]
        BY <1>1, <1>4 DEF CacheInv, CacheTyped
    <2>4. \A i \in Keys : entry'[i] \in Entries(i)
        BY <1>6 DEF CacheInv, CacheTyped, Entries
    <2>5. entry' = [i \in Keys |-> entry'[i]] /\ visit' = [r \in Visitors |-> visit'[r]]
        BY <1>1 DEF CacheInv, CacheTyped
    <2>6. ASSUME NEW r \in Visitors
          PROVE \/ visit'[r] \in {NoVisit} \cup Lookups
                \/ \E i \in pages \cap Keys : visit'[r] \in Fillings(i)
        BY <1>7 DEF CacheInv, CacheTyped
    <2> QED BY <1>1, <2>1, <2>2, <2>3, <2>4, <2>5, <2>6 DEF CacheInv, CacheTyped, chosen
<1>9. CacheCounted'
    <2>1. \A u \in OpenSaves' : save'[u].of = "products"
        BY <1>3, <1>4, <1>5 DEF CacheInv, CacheCounted, OpenSaves
    <2>2. \A u \in Editors : save'[u].step = "bumping" => save'[u] = save[u]
        BY <1>4, <1>5
    <2> QED BY <1>1, <1>5, <2>1, <2>2 DEF CacheInv, CacheCounted
\* The other keys are still to be deleted.
<1>10. ASSUME NEW i, i # k, NEW s, StillToClear(i, s)
       PROVE StillToClear(i, s)'
    <2>1. PICK u \in Editors : save[u].of = s /\ i \in save[u].left
        BY <1>10 DEF StillToClear
    <2>2. save'[u].of = s /\ i \in save'[u].left
        BY <1>3, <1>4, <1>5, <1>10, <2>1
    <2> QED BY <2>2 DEF StillToClear
<1>11. PeaceIsFresh'
    <2> SUFFICES ASSUME NEW i \in Keys \ {"marketplacePopular"}, entry'[i].held,
                        ~entry'[i].overtaken, NEW s \in Own(i)
                 PROVE entry'[i].seen[s] >= loud'[s] \/ StillToClear(i, s)'
        BY DEF PeaceIsFresh
    <2>1. i # k /\ entry'[i] = entry[i]
        BY <1>6 DEF Absent
    <2> QED BY <1>1, <1>10, <2>1 DEF CacheInv, PeaceIsFresh
<1>12. FillsAreFresh'
    <2> SUFFICES ASSUME NEW r \in Visitors, NEW i \in Keys \ {"marketplacePopular"},
                        visit'[r].step = "asking", visit'[r].key = i, ~visit'[r].overtaken,
                        NEW s \in Own(i)
                 PROVE visit'[r].seen[s] >= loud'[s] \/ StillToClear(i, s)'
        BY DEF FillsAreFresh
    <2>1. visit'[r] = visit[r] /\ i # k
        BY <1>7 DEF Marked
    <2> QED BY <1>1, <1>10, <2>1 DEF CacheInv, FillsAreFresh
<1>13. BumpsInTurn'
    <2>1. \A u \in Editors : save'[u] # NoSave => save[u] # NoSave
        BY <1>2, <1>5
    <2>2. \A u \in Editors : save'[u].step = "bumping" => save'[u] = save[u]
        BY <1>4, <1>5
    <2>3. \A r \in Visitors : visit'[r].step \in {"keyed", "promoting"} => visit'[r] = visit[r]
        BY <1>7
    <2> QED BY <1>1, <2>1, <2>2, <2>3 DEF CacheInv, BumpsInTurn, chosen
<1> QED BY <1>8, <1>9, <1>11, <1>12, <1>13 DEF CacheInv

-----------------------------------------------------------------------------
(* The theorem. *)

\* Every step keeps the invariant.
LEMMA CacheInvNext == CacheInv /\ [CacheNext]_cacheVars => CacheInv'
<1> SUFFICES ASSUME CacheInv, [CacheNext]_cacheVars PROVE CacheInv'
    OBVIOUS
<1>1. ASSUME NEW r \in Visitors, NEW k \in Keys, Ask(r, k) \/ AskPart(r, k)
      PROVE CacheInv'
    BY <1>1, AskKeeps, AskPartKeeps
<1>2. ASSUME NEW r \in Visitors,
             Fill(r) \/ ReadVersion(r) \/ AskPromotions(r) \/ FillPromotions(r)
      PROVE CacheInv'
    BY <1>2, FillKeeps, ReadVersionKeeps, AskPromotionsKeeps, FillPromotionsKeeps
<1>3. ASSUME NEW w \in Editors, NEW name \in Saves, SaveRow(w, name)
      PROVE CacheInv'
    BY <1>3, SaveRowKeeps
<1>4. ASSUME NEW w \in Editors, Open(w)
      PROVE CacheInv'
    <2>1. "editProduct" \in Saves
        BY <1>4 DEF Open, MaySave
    <2> QED BY <1>4, <2>1, OpenKeeps
<1>5. ASSUME NEW w \in Editors, SaveRowOpen(w) \/ ReadBump(w) \/ WriteBump(w)
      PROVE CacheInv'
    BY <1>5, SaveRowOpenKeeps, ReadBumpKeeps, WriteBumpKeeps
<1>6. ASSUME NEW w \in Editors, NEW k \in Keys, Clear(w, k)
      PROVE CacheInv'
    BY <1>6, ClearKeeps
<1>7. ASSUME \/ \E k \in Keys : Expire(k)
             \/ \E v \in Versions : ExpirePromotions(v)
             \/ ExpireVersion
      PROVE CacheInv'
    BY <1>7, ExpireKeeps, ExpirePromotionsKeeps, ExpireVersionKeeps
<1>8. CASE UNCHANGED cacheVars
    <2>1. CacheTyped'
        BY <1>8 DEF CacheInv, CacheTyped, cacheVars, chosen, Entries, Fillings, SaveStates
    <2> QED BY <1>8, <2>1, CountsUntouched, PeaceUntouched, FillsUntouched, BumpsUntouched
        DEF CacheInv, cacheVars
<1> QED BY <1>1, <1>2, <1>3, <1>4, <1>5, <1>6, <1>7, <1>8 DEF CacheNext

\* Every behaviour, with any number of visitors and editors, however their calls interleave:
\* a stored page that no deletion overtook shows every counted save whose invalidation is
\* over, and promotions stored under the version of now show every save whose bump is done
\* (cache.service.ts getOrSet, invalidateMarketplaceStorefront, bumpCatalogVersion).
THEOREM PagesStayFresh == CacheSpec => []CacheSound
<1>1. CacheInit => CacheInv
    BY CacheInvInit
<1>2. CacheInv /\ [CacheNext]_cacheVars => CacheInv'
    BY CacheInvNext
<1>3. CacheInv => CacheSound
    BY CacheInvSuffices
<1> QED BY <1>1, <1>2, <1>3, PTL DEF CacheSpec


-----------------------------------------------------------------------------
(* The circuit breaker of the uploads *)

\* The trials are presigns that are out, and there are none but in the trial state.
TrialsOut ==
    /\ \A r \in trial : request[r] \in {"presign", "presignFailed"}
    /\ trial # {} => circuitState = "HALF_OPEN"

CircuitInv == CircuitSound /\ TrialsOut

\* Asking the circuit leaves it in a state that was earned, with its trials counted.
LEMMA AskingKeeps ==
    ASSUME CircuitInv
    PROVE /\ StateAfter \in {"CLOSED", "OPEN", "HALF_OPEN"}
          /\ StateAfter # "CLOSED" => failed >= Threshold
          /\ TrialsAfter \in 0 .. HalfOpenMax
          /\ TrialAfter \subseteq trial /\ IsFiniteSet(TrialAfter)
          /\ StateAfter = "HALF_OPEN" => TrialsAfter = Cardinality(TrialAfter)
          /\ TrialAfter # {} => StateAfter = "HALF_OPEN"
<1>1. trial \subseteq Requests /\ IsFiniteSet(trial)
    BY CircuitAssumption, FS_Subset DEF CircuitInv, CircuitSound, CircuitTypeOK
<1>2. CASE TurnsHalfOpen
    <2>1. Cardinality({}) = 0 /\ IsFiniteSet({})
        BY FS_EmptySet
    <2> QED BY <1>1, <1>2, <2>1, CircuitAssumption DEF CircuitInv, CircuitSound,
            CircuitTypeOK, OpenAfterFailures, StateAfter, TrialsAfter, TrialAfter, TurnsHalfOpen
<1>3. CASE ~TurnsHalfOpen
    BY <1>1, <1>3 DEF CircuitInv, CircuitSound, CircuitTypeOK, OpenAfterFailures,
        TrialsCounted, TrialsOut, StateAfter, TrialsAfter, TrialAfter
<1> QED BY <1>2, <1>3

\* A closed circuit with no request satisfies the invariant.
LEMMA CircuitInitInv == CircuitInit => CircuitInv
<1>1. CircuitInit => CircuitTypeOK
    BY CircuitAssumption DEF CircuitInit, CircuitTypeOK, Phases
<1> QED BY <1>1 DEF CircuitInit, CircuitInv, CircuitSound, OpenAfterFailures, TrialsCounted,
        TrialsOut

\* A presign is let through as one more trial, or refused.
LEMMA PresignInv ==
    ASSUME CircuitInv, NEW r \in Requests, PresignTrial(r)
    PROVE CircuitInv'
<1>1. /\ circuitState' = StateAfter /\ UNCHANGED <<failed, cooled>> /\ request[r] = "idle"
    BY DEF PresignTrial
<1>2. CircuitTypeOK
    BY DEF CircuitInv, CircuitSound
<1>3. CASE Passes /\ StateAfter = "HALF_OPEN"
    <2>1. /\ request' = [request EXCEPT ![r] = "presign"]
          /\ halfOpenInFlight' = TrialsAfter + 1 /\ trial' = TrialAfter \cup {r}
        BY <1>3 DEF PresignTrial
    <2>2. r \notin TrialAfter
        BY <1>1, AskingKeeps DEF CircuitInv, TrialsOut
    <2>3. Cardinality(trial') = Cardinality(TrialAfter) + 1
        BY <2>1, <2>2, AskingKeeps, FS_AddElement
    <2>4. TrialsAfter + 1 \in 0 .. HalfOpenMax
        BY <1>3, AskingKeeps, CircuitAssumption DEF Passes
    <2>5. CircuitTypeOK'
        BY <1>1, <1>2, <2>1, <2>4, AskingKeeps DEF CircuitTypeOK, Phases
    <2>6. OpenAfterFailures'
        BY <1>1, AskingKeeps DEF OpenAfterFailures
    <2>7. TrialsCounted'
        BY <1>3, <2>1, <2>3, AskingKeeps DEF TrialsCounted
    <2>8. TrialsOut'
        BY <1>1, <1>2, <1>3, <2>1, AskingKeeps DEF TrialsOut, CircuitInv, CircuitTypeOK
    <2> QED BY <2>5, <2>6, <2>7, <2>8 DEF CircuitInv, CircuitSound
<1>4. CASE ~(Passes /\ StateAfter = "HALF_OPEN")
    <2>1. /\ request' \in {request, [request EXCEPT ![r] = "presign"]}
          /\ halfOpenInFlight' = TrialsAfter /\ trial' = TrialAfter
        BY <1>4 DEF PresignTrial
    <2>2. CircuitTypeOK'
        BY <1>1, <1>2, <2>1, AskingKeeps DEF CircuitTypeOK, Phases
    <2>3. OpenAfterFailures' /\ TrialsCounted'
        BY <1>1, <2>1, AskingKeeps DEF OpenAfterFailures, TrialsCounted
    <2>4. TrialsOut'
        BY <1>1, <1>2, <2>1, AskingKeeps DEF TrialsOut, CircuitInv, CircuitTypeOK
    <2> QED BY <2>2, <2>3, <2>4 DEF CircuitInv, CircuitSound
<1> QED BY <1>3, <1>4

\* A call that asks the circuit and is no trial.
LEMMA AskCircuitInv ==
    ASSUME CircuitInv, NEW r \in Requests, NEW phase, AskCircuit(r, phase)
    PROVE CircuitInv'
<1>1. /\ circuitState' = StateAfter /\ UNCHANGED <<failed, cooled>> /\ request[r] = "idle"
      /\ halfOpenInFlight' = TrialsAfter /\ trial' = TrialAfter
      /\ \E p \in {"idle", "finalize"} : request' = [request EXCEPT ![r] = p]
    BY DEF AskCircuit
<1>2. CircuitTypeOK
    BY DEF CircuitInv, CircuitSound
<1>3. CircuitTypeOK'
    BY <1>1, <1>2, AskingKeeps DEF CircuitTypeOK, Phases
<1>4. OpenAfterFailures' /\ TrialsCounted'
    BY <1>1, AskingKeeps DEF OpenAfterFailures, TrialsCounted
<1>5. TrialsOut'
    BY <1>1, <1>2, AskingKeeps DEF TrialsOut, CircuitInv, CircuitTypeOK
<1> QED BY <1>3, <1>4, <1>5 DEF CircuitInv, CircuitSound

\* A failure is weighed: below the threshold the circuit is closed and counts no trials.
LEMMA ReportedInv ==
    ASSUME CircuitInv, NEW r \in Requests, Reported(r)
    PROVE CircuitInv'
<1>1. CircuitTypeOK
    BY DEF CircuitInv, CircuitSound
<1>2. request' = [request EXCEPT ![r] = "idle"] /\ UNCHANGED failed
    BY DEF Reported
<1>3. CASE failed >= Threshold
    <2>1. circuitState' = "OPEN" /\ halfOpenInFlight' = 0 /\ cooled' = FALSE /\ trial' = {}
        BY <1>3 DEF Reported
    <2>2. CircuitTypeOK'
        <3>1. request' \in [Requests -> Phases]
            BY <1>1, <1>2 DEF CircuitTypeOK, Phases
        <3>2. circuitState' \in {"CLOSED", "OPEN", "HALF_OPEN"} /\ cooled' \in BOOLEAN
            BY <2>1
        <3>3. failed' \in 0 .. MaxFailures /\ halfOpenInFlight' \in 0 .. HalfOpenMax
            BY <1>1, <1>2, <2>1, CircuitAssumption DEF CircuitTypeOK
        <3>4. trial' \subseteq Requests
            BY <2>1
        <3> QED BY <3>1, <3>2, <3>3, <3>4 DEF CircuitTypeOK
    <2>3. OpenAfterFailures' /\ TrialsCounted' /\ TrialsOut'
        BY <1>2, <1>3, <2>1 DEF OpenAfterFailures, TrialsCounted, TrialsOut
    <2> QED BY <2>2, <2>3 DEF CircuitInv, CircuitSound
<1>4. CASE ~(failed >= Threshold)
    <2>1. circuitState = "CLOSED" /\ trial = {}
        BY <1>4 DEF CircuitInv, CircuitSound, OpenAfterFailures, TrialsOut
    <2>2. UNCHANGED <<circuitState, cooled, halfOpenInFlight>> /\ trial' = {}
        BY <1>4, <2>1 DEF Reported
    <2> QED BY <1>1, <1>2, <2>1, <2>2 DEF CircuitInv, CircuitSound, CircuitTypeOK, Phases,
            OpenAfterFailures, TrialsCounted, TrialsOut
<1> QED BY <1>3, <1>4

\* A call that ends without asking the circuit.
LEMMA SettleInv ==
    ASSUME CircuitInv, NEW r \in Requests, Settle(r)
    PROVE CircuitInv'
<1>1. CircuitTypeOK
    BY DEF CircuitInv, CircuitSound
<1>2. CASE Succeeds(r)
    BY <1>1, <1>2, CircuitAssumption DEF Succeeds, CircuitInv, CircuitSound, CircuitTypeOK,
        Phases, OpenAfterFailures, TrialsCounted, TrialsOut
<1>3. CASE EndsSilently(r)
    <2>1. r \notin trial
        BY <1>3 DEF EndsSilently, CircuitInv, TrialsOut
    <2> QED BY <1>1, <1>3, <2>1 DEF EndsSilently, CircuitInv, CircuitSound, CircuitTypeOK,
            Phases, OpenAfterFailures, TrialsCounted, TrialsOut
<1>4. CASE Fails(r)
    <2>1. failed' \in 0 .. MaxFailures /\ (failed >= Threshold => failed' >= Threshold)
        BY <1>1, <1>4, CircuitAssumption DEF Fails, CircuitTypeOK
    <2>2. /\ UNCHANGED <<circuitState, halfOpenInFlight, cooled, trial>>
          /\ request' = [request EXCEPT ![r] =
                            IF @ = "presign" THEN "presignFailed" ELSE "healthFailed"]
          /\ request[r] \in {"presign", "health"}
        BY <1>4 DEF Fails
    <2>3. TrialsOut'
        BY <1>1, <2>2 DEF CircuitInv, TrialsOut, CircuitTypeOK
    <2> QED BY <1>1, <2>1, <2>2, <2>3 DEF CircuitInv, CircuitSound, CircuitTypeOK, Phases,
            OpenAfterFailures, TrialsCounted
<1>5. CASE Reported(r)
    BY <1>5, ReportedInv
<1> QED BY <1>2, <1>3, <1>4, <1>5 DEF Settle

\* The breaker opens for a reason, and while it tries again its counter is the number
\* of trial presigns that are out, for any number of requests, any threshold and any
\* limit, however the requests interleave (upload.service.ts ensureCircuitClosed,
\* markUploadSuccess, markUploadFailure).
THEOREM BreakerCountsTrials == CircuitSpec => []CircuitSound
<1>1. CircuitInit => CircuitInv
    BY CircuitInitInv
<1>2. CircuitInv /\ [CircuitNext]_circuitVars => CircuitInv'
    <2> SUFFICES ASSUME CircuitInv, [CircuitNext]_circuitVars PROVE CircuitInv'
        OBVIOUS
    <2>1. ASSUME NEW r \in Requests, PresignTrial(r) \/ Settle(r)
          PROVE CircuitInv'
        BY <2>1, PresignInv, SettleInv
    <2>2. ASSUME NEW r \in Requests, AskCircuit(r, "idle") \/ AskCircuit(r, "finalize")
          PROVE CircuitInv'
        BY <2>2, AskCircuitInv
    <2>3. ASSUME NEW r \in Requests, CheckHealth(r)
          PROVE CircuitInv'
        <3>1. r \notin trial
            BY <2>3 DEF CheckHealth, CircuitInv, TrialsOut
        <3> QED BY <2>3, <3>1 DEF CheckHealth, CircuitInv, CircuitSound, CircuitTypeOK, Phases,
                OpenAfterFailures, TrialsCounted, TrialsOut
    <2>4. CASE CooldownOver
        BY <2>4 DEF CooldownOver, CircuitInv, CircuitSound, CircuitTypeOK, OpenAfterFailures,
            TrialsCounted, TrialsOut
    <2>5. CASE UNCHANGED circuitVars
        BY <2>5 DEF circuitVars, CircuitInv, CircuitSound, CircuitTypeOK, OpenAfterFailures,
            TrialsCounted, TrialsOut
    <2> QED BY <2>1, <2>2, <2>3, <2>4, <2>5 DEF CircuitNext
<1>3. CircuitInv => CircuitSound
    BY DEF CircuitInv
<1> QED BY <1>1, <1>2, <1>3, PTL DEF CircuitSpec


-----------------------------------------------------------------------------
(* The queue of the visitors' events *)

\* What the head and the rest of a queue hold.
Once(s) == \A i, j \in 1 .. Len(s) : s[i] = s[j] => i = j
Apart(s, t) == ToSet(s) \cap ToSet(t) = {}

\* A batch and the rest: nothing is lost, nothing doubled, nothing in both.
LEMMA Splits ==
    ASSUME NEW q \in Seq(Events), NEW n \in Nat
    PROVE /\ Leading(q, n) \in Seq(Events) /\ Beyond(q, n) \in Seq(Events)
          /\ Len(Leading(q, n)) = Least(n, Len(q))
          /\ Len(Beyond(q, n)) = IF n <= Len(q) THEN Len(q) - n ELSE 0
          /\ ToSet(q) = ToSet(Leading(q, n)) \cup ToSet(Beyond(q, n))
          /\ Once(q) => /\ Once(Leading(q, n)) /\ Once(Beyond(q, n))
                        /\ Apart(Leading(q, n), Beyond(q, n))
<1> DEFINE l == Leading(q, n)
           b == Beyond(q, n)
           m == Least(n, Len(q))
           k == IF n <= Len(q) THEN Len(q) - n ELSE 0
<1>1. Len(q) \in Nat /\ m \in Nat /\ m <= Len(q) /\ m <= n /\ k \in Nat /\ Len(q) = m + k
    <2>1. Len(q) \in Nat
        OBVIOUS
    <2>2. CASE n <= Len(q)
        <3>1. m = n /\ k = Len(q) - n
            BY <2>1, <2>2 DEF Least
        <3> HIDE DEF m, k
        <3> QED BY <2>1, <2>2, <3>1
    <2>3. CASE ~(n <= Len(q))
        <3>1. m = Len(q) /\ k = 0
            BY <2>1, <2>3 DEF Least
        <3> HIDE DEF m, k
        <3> QED BY <2>1, <2>3, <3>1
    <2> QED BY <2>2, <2>3
<1>2. l \in Seq(Events) /\ Len(l) = m /\ \A i \in 1 .. m : l[i] = q[i]
    BY <1>1 DEF Leading
<1>3. b \in Seq(Events) /\ Len(b) = k /\ \A i \in 1 .. k : b[i] = q[m + i]
    <2>1. CASE n <= Len(q)
        BY <1>1, <2>1 DEF Beyond, Least
    <2>2. CASE n > Len(q)
        <3>1. b = <<>>
            BY <2>2 DEF Beyond
        <3>2. k = 0
            BY <1>1, <2>2
        <3> QED BY <3>1, <3>2
    <2> QED BY <1>1, <2>1, <2>2
<1> HIDE DEF l, b, m, k
<1>4. ToSet(q) = ToSet(l) \cup ToSet(b)
    <2>1. ASSUME NEW i \in 1 .. Len(q) PROVE q[i] \in ToSet(l) \cup ToSet(b)
        <3>1. CASE i <= m
            <4>1. i \in DOMAIN l /\ l[i] = q[i]
                BY <1>1, <1>2, <3>1
            <4> QED BY <4>1 DEF ToSet
        <3>2. CASE i > m
            <4>1. i - m \in DOMAIN b /\ b[i - m] = q[i]
                <5>1. i - m \in 1 .. k
                    BY <1>1, <3>2
                <5> QED BY <1>1, <1>3, <5>1
            <4> QED BY <4>1 DEF ToSet
        <3> QED BY <1>1, <3>1, <3>2
    <2>2. \A i \in DOMAIN l : l[i] \in ToSet(q)
        BY <1>1, <1>2 DEF ToSet
    <2>3. \A i \in DOMAIN b : b[i] \in ToSet(q)
        BY <1>1, <1>3 DEF ToSet
    <2> QED BY <2>1, <2>2, <2>3 DEF ToSet
<1>5. ASSUME Once(q) PROVE Once(l) /\ Once(b) /\ Apart(l, b)
    <2>1. Once(l)
        BY <1>1, <1>2, <1>5 DEF Once
    <2>2. Once(b)
        <3> SUFFICES ASSUME NEW i \in 1 .. k, NEW j \in 1 .. k, b[i] = b[j] PROVE i = j
            BY <1>3 DEF Once
        <3>1. m + i \in 1 .. Len(q) /\ m + j \in 1 .. Len(q) /\ q[m + i] = q[m + j]
            BY <1>1, <1>3
        <3>2. m + i = m + j
            BY <1>5, <3>1 DEF Once
        <3> QED BY <1>1, <3>2
    <2>3. Apart(l, b)
        <3> SUFFICES ASSUME NEW i \in 1 .. m, NEW j \in 1 .. k, l[i] = b[j] PROVE FALSE
            BY <1>2, <1>3 DEF Apart, ToSet
        <3>1. i \in 1 .. Len(q) /\ m + j \in 1 .. Len(q) /\ q[i] = q[m + j]
            BY <1>1, <1>2, <1>3
        <3>2. i = m + j
            BY <1>5, <3>1 DEF Once
        <3> QED BY <1>1, <3>2
    <2> QED BY <2>1, <2>2, <2>3
<1> QED BY <1>2, <1>3, <1>4, <1>5 DEF l, b, m, k

\* Two queues one behind the other.
LEMMA Joins ==
    ASSUME NEW s \in Seq(Events), NEW t \in Seq(Events)
    PROVE /\ s \o t \in Seq(Events) /\ ToSet(s \o t) = ToSet(s) \cup ToSet(t)
          /\ Once(s) /\ Once(t) /\ Apart(s, t) => Once(s \o t)
<1> DEFINE u == s \o t
<1>1. /\ u \in Seq(Events) /\ Len(u) = Len(s) + Len(t) /\ Len(s) \in Nat /\ Len(t) \in Nat
      /\ DOMAIN u = 1 .. Len(u) /\ DOMAIN s = 1 .. Len(s) /\ DOMAIN t = 1 .. Len(t)
      /\ \A i \in 1 .. Len(u) : u[i] = IF i <= Len(s) THEN s[i] ELSE t[i - Len(s)]
    OBVIOUS
<1> HIDE DEF u
<1>2. ASSUME NEW i \in DOMAIN s PROVE i \in DOMAIN u /\ u[i] = s[i]
    BY <1>1
<1>3. ASSUME NEW i \in DOMAIN t PROVE Len(s) + i \in DOMAIN u /\ u[Len(s) + i] = t[i]
    <2>1. i \in 1 .. Len(t) /\ Len(s) + i \in 1 .. Len(u) /\ ~(Len(s) + i <= Len(s))
        BY <1>1
    <2>2. (Len(s) + i) - Len(s) = i
        BY <1>1, <2>1
    <2>3. u[Len(s) + i] = t[(Len(s) + i) - Len(s)]
        BY <1>1, <2>1
    <2> QED BY <1>1, <2>1, <2>2, <2>3
<1>4. ASSUME NEW i \in DOMAIN u
      PROVE \/ i \in DOMAIN s /\ u[i] = s[i]
            \/ i - Len(s) \in DOMAIN t /\ u[i] = t[i - Len(s)] /\ i > Len(s)
    BY <1>1
<1>5. ToSet(u) = ToSet(s) \cup ToSet(t)
    BY <1>2, <1>3, <1>4 DEF ToSet
<1>6. ASSUME Once(s), Once(t), Apart(s, t) PROVE Once(u)
    <2> SUFFICES ASSUME NEW i \in DOMAIN u, NEW j \in DOMAIN u, u[i] = u[j] PROVE i = j
        BY <1>1 DEF Once
    <2>1. CASE i \in DOMAIN s /\ u[i] = s[i] /\ j \in DOMAIN s /\ u[j] = s[j]
        BY <1>1, <1>6, <2>1 DEF Once
    <2>2. CASE /\ i - Len(s) \in DOMAIN t /\ u[i] = t[i - Len(s)]
               /\ j - Len(s) \in DOMAIN t /\ u[j] = t[j - Len(s)]
        <3>1. i - Len(s) = j - Len(s)
            BY <1>1, <1>6, <2>2 DEF Once
        <3> QED BY <1>1, <3>1
    <2>3. CASE i \in DOMAIN s /\ u[i] = s[i] /\ j - Len(s) \in DOMAIN t /\ u[j] = t[j - Len(s)]
        BY <1>6, <2>3 DEF Apart, ToSet
    <2>4. CASE j \in DOMAIN s /\ u[j] = s[j] /\ i - Len(s) \in DOMAIN t /\ u[i] = t[i - Len(s)]
        BY <1>6, <2>4 DEF Apart, ToSet
    <2> QED BY <1>4, <2>1, <2>2, <2>3, <2>4
<1> QED BY <1>1, <1>5, <1>6 DEF u

\* A new event at the end.
LEMMA Appends ==
    ASSUME NEW q \in Seq(Events), NEW e \in Events
    PROVE /\ Append(q, e) \in Seq(Events) /\ Len(Append(q, e)) = Len(q) + 1
          /\ ToSet(Append(q, e)) = ToSet(q) \cup {e}
          /\ Once(q) /\ e \notin ToSet(q) => Once(Append(q, e))
<1> DEFINE u == Append(q, e)
<1>1. /\ u \in Seq(Events) /\ Len(u) = Len(q) + 1 /\ Len(q) \in Nat
      /\ \A i \in 1 .. Len(q) : u[i] = q[i]
      /\ u[Len(q) + 1] = e
    OBVIOUS
<1> HIDE DEF u
<1>2. DOMAIN u = DOMAIN q \cup {Len(q) + 1}
    BY <1>1
<1>3. ToSet(u) = ToSet(q) \cup {e}
    BY <1>1, <1>2 DEF ToSet
<1>4. ASSUME Once(q), e \notin ToSet(q) PROVE Once(u)
    <2>1. \A i \in DOMAIN q : q[i] # e
        BY <1>4 DEF ToSet
    <2> QED BY <1>1, <1>2, <1>4, <2>1 DEF Once
<1> QED BY <1>1, <1>3, <1>4 DEF u

Flown == [step : {"sent", "had", "lost"}, page : Nat, batch : Seq(Events)]

\* What a batch on its way is, whichever page sent it.
Shape ==
    /\ flight = [f \in Flights |-> flight[f]]
    /\ \A f \in Flights : flight[f] = NoFlight \/ flight[f] \in Flown
    /\ \A f \in Flights : flight[f] # NoFlight => flight[f].page <= closes
    /\ \A f \in Flights : Len(Batch(f)) <= MaxBatch
    /\ eventRows \in [Events -> Nat] /\ forgotten \subseteq Events
    /\ faults \in Nat /\ closes \in Nat

\* A batch that may still come back into the queue, and the batches that hold an event.
Returns(f) == flight[f].step \in {"sent", "had"} /\ flight[f].page = closes
Carrying(e) == {f \in Flights : e \in ToSet(Batch(f))}
Queued(e, q) == IF e \in ToSet(q) THEN 1 ELSE 0

\* The parts of the invariant, of a queue q and the number t of events so far: no event
\* ahead of its time, none lost, none twice where the page could queue it again, and
\* each written or still to be written once, and once more for each failure.
Known(q, t) ==
    /\ t \in 0 .. MaxEvents /\ q \in Seq(Events) /\ ToSet(q) \subseteq 1 .. t
    /\ \A f \in Flights : ToSet(Batch(f)) \subseteq 1 .. t
    /\ \A e \in Events : e > t => eventRows[e] = 0
Kept(q, t) ==
    \A e \in 1 .. t :
        \/ e \in ToSet(q) \cup forgotten \/ eventRows[e] > 0
        \/ \E f \in Flights : e \in ToSet(Batch(f))
SeenOnce(q) ==
    /\ Once(q)
    /\ \A f \in Flights : Returns(f) =>
          /\ Once(Batch(f)) /\ Apart(Batch(f), q)
          /\ \A g \in Flights \ {f} : Returns(g) => Apart(Batch(f), Batch(g))
Weighed(q) ==
    \A e \in Events : eventRows[e] + Cardinality(Carrying(e)) + Queued(e, q) <= 1 + faults
Core(q, t) == Known(q, t) /\ Kept(q, t) /\ SeenOnce(q) /\ Weighed(q)

\* Without a failure the queue is short, and waits for its timer.
Prompt == faults = 0 => Len(queue) < MaxBatch /\ (queue # <<>> => flushTimer)

EventInv ==
    /\ Shape /\ Core(queue, tracked) /\ Prompt
    /\ flushTimer \in BOOLEAN /\ Len(queue) <= MaxQueue

\* What is on its way in a place, and what is not.
LEMMA Batches ==
    ASSUME Shape, NEW f \in Flights
    PROVE /\ Batch(f) \in Seq(Events)
          /\ flight[f] = NoFlight => Batch(f) = <<>> /\ ToSet(Batch(f)) = {} /\ ~Returns(f)
          /\ flight[f].step # "none" =>
                flight[f] \in Flown /\ Batch(f) = flight[f].batch /\ flight[f] # NoFlight
<1>1. CASE flight[f] = NoFlight
    BY <1>1 DEF Batch, Returns, NoFlight, ToSet
<1>2. CASE flight[f] \in Flown
    <2>1. flight[f] # NoFlight
        BY <1>2 DEF Flown, NoFlight
    <2> QED BY <1>2, <2>1 DEF Batch, Flown
<1> QED BY <1>1, <1>2 DEF Shape

\* One place changes.
LEMMA Moves ==
    ASSUME Shape, NEW f \in Flights, NEW x, x = NoFlight \/ x \in Flown,
           flight' = [flight EXCEPT ![f] = x]
    PROVE /\ flight' = [g \in Flights |-> flight'[g]] /\ flight'[f] = x
          /\ \A g \in Flights \ {f} : flight'[g] = flight[g] /\ Batch(g)' = Batch(g)
          /\ x = NoFlight => Batch(f)' = <<>> /\ ToSet(Batch(f)') = {}
          /\ x # NoFlight => Batch(f)' = x.batch
          /\ \A e \in Events : Carrying(e)' \ {f} = Carrying(e) \ {f}
          /\ \A e \in Events : f \in Carrying(e)' <=> e \in ToSet(Batch(f)')
<1>1. flight' = [g \in Flights |-> flight'[g]] /\ flight'[f] = x
    BY DEF Shape
<1>2. \A g \in Flights \ {f} : flight'[g] = flight[g] /\ Batch(g)' = Batch(g)
    BY DEF Shape, Batch
<1>3. /\ x = NoFlight => Batch(f)' = <<>> /\ ToSet(Batch(f)') = {}
      /\ x # NoFlight => Batch(f)' = x.batch
    BY <1>1 DEF Batch, ToSet
<1> QED BY <1>1, <1>2, <1>3 DEF Carrying

\* An event is held in one place more or less than elsewhere.
LEMMA Counts ==
    ASSUME NEW S, S \subseteq Flights, NEW f
    PROVE /\ IsFiniteSet(S) /\ Cardinality(S) \in Nat /\ Cardinality(S \ {f}) \in Nat
          /\ Cardinality(S) = Cardinality(S \ {f}) + (IF f \in S THEN 1 ELSE 0)
<1>1. IsFiniteSet(S) /\ IsFiniteSet(S \ {f})
    BY EventAssumption, FS_Subset
<1>2. Cardinality(S) \in Nat /\ Cardinality(S \ {f}) \in Nat
    BY <1>1, FS_CardinalityType
<1>3. CASE f \in S
    BY <1>1, <1>2, <1>3, FS_RemoveElement
<1>4. CASE f \notin S
    <2>1. S \ {f} = S
        BY <1>4
    <2>2. Cardinality(S \ {f}) = Cardinality(S)
        BY <2>1
    <2>3. Cardinality(S) = Cardinality(S \ {f}) + 0
        BY <1>2, <2>2
    <2> QED BY <1>1, <1>2, <1>4, <2>3
<1> QED BY <1>1, <1>2, <1>3, <1>4

\* The weight of an event after one place changed.
LEMMA Weights ==
    ASSUME Shape, NEW f \in Flights, NEW x, x = NoFlight \/ x \in Flown,
           flight' = [flight EXCEPT ![f] = x], NEW e \in Events
    PROVE /\ Cardinality(Carrying(e)) \in Nat /\ Cardinality(Carrying(e)') \in Nat
          /\ Cardinality(Carrying(e)') - (IF e \in ToSet(Batch(f)') THEN 1 ELSE 0)
                = Cardinality(Carrying(e)) - (IF e \in ToSet(Batch(f)) THEN 1 ELSE 0)
<1>1. Carrying(e) \subseteq Flights /\ Carrying(e)' \subseteq Flights
    BY DEF Carrying
<1>2. /\ Carrying(e)' \ {f} = Carrying(e) \ {f}
      /\ f \in Carrying(e)' <=> e \in ToSet(Batch(f)')
    BY Moves
<1>3. f \in Carrying(e) <=> e \in ToSet(Batch(f))
    BY DEF Carrying
<1> DEFINE n == Cardinality(Carrying(e) \ {f})
           c == Cardinality(Carrying(e))
           d == Cardinality(Carrying(e)')
<1>4. n \in Nat /\ c \in Nat /\ c = n + (IF e \in ToSet(Batch(f)) THEN 1 ELSE 0)
    BY <1>1, <1>3, Counts
<1>5. d \in Nat /\ d = n + (IF e \in ToSet(Batch(f)') THEN 1 ELSE 0)
    BY <1>1, <1>2, Counts
<1> HIDE DEF n, c, d
<1>6. /\ c \in Nat /\ d \in Nat
      /\ d - (IF e \in ToSet(Batch(f)') THEN 1 ELSE 0)
            = c - (IF e \in ToSet(Batch(f)) THEN 1 ELSE 0)
    BY <1>4, <1>5
<1> QED BY <1>6 DEF c, d

\* A batch leaves: what it takes of the queue is on its way, and the rest is queued.
LEMMA FlushCore ==
    ASSUME Shape, NEW q, NEW t, Core(q, t), Flush(q), tracked' = t,
           UNCHANGED <<eventRows, faults, closes, forgotten>>
    PROVE Shape' /\ Core(queue, tracked)' /\ queue' = Beyond(q, MaxBatch)
<1>1. q \in Seq(Events) /\ MaxBatch \in Nat
    BY EventAssumption DEF Core, Known
<1>2. CASE q = <<>>
    <2>1. queue' = q /\ UNCHANGED flight
        BY <1>2 DEF Flush
    <2>2. Beyond(q, MaxBatch) = <<>>
        <3>1. Beyond(q, MaxBatch) \in Seq(Events) /\ Len(Beyond(q, MaxBatch)) = 0
            <4>1. Len(q) = 0
                BY <1>2
            <4>2. /\ Beyond(q, MaxBatch) \in Seq(Events)
                  /\ Len(Beyond(q, MaxBatch)) =
                        IF MaxBatch <= Len(q) THEN Len(q) - MaxBatch ELSE 0
                BY <1>1, Splits
            <4> HIDE DEF Flush
            <4> QED BY <1>1, <4>1, <4>2
        <3> QED BY <3>1
    <2>3. Shape'
        BY <2>1 DEF Shape, Batch
    <2>4. Core(queue, tracked)'
        BY <2>1 DEF Core, Known, Kept, SeenOnce, Weighed, Returns, Carrying, Batch
    <2> QED BY <1>2, <2>1, <2>2, <2>3, <2>4
<1>3. CASE q # <<>>
    <2> DEFINE l == Leading(q, MaxBatch)
               b == Beyond(q, MaxBatch)
               x == [step |-> "sent", page |-> closes, batch |-> l]
    <2>1. /\ l \in Seq(Events) /\ b \in Seq(Events) /\ Len(l) <= MaxBatch
          /\ ToSet(q) = ToSet(l) \cup ToSet(b)
          /\ Once(q) => Once(l) /\ Once(b) /\ Apart(l, b)
        BY <1>1, Splits DEF Least
    <2>2. PICK f \in Flights : flight[f] = NoFlight /\ flight' = [flight EXCEPT ![f] = x]
        BY <1>3 DEF Flush
    <2>3. queue' = b
        BY <1>3 DEF Flush
    <2> HIDE DEF l, b
    <2>4. x \in Flown /\ x # NoFlight /\ x.batch = l /\ x.page = closes
        BY <2>1 DEF Flown, NoFlight, Shape
    <2> HIDE DEF x
    <2>5. /\ flight' = [g \in Flights |-> flight'[g]] /\ flight'[f] = x
          /\ \A g \in Flights \ {f} : flight'[g] = flight[g] /\ Batch(g)' = Batch(g)
          /\ Batch(f)' = l
        BY <2>2, <2>4, Moves
    <2>6. ToSet(Batch(f)) = {} /\ ~Returns(f)
        BY <2>2, Batches
    <2>7. Shape'
        <3>1. \A g \in Flights : flight'[g] = NoFlight \/ flight'[g] \in Flown
            BY <2>4, <2>5 DEF Shape
        <3>2. \A g \in Flights : flight'[g] # NoFlight => flight'[g].page <= closes'
            BY <2>4, <2>5 DEF Shape
        <3>3. \A g \in Flights : Len(Batch(g)') <= MaxBatch
            BY <2>1, <2>5 DEF Shape
        <3> QED BY <2>5, <3>1, <3>2, <3>3 DEF Shape
    <2>8. Known(queue, tracked)'
        <3>1. \A g \in Flights : ToSet(Batch(g)') \subseteq 1 .. t
            BY <2>1, <2>5 DEF Core, Known
        <3> QED BY <2>1, <2>3, <3>1 DEF Core, Known
    <2>9. Kept(queue, tracked)'
        <3> SUFFICES ASSUME NEW e \in 1 .. t
                     PROVE \/ e \in ToSet(b) \cup forgotten \/ eventRows[e] > 0
                           \/ \E g \in Flights : e \in ToSet(Batch(g)')
            BY <2>3 DEF Kept
        <3>1. CASE e \in ToSet(q)
            BY <2>1, <2>5, <3>1
        <3>2. CASE \E g \in Flights : e \in ToSet(Batch(g))
            BY <2>5, <2>6, <3>2
        <3> QED BY <3>1, <3>2 DEF Core, Kept
    <2>10. SeenOnce(queue)'
        <3>1. Once(l) /\ Once(b) /\ Apart(l, b)
            BY <2>1 DEF Core, SeenOnce
        <3>2. \A g \in Flights \ {f} : Returns(g)' <=> Returns(g)
            BY <2>5 DEF Returns
        <3>3. ASSUME NEW g \in Flights \ {f}, Returns(g)
              PROVE Once(Batch(g)) /\ Apart(Batch(g), b) /\ Apart(Batch(g), l) /\ Apart(l, Batch(g))
            BY <2>1, <3>3 DEF Core, SeenOnce, Apart
        <3>4. ASSUME NEW g \in Flights, Returns(g)'
              PROVE /\ Once(Batch(g)') /\ Apart(Batch(g)', b)
                    /\ \A h \in Flights \ {g} : Returns(h)' => Apart(Batch(g)', Batch(h)')
            <4>1. CASE g = f
                BY <2>5, <3>1, <3>2, <3>3, <4>1
            <4>2. CASE g # f
                <5>1. Once(Batch(g)') /\ Apart(Batch(g)', b)
                    BY <2>5, <3>2, <3>3, <3>4, <4>2
                <5>2. ASSUME NEW h \in Flights \ {g}, Returns(h)'
                      PROVE Apart(Batch(g)', Batch(h)')
                    <6>1. CASE h = f
                        BY <2>5, <3>2, <3>3, <3>4, <4>2, <6>1
                    <6>2. CASE h # f
                        BY <2>5, <3>2, <3>4, <4>2, <5>2, <6>2 DEF Core, SeenOnce
                    <6> QED BY <6>1, <6>2
                <5> QED BY <5>1, <5>2
            <4> QED BY <4>1, <4>2
        <3> QED BY <2>3, <3>1, <3>4 DEF SeenOnce
    <2>11. Weighed(queue)'
        <3> SUFFICES ASSUME NEW e \in Events
                     PROVE eventRows[e] + Cardinality(Carrying(e)') + Queued(e, b) <= 1 + faults
            BY <2>3 DEF Weighed, Queued
        <3>1. /\ Cardinality(Carrying(e)) \in Nat /\ Cardinality(Carrying(e)') \in Nat
              /\ Cardinality(Carrying(e)') - (IF e \in ToSet(l) THEN 1 ELSE 0)
                    = Cardinality(Carrying(e)) - 0
            BY <2>2, <2>4, <2>5, <2>6, Weights
        <3>2. eventRows[e] + Cardinality(Carrying(e)) + Queued(e, q) <= 1 + faults
            BY DEF Core, Weighed
        <3>3. (IF e \in ToSet(l) THEN 1 ELSE 0) + Queued(e, b) = Queued(e, q)
            BY <2>1 DEF Core, SeenOnce, Apart, Queued
        <3>4. Queued(e, b) \in Nat /\ Queued(e, q) \in Nat /\ eventRows[e] \in Nat /\ faults \in Nat
            BY DEF Queued, Shape
        <3> DEFINE in == IF e \in ToSet(l) THEN 1 ELSE 0
        <3>5. in \in Nat
            OBVIOUS
        <3> HIDE DEF in
        <3> QED BY <3>1, <3>2, <3>3, <3>4, <3>5 DEF in
    <2>12. Core(queue, tracked)'
        BY <2>8, <2>9, <2>10, <2>11 DEF Core
    <2> QED BY <2>3, <2>7, <2>12 DEF b
<1> QED BY <1>2, <1>3

\* An event happens: it is new to the queue and to every batch.
LEMMA TrackCore ==
    ASSUME Shape, Core(queue, tracked), tracked < MaxEvents
    PROVE Core(Append(queue, tracked + 1), tracked + 1)
<1> DEFINE e == tracked + 1
           q == Append(queue, e)
<1>1. /\ tracked \in Nat /\ e \in Events /\ e \in 0 .. MaxEvents /\ queue \in Seq(Events)
      /\ 1 .. e = (1 .. tracked) \cup {e} /\ e \notin 1 .. tracked
    BY EventAssumption DEF Core, Known, Events
<1>2. /\ q \in Seq(Events) /\ ToSet(q) = ToSet(queue) \cup {e}
      /\ Once(queue) /\ e \notin ToSet(queue) => Once(q)
    BY <1>1, Appends
<1>3. e \notin ToSet(queue) /\ eventRows[e] = 0 /\ \A f \in Flights : e \notin ToSet(Batch(f))
    BY <1>1 DEF Core, Known
<1> HIDE DEF q
<1>4. Known(q, e)
    <2>1. \A d \in Events : d > e => eventRows[d] = 0
        BY <1>1 DEF Core, Known, Events
    <2> HIDE DEF e
    <2> QED BY <1>1, <1>2, <2>1 DEF Core, Known
<1> HIDE DEF e
<1>5. Kept(q, e)
    BY <1>1, <1>2 DEF Core, Kept
<1>6. SeenOnce(q)
    <2>1. Once(q)
        BY <1>2, <1>3 DEF Core, SeenOnce
    <2>2. \A f \in Flights : Apart(Batch(f), queue) => Apart(Batch(f), q)
        BY <1>2, <1>3 DEF Apart
    <2> QED BY <2>1, <2>2 DEF Core, SeenOnce
<1>7. Weighed(q)
    <2> SUFFICES ASSUME NEW d \in Events
                 PROVE eventRows[d] + Cardinality(Carrying(d)) + Queued(d, q) <= 1 + faults
        BY DEF Weighed
    <2>1. CASE d = e
        <3>1. Carrying(d) = {}
            BY <1>3, <2>1 DEF Carrying
        <3>2. Cardinality(Carrying(d)) = 0
            BY <3>1, FS_EmptySet
        <3>3. Queued(d, q) \in {0, 1}
            BY DEF Queued
        <3> QED BY <1>3, <2>1, <3>2, <3>3 DEF Shape
    <2>2. CASE d # e
        <3>1. Queued(d, q) = Queued(d, queue)
            BY <1>2, <2>2 DEF Queued
        <3> QED BY <3>1 DEF Core, Weighed
    <2> QED BY <2>1, <2>2
<1> QED BY <1>4, <1>5, <1>6, <1>7 DEF Core, q, e

\* An event that is tracked keeps the invariant.
LEMMA TrackInv ==
    ASSUME EventInv, Track
    PROVE EventInv'
<1> DEFINE q == Append(queue, tracked + 1)
<1>1. Shape /\ Core(queue, tracked) /\ tracked < MaxEvents /\ tracked' = tracked + 1
      /\ UNCHANGED <<eventRows, faults, closes, forgotten>>
    BY DEF EventInv, Track
<1>2. Core(q, tracked + 1)
    BY <1>1, TrackCore
<1>3. /\ queue \in Seq(Events) /\ MaxBatch \in Nat \ {0} /\ MaxQueue \in Nat
      /\ MaxQueue >= MaxBatch /\ Len(queue) \in Nat /\ Len(queue) <= MaxQueue
      /\ tracked + 1 \in Events
    BY <1>1, EventAssumption DEF EventInv, Core, Known, Events
<1>4. q \in Seq(Events) /\ Len(q) = Len(queue) + 1
    BY <1>3, Appends
<1>5. CASE Len(q) >= MaxBatch
    <2>1. Flush(q) /\ UNCHANGED flushTimer
        BY <1>5 DEF Track
    <2> HIDE DEF q
    <2>2. Shape' /\ Core(queue, tracked)' /\ queue' = Beyond(q, MaxBatch)
        BY <1>1, <1>2, <2>1, FlushCore
    <2>3. /\ queue' \in Seq(Events)
          /\ Len(queue') = IF MaxBatch <= Len(q) THEN Len(q) - MaxBatch ELSE 0
        BY <1>3, <1>4, <2>2, Splits
    <2>4. Len(queue') = Len(queue) + 1 - MaxBatch
        BY <1>3, <1>4, <1>5, <2>3
    <2>5. Len(queue') <= MaxQueue
        BY <1>3, <2>4
    <2>6. Prompt'
        <3>1. faults' = 0 => Len(queue') = 0
            BY <1>1, <1>3, <2>3, <2>4 DEF EventInv, Prompt
        <3>2. Len(queue') = 0 => queue' = <<>>
            BY <2>3
        <3> QED BY <1>3, <3>1, <3>2 DEF Prompt
    <2> QED BY <2>1, <2>2, <2>5, <2>6 DEF EventInv
<1>6. CASE ~(Len(q) >= MaxBatch)
    <2>1. queue' = q /\ flushTimer' = TRUE /\ UNCHANGED flight
        BY <1>6 DEF Track
    <2> HIDE DEF q
    <2>2. Shape'
        BY <1>1, <2>1 DEF Shape, Batch
    <2>3. Core(queue, tracked)'
        BY <1>1, <1>2, <2>1
            DEF Core, Known, Kept, SeenOnce, Weighed, Returns, Carrying, Batch
    <2>4. Prompt' /\ Len(queue') <= MaxQueue
        BY <1>3, <1>4, <1>6, <2>1 DEF Prompt
    <2> QED BY <2>1, <2>2, <2>3, <2>4 DEF EventInv
<1> QED BY <1>5, <1>6

\* The timer that fires keeps it.
LEMMA TimerInv ==
    ASSUME EventInv, TimerFires
    PROVE EventInv'
<1>1. /\ Shape /\ Core(queue, tracked) /\ Flush(queue) /\ flushTimer' = FALSE
      /\ UNCHANGED <<tracked, eventRows, faults, closes, forgotten>>
    BY DEF EventInv, TimerFires
<1>2. Shape' /\ Core(queue, tracked)' /\ queue' = Beyond(queue, MaxBatch)
    BY <1>1, FlushCore
<1>3. /\ queue \in Seq(Events) /\ MaxBatch \in Nat /\ MaxQueue \in Nat
      /\ Len(queue) \in Nat /\ Len(queue) <= MaxQueue
    BY EventAssumption DEF EventInv, Core, Known
<1>4. /\ queue' \in Seq(Events)
      /\ Len(queue') = IF MaxBatch <= Len(queue) THEN Len(queue) - MaxBatch ELSE 0
    BY <1>2, <1>3, Splits
<1>5. Len(queue') <= MaxQueue
    BY <1>3, <1>4
<1>6. Prompt'
    <2>1. faults' = 0 => Len(queue') = 0
        BY <1>1, <1>3, <1>4 DEF EventInv, Prompt
    <2>2. Len(queue') = 0 => queue' = <<>>
        BY <1>4
    <2> QED BY <2>1, <2>2, EventAssumption DEF Prompt
<1> QED BY <1>1, <1>2, <1>5, <1>6 DEF EventInv

\* A page closes: no batch of it can come back any more.
LEMMA CloseInv ==
    ASSUME EventInv, Close
    PROVE EventInv'
<1>1. /\ Shape /\ Core(queue, tracked) /\ closes' = closes + 1 /\ flushTimer' = FALSE
      /\ UNCHANGED <<tracked, eventRows, faults>>
    BY DEF EventInv, Close
<1>2. /\ queue \in Seq(Events) /\ tracked \in 0 .. MaxEvents /\ Len(queue) \in Nat
      /\ MaxBatch \in Nat \ {0} /\ MaxQueue \in Nat /\ closes \in Nat
    BY <1>1, EventAssumption DEF Core, Known, Shape
<1>3. queue' = <<>>
    BY DEF Close
<1>4. Prompt' /\ Len(queue') <= MaxQueue /\ flushTimer' \in BOOLEAN
    <2>1. Len(queue') = 0
        BY <1>3
    <2>2. Prompt'
        BY <1>2, <1>3, <2>1 DEF Prompt
    <2>3. flushTimer' \in BOOLEAN
        BY <1>1
    <2> QED BY <1>2, <2>1, <2>2, <2>3
<1>5. Once(queue') /\ ToSet(queue') = {} /\ queue' \in Seq(Events)
    BY <1>3 DEF Once, ToSet
<1>6. CASE queue = <<>>
    <2>1. UNCHANGED <<flight, forgotten>>
        BY <1>6 DEF Close
    <2>2. Shape'
        BY <1>1, <1>2, <2>1 DEF Shape, Batch, Flown
    <2>3. \A f \in Flights : ~Returns(f)'
        <3> SUFFICES ASSUME NEW f \in Flights, Returns(f)' PROVE FALSE
            OBVIOUS
        <3>1. flight[f].step # "none" /\ flight[f].page = closes + 1
            BY <1>1, <2>1 DEF Returns
        <3>2. flight[f].page <= closes /\ flight[f].page \in Nat
            BY <1>1, <3>1, Batches DEF Shape, Flown
        <3> QED BY <1>2, <3>1, <3>2
    <2>4. SeenOnce(queue)'
        BY <1>5, <2>3 DEF SeenOnce
    <2>5. Core(queue, tracked)'
        BY <1>1, <1>3, <1>6, <2>1, <2>4
            DEF Core, Known, Kept, Weighed, Carrying, Batch
    <2> QED BY <1>4, <2>2, <2>5 DEF EventInv
<1>7. CASE queue # <<>>
    <2> DEFINE l == Leading(queue, MaxBatch)
               b == Beyond(queue, MaxBatch)
               x == [step |-> "sent", page |-> closes, batch |-> l]
    <2>1. /\ l \in Seq(Events) /\ b \in Seq(Events) /\ Len(l) <= MaxBatch
          /\ ToSet(queue) = ToSet(l) \cup ToSet(b)
        BY <1>2, Splits DEF Least
    <2>2. PICK f \in Flights : flight[f] = NoFlight /\ flight' = [flight EXCEPT ![f] = x]
        BY <1>7 DEF Close
    <2>3. forgotten' = forgotten \cup ToSet(b)
        BY <1>7 DEF Close
    <2> HIDE DEF l, b
    <2>4. x \in Flown /\ x # NoFlight /\ x.batch = l /\ x.page = closes
        BY <1>2, <2>1 DEF Flown, NoFlight
    <2> HIDE DEF x
    <2>5. /\ flight' = [g \in Flights |-> flight'[g]] /\ flight'[f] = x
          /\ \A g \in Flights \ {f} : flight'[g] = flight[g] /\ Batch(g)' = Batch(g)
          /\ Batch(f)' = l
        BY <1>1, <2>2, <2>4, Moves
    <2>6. ToSet(Batch(f)) = {}
        BY <1>1, <2>2, Batches
    <2>7. ASSUME NEW g \in Flights, flight'[g] # NoFlight
          PROVE flight'[g].page \in Nat /\ flight'[g].page <= closes
        BY <1>1, <1>2, <2>4, <2>5, <2>7 DEF Shape, Flown
    <2>8. Shape'
        <3>1. \A g \in Flights : flight'[g] = NoFlight \/ flight'[g] \in Flown
            BY <1>1, <2>4, <2>5 DEF Shape
        <3>2. \A g \in Flights : flight'[g] # NoFlight => flight'[g].page <= closes'
            BY <1>1, <1>2, <2>7
        <3>3. \A g \in Flights : Len(Batch(g)') <= MaxBatch
            BY <1>1, <2>1, <2>5 DEF Shape
        <3>4. forgotten' \subseteq Events
            BY <1>1, <2>1, <2>3 DEF Shape, ToSet
        <3> QED BY <1>1, <1>2, <2>5, <3>1, <3>2, <3>3, <3>4 DEF Shape
    <2>9. Known(queue, tracked)'
        <3>1. \A g \in Flights : ToSet(Batch(g)') \subseteq 1 .. tracked
            BY <1>1, <2>1, <2>5 DEF Core, Known
        <3> QED BY <1>1, <1>5, <3>1 DEF Core, Known
    <2>10. Kept(queue, tracked)'
        <3> SUFFICES ASSUME NEW e \in 1 .. tracked
                     PROVE \/ e \in forgotten' \/ eventRows[e] > 0
                           \/ \E g \in Flights : e \in ToSet(Batch(g)')
            BY <1>1 DEF Kept
        <3>1. CASE e \in ToSet(queue)
            BY <2>1, <2>3, <2>5, <3>1
        <3>2. CASE \E g \in Flights : e \in ToSet(Batch(g))
            BY <2>5, <2>6, <3>2
        <3>3. CASE e \in forgotten \/ eventRows[e] > 0
            BY <2>3, <3>3
        <3> QED BY <1>1, <3>1, <3>2, <3>3 DEF Core, Kept
    <2>11. \A g \in Flights : ~Returns(g)'
        <3> SUFFICES ASSUME NEW g \in Flights, Returns(g)' PROVE FALSE
            OBVIOUS
        <3>1. flight'[g].page = closes + 1 /\ flight'[g].step \in {"sent", "had"}
            BY <1>1 DEF Returns
        <3>2. flight'[g] # NoFlight
            BY <3>1 DEF NoFlight
        <3> QED BY <1>2, <2>7, <3>1, <3>2
    <2>12. SeenOnce(queue)'
        BY <1>5, <2>11 DEF SeenOnce
    <2>13. Weighed(queue)'
        <3> SUFFICES ASSUME NEW e \in Events
                     PROVE eventRows[e] + Cardinality(Carrying(e)') + 0 <= 1 + faults
            BY <1>1, <1>5 DEF Weighed, Queued
        <3>1. /\ Cardinality(Carrying(e)) \in Nat /\ Cardinality(Carrying(e)') \in Nat
              /\ Cardinality(Carrying(e)') - (IF e \in ToSet(l) THEN 1 ELSE 0)
                    = Cardinality(Carrying(e)) - 0
            BY <1>1, <2>2, <2>4, <2>5, <2>6, Weights
        <3>2. eventRows[e] + Cardinality(Carrying(e)) + Queued(e, queue) <= 1 + faults
            BY <1>1 DEF Core, Weighed
        <3>3. (IF e \in ToSet(l) THEN 1 ELSE 0) <= Queued(e, queue)
            BY <2>1 DEF Queued
        <3>4. Queued(e, queue) \in Nat /\ eventRows[e] \in Nat /\ faults \in Nat
            BY <1>1 DEF Queued, Shape
        <3> DEFINE in == IF e \in ToSet(l) THEN 1 ELSE 0
        <3>5. in \in Nat
            OBVIOUS
        <3> HIDE DEF in
        <3> QED BY <3>1, <3>2, <3>3, <3>4, <3>5 DEF in
    <2> QED BY <1>4, <2>8, <2>9, <2>10, <2>12, <2>13 DEF EventInv, Core
<1> QED BY <1>6, <1>7

\* A batch that comes back is queued in front of what happened since, or forgotten.
LEMMA FlightFailsInv ==
    ASSUME EventInv, NEW f \in Flights, FlightFails(f)
    PROVE EventInv'
<1> DEFINE batch == flight[f].batch
           had == flight[f].step = "had"
           x == IF had THEN [flight[f] EXCEPT !.step = "lost"] ELSE NoFlight
<1>1. /\ Shape /\ Core(queue, tracked) /\ faults' = faults + 1
      /\ flight[f].step \in {"sent", "had"} /\ flight' = [flight EXCEPT ![f] = x]
      /\ UNCHANGED <<tracked, flushTimer, eventRows, closes>>
    BY DEF EventInv, FlightFails
<1>2. /\ queue \in Seq(Events) /\ tracked \in 0 .. MaxEvents /\ Len(queue) \in Nat
      /\ MaxBatch \in Nat \ {0} /\ MaxQueue \in Nat /\ closes \in Nat /\ faults \in Nat
    BY <1>1, EventAssumption DEF Core, Known, Shape
<1>3. flight[f] \in Flown /\ Batch(f) = batch /\ batch \in Seq(Events)
    BY <1>1, Batches DEF Flown
<1>4. /\ x = NoFlight \/ x \in Flown
      /\ x.step \notin {"sent", "had"}
      /\ x # NoFlight => x.page = flight[f].page /\ x.batch = batch
    BY <1>1, <1>3 DEF Flown, NoFlight
<1> HIDE DEF x
<1>5. /\ flight' = [g \in Flights |-> flight'[g]] /\ flight'[f] = x
      /\ \A g \in Flights \ {f} : flight'[g] = flight[g] /\ Batch(g)' = Batch(g)
      /\ x = NoFlight => ToSet(Batch(f)') = {} /\ Batch(f)' = <<>>
      /\ x # NoFlight => Batch(f)' = batch
    BY <1>1, <1>4, Moves
<1> DEFINE joined == batch \o queue
           back == flight[f].page = closes
<1>6. /\ back => queue' = Leading(joined, MaxQueue)
                 /\ forgotten' = forgotten \cup ToSet(Beyond(joined, MaxQueue))
      /\ ~back => queue' = queue /\ forgotten' = forgotten \cup ToSet(batch)
    BY DEF FlightFails, Restored
<1>7. joined \in Seq(Events) /\ ToSet(joined) = ToSet(batch) \cup ToSet(queue)
    BY <1>2, <1>3, Joins
<1>8. back => Once(batch) /\ Apart(batch, queue) /\ Once(joined)
    <2>1. back => Returns(f)
        BY <1>1 DEF Returns
    <2>2. back => Once(batch) /\ Apart(batch, queue)
        BY <1>1, <1>3, <2>1 DEF Core, SeenOnce
    <2>3. Once(queue)
        BY <1>1 DEF Core, SeenOnce
    <2> QED BY <1>2, <1>3, <2>2, <2>3, Joins
<1> HIDE DEF joined
<1>9. back => /\ queue' \in Seq(Events) /\ Len(queue') <= MaxQueue
              /\ ToSet(queue') \cup ToSet(Beyond(joined, MaxQueue)) = ToSet(joined)
              /\ Once(queue') /\ Beyond(joined, MaxQueue) \in Seq(Events)
    BY <1>2, <1>6, <1>7, <1>8, Splits DEF Least
<1> HIDE DEF back, batch
<1>10. /\ queue' \in Seq(Events) /\ Len(queue') <= MaxQueue /\ Once(queue')
       /\ ToSet(queue') \subseteq ToSet(batch) \cup ToSet(queue)
       /\ ToSet(batch) \cup ToSet(queue) \subseteq ToSet(queue') \cup forgotten'
       /\ ~back => queue' = queue
       /\ forgotten \subseteq forgotten' /\ forgotten' \subseteq Events
    <2>1. forgotten \subseteq Events /\ ToSet(batch) \subseteq Events
        BY <1>1, <1>3 DEF Shape, ToSet
    <2>2. Once(queue) /\ Len(queue) <= MaxQueue
        BY <1>1 DEF EventInv, Core, SeenOnce
    <2>3. ToSet(queue) \subseteq Events
        BY <1>2 DEF ToSet
    <2>4. CASE back
        BY <1>6, <1>7, <1>9, <2>1, <2>3, <2>4
    <2>5. CASE ~back
        BY <1>2, <1>6, <2>1, <2>2, <2>5
    <2> QED BY <2>4, <2>5
<1>11. Shape'
    <2>1. \A g \in Flights : flight'[g] = NoFlight \/ flight'[g] \in Flown
        BY <1>1, <1>4, <1>5 DEF Shape
    <2>2. \A g \in Flights : flight'[g] # NoFlight => flight'[g].page <= closes'
        <3>1. flight[f].page <= closes
            BY <1>1, <1>3 DEF Shape, Flown, NoFlight
        <3> QED BY <1>1, <1>4, <1>5, <3>1 DEF Shape
    <2>3. \A g \in Flights : Len(Batch(g)') <= MaxBatch
        <3>1. Len(Batch(f)') <= MaxBatch
            BY <1>1, <1>2, <1>3, <1>5 DEF Shape
        <3> QED BY <1>1, <1>5, <3>1 DEF Shape
    <2> QED BY <1>1, <1>2, <1>5, <1>10, <2>1, <2>2, <2>3 DEF Shape
<1>12. Known(queue, tracked)'
    <2>1. ToSet(Batch(f)) \subseteq 1 .. tracked /\ ToSet(queue) \subseteq 1 .. tracked
        BY <1>1 DEF Core, Known
    <2>2. \A g \in Flights : ToSet(Batch(g)') \subseteq 1 .. tracked
        BY <1>1, <1>3, <1>5, <2>1 DEF Core, Known
    <2> QED BY <1>1, <1>2, <1>3, <1>10, <2>1, <2>2 DEF Core, Known
<1>13. Kept(queue, tracked)'
    <2> SUFFICES ASSUME NEW e \in 1 .. tracked
                 PROVE \/ e \in ToSet(queue') \cup forgotten' \/ eventRows[e] > 0
                       \/ \E g \in Flights : e \in ToSet(Batch(g)')
        BY <1>1 DEF Kept
    <2>1. CASE e \in ToSet(queue) \cup ToSet(batch)
        BY <1>10, <2>1
    <2>2. CASE \E g \in Flights \ {f} : e \in ToSet(Batch(g))
        BY <1>5, <2>2
    <2>3. CASE e \in forgotten \/ eventRows[e] > 0
        BY <1>10, <2>3
    <2> QED BY <1>1, <1>3, <2>1, <2>2, <2>3 DEF Core, Kept
<1>14. SeenOnce(queue)'
    <2>1. ~Returns(f)' /\ \A g \in Flights \ {f} : Returns(g)' <=> Returns(g)
        BY <1>1, <1>4, <1>5 DEF Returns
    <2>2. ASSUME NEW g \in Flights, Returns(g)'
          PROVE /\ Once(Batch(g)') /\ Apart(Batch(g)', queue')
                /\ \A h \in Flights \ {g} : Returns(h)' => Apart(Batch(g)', Batch(h)')
        <3>1. g # f /\ Returns(g)
            BY <2>1, <2>2
        <3>2. Once(Batch(g)) /\ Apart(Batch(g), queue)
            BY <1>1, <3>1 DEF Core, SeenOnce
        <3>3. Apart(Batch(g), queue')
            <4>1. CASE back
                <5>1. Returns(f)
                    BY <1>1, <4>1 DEF Returns, back
                <5>2. Apart(Batch(g), batch)
                    BY <1>1, <1>3, <3>1, <5>1 DEF Core, SeenOnce
                <5> QED BY <1>10, <3>2, <5>2 DEF Apart
            <4>2. CASE ~back
                BY <1>10, <3>2, <4>2
            <4> QED BY <4>1, <4>2
        <3>4. ASSUME NEW h \in Flights \ {g}, Returns(h)'
              PROVE Apart(Batch(g)', Batch(h)')
            BY <1>1, <1>5, <2>1, <3>1, <3>4 DEF Core, SeenOnce
        <3> QED BY <1>5, <3>1, <3>2, <3>3, <3>4
    <2> QED BY <1>10, <2>2 DEF SeenOnce
<1>15. Weighed(queue)'
    <2> SUFFICES ASSUME NEW e \in Events
                 PROVE eventRows[e] + Cardinality(Carrying(e)') + Queued(e, queue')
                          <= 1 + (faults + 1)
        BY <1>1 DEF Weighed, Queued
    <2> DEFINE c == Cardinality(Carrying(e))
               d == Cardinality(Carrying(e)')
               in == IF e \in ToSet(batch) THEN 1 ELSE 0
               out == IF e \in ToSet(Batch(f)') THEN 1 ELSE 0
    <2>1. c \in Nat /\ d \in Nat /\ d - out = c - in
        BY <1>1, <1>3, <1>4, Weights
    <2>2. eventRows[e] + c + Queued(e, queue) <= 1 + faults
        BY <1>1 DEF Core, Weighed
    <2>3. out <= in /\ in \in 0 .. 1 /\ out \in 0 .. 1
        BY <1>5
    <2>4. Queued(e, queue') <= Queued(e, queue) + 1
        BY DEF Queued
    <2>5. Queued(e, queue) \in Nat /\ Queued(e, queue') \in Nat /\ eventRows[e] \in Nat
        BY <1>1 DEF Queued, Shape
    <2> HIDE DEF c, d, in, out
    <2>6. eventRows[e] + d + Queued(e, queue') <= 1 + (faults + 1)
        BY <1>2, <2>1, <2>2, <2>3, <2>4, <2>5
    <2> QED BY <2>6 DEF d
<1>16. Prompt' /\ flushTimer' \in BOOLEAN
    BY <1>1, <1>2 DEF EventInv, Prompt
<1> QED BY <1>10, <1>11, <1>12, <1>13, <1>14, <1>15, <1>16 DEF EventInv, Core

\* The server has a batch and has not written it yet.
LEMMA IngestInv ==
    ASSUME EventInv, NEW f \in Flights, Ingest(f)
    PROVE EventInv'
<1> DEFINE x == [flight[f] EXCEPT !.step = "had"]
<1>1. /\ Shape /\ Core(queue, tracked) /\ flight[f].step = "sent"
      /\ UNCHANGED <<tracked, queue, flushTimer, eventRows, faults, closes, forgotten>>
    BY DEF EventInv, Ingest
<1>2. flight[f] \in Flown /\ Batch(f) = flight[f].batch
    BY <1>1, Batches
<1>3. /\ x \in Flown /\ x # NoFlight /\ x.step = "had" /\ x.page = flight[f].page
      /\ x.batch = flight[f].batch
    BY <1>2 DEF Flown, NoFlight
<1>4. flight' = [flight EXCEPT ![f] = x]
    BY <1>1 DEF Ingest, Shape
<1> HIDE DEF x
<1>5. /\ flight' = [g \in Flights |-> flight'[g]] /\ flight'[f] = x
      /\ \A g \in Flights : Batch(g)' = Batch(g)
      /\ \A g \in Flights \ {f} : flight'[g] = flight[g]
    <2>1. Batch(f)' = Batch(f)
        BY <1>1, <1>2, <1>3, <1>4, Moves
    <2> QED BY <1>1, <1>3, <1>4, <2>1, Moves
<1>6. \A g \in Flights : Returns(g)' <=> Returns(g)
    BY <1>1, <1>3, <1>5 DEF Returns
<1>7. \A e \in Events : Carrying(e)' = Carrying(e)
    BY <1>5 DEF Carrying
<1>8. Shape'
    <2>1. flight[f].page <= closes
        BY <1>1, <1>2 DEF Shape, Flown, NoFlight
    <2> QED BY <1>1, <1>3, <1>5, <2>1 DEF Shape
<1>9. Known(queue, tracked)' /\ Kept(queue, tracked)'
    BY <1>1, <1>5 DEF Core, Known, Kept
<1>10. SeenOnce(queue)'
    BY <1>1, <1>5, <1>6 DEF Core, SeenOnce
<1>11. Weighed(queue)'
    BY <1>1, <1>7 DEF Core, Weighed, Queued
<1>12. Prompt' /\ flushTimer' \in BOOLEAN /\ Len(queue') <= MaxQueue
    BY <1>1 DEF EventInv, Prompt
<1> QED BY <1>8, <1>9, <1>10, <1>11, <1>12 DEF EventInv, Core

\* A batch is written, or its write fails.
LEMMA PersistInv ==
    ASSUME EventInv, NEW f \in Flights, Persist(f)
    PROVE EventInv'
<1> DEFINE batch == flight[f].batch
<1>1. /\ Shape /\ Core(queue, tracked) /\ flight[f].step \in {"had", "lost"}
      /\ flight' = [flight EXCEPT ![f] = NoFlight]
      /\ UNCHANGED <<tracked, queue, flushTimer, closes>>
    BY DEF EventInv, Persist
<1>2. flight[f] \in Flown /\ Batch(f) = batch /\ batch \in Seq(Events)
    BY <1>1, Batches DEF Flown
<1>3. /\ flight' = [g \in Flights |-> flight'[g]] /\ flight'[f] = NoFlight
      /\ \A g \in Flights \ {f} : flight'[g] = flight[g] /\ Batch(g)' = Batch(g)
      /\ Batch(f)' = <<>> /\ ToSet(Batch(f)') = {}
    BY <1>1, Moves
<1>4. \/ /\ eventRows' = [e \in Events |-> IF e \in ToSet(batch)
                                           THEN eventRows[e] + 1 ELSE eventRows[e]]
         /\ UNCHANGED <<faults, forgotten>>
      \/ /\ faults' = faults + 1 /\ forgotten' = forgotten \cup ToSet(batch)
         /\ UNCHANGED eventRows
    BY DEF Persist
<1> HIDE DEF batch
<1>5. /\ faults \in Nat /\ faults' \in Nat /\ eventRows \in [Events -> Nat]
      /\ eventRows' \in [Events -> Nat] /\ forgotten' \subseteq Events
      /\ forgotten \subseteq forgotten' /\ ToSet(batch) \subseteq 1 .. tracked
      /\ tracked \in 0 .. MaxEvents
    <2>1. ToSet(batch) \subseteq Events /\ forgotten \subseteq Events
        BY <1>1, <1>2 DEF Shape, ToSet
    <2>2. faults \in Nat /\ eventRows \in [Events -> Nat]
        BY <1>1 DEF Shape
    <2>3. ToSet(batch) \subseteq 1 .. tracked /\ tracked \in 0 .. MaxEvents
        BY <1>1, <1>2 DEF Core, Known
    <2>4. CASE UNCHANGED <<faults, forgotten>>
               /\ eventRows' = [e \in Events |-> IF e \in ToSet(batch)
                                                 THEN eventRows[e] + 1 ELSE eventRows[e]]
        BY <2>1, <2>2, <2>3, <2>4
    <2>5. CASE /\ faults' = faults + 1 /\ forgotten' = forgotten \cup ToSet(batch)
               /\ UNCHANGED eventRows
        BY <2>1, <2>2, <2>3, <2>5
    <2> QED BY <1>4, <2>4, <2>5
<1>6. Shape'
    <2>1. \A g \in Flights : flight'[g] = NoFlight \/ flight'[g] \in Flown
        BY <1>1, <1>3 DEF Shape
    <2>2. \A g \in Flights : flight'[g] # NoFlight => flight'[g].page <= closes'
        BY <1>1, <1>3 DEF Shape
    <2>3. \A g \in Flights : Len(Batch(g)') <= MaxBatch
        <3>1. Len(Batch(f)') <= MaxBatch
            BY <1>3, EventAssumption
        <3> QED BY <1>1, <1>3, <3>1 DEF Shape
    <2>4. closes' \in Nat
        BY <1>1 DEF Shape
    <2> QED BY <1>3, <1>5, <2>1, <2>2, <2>3, <2>4 DEF Shape
<1>7. Known(queue, tracked)'
    <2>1. \A g \in Flights : ToSet(Batch(g)') \subseteq 1 .. tracked
        BY <1>1, <1>3 DEF Core, Known
    <2>2. \A e \in Events : e > tracked => eventRows'[e] = 0
        <3>1. \A e \in Events : e > tracked => e \notin ToSet(batch) /\ eventRows[e] = 0
            BY <1>1, <1>5 DEF Core, Known
        <3> QED BY <1>4, <3>1
    <2> QED BY <1>1, <2>1, <2>2 DEF Core, Known
<1>8. Kept(queue, tracked)'
    <2> SUFFICES ASSUME NEW e \in 1 .. tracked
                 PROVE \/ e \in ToSet(queue) \cup forgotten' \/ eventRows'[e] > 0
                       \/ \E g \in Flights : e \in ToSet(Batch(g)')
        BY <1>1 DEF Kept
    <2>1. e \in Events
        BY <1>5, EventAssumption DEF Events
    <2>2. CASE e \in ToSet(batch)
        BY <1>4, <1>5, <2>1, <2>2
    <2>3. CASE e \in ToSet(queue) \cup forgotten
        BY <1>5, <2>3
    <2>4. CASE eventRows[e] > 0
        BY <1>4, <1>5, <2>1, <2>4
    <2>5. CASE \E g \in Flights \ {f} : e \in ToSet(Batch(g))
        BY <1>3, <2>5
    <2> QED BY <1>1, <1>2, <2>2, <2>3, <2>4, <2>5 DEF Core, Kept
<1>9. SeenOnce(queue)'
    <2>1. ~Returns(f)' /\ \A g \in Flights \ {f} : Returns(g)' <=> Returns(g)
        BY <1>1, <1>3 DEF Returns, NoFlight
    <2> QED BY <1>1, <1>3, <2>1 DEF Core, SeenOnce
<1>10. Weighed(queue)'
    <2> SUFFICES ASSUME NEW e \in Events
                 PROVE eventRows'[e] + Cardinality(Carrying(e)') + Queued(e, queue)
                          <= 1 + faults'
        BY <1>1 DEF Weighed, Queued
    <2> DEFINE c == Cardinality(Carrying(e))
               d == Cardinality(Carrying(e)')
               in == IF e \in ToSet(batch) THEN 1 ELSE 0
    <2>1. c \in Nat /\ d \in Nat /\ d - 0 = c - in
        BY <1>1, <1>2, <1>3, Weights
    <2>2. eventRows[e] + c + Queued(e, queue) <= 1 + faults
        BY <1>1 DEF Core, Weighed
    <2>3. in \in 0 .. 1 /\ Queued(e, queue) \in Nat /\ eventRows[e] \in Nat /\ faults \in Nat
        BY <1>5 DEF Queued
    <2>4. \/ eventRows'[e] = eventRows[e] + in /\ faults' = faults
          \/ eventRows'[e] = eventRows[e] /\ faults' = faults + 1
        BY <1>4, <2>3
    <2> HIDE DEF c, d, in
    <2>5. eventRows'[e] + d + Queued(e, queue) <= 1 + faults'
        BY <2>1, <2>2, <2>3, <2>4
    <2> QED BY <2>5 DEF d
<1>11. Prompt' /\ flushTimer' \in BOOLEAN /\ Len(queue') <= MaxQueue
    <2>1. faults' = 0 => faults = 0
        BY <1>4, <1>5
    <2> QED BY <1>1, <2>1 DEF EventInv, Prompt
<1> QED BY <1>6, <1>7, <1>8, <1>9, <1>10, <1>11 DEF EventInv, Core

\* An empty queue satisfies it.
LEMMA EventInitInv == EventInit => EventInv
<1> SUFFICES ASSUME EventInit PROVE EventInv
    OBVIOUS
<1>1. /\ tracked = 0 /\ queue = <<>> /\ flushTimer = FALSE
      /\ flight = [f \in Flights |-> NoFlight] /\ eventRows = [e \in Events |-> 0]
      /\ faults = 0 /\ closes = 0 /\ forgotten = {}
    BY DEF EventInit
<1>2. MaxBatch \in Nat \ {0} /\ MaxQueue \in Nat /\ MaxEvents \in Nat
    BY EventAssumption
<1>3. \A f \in Flights : Batch(f) = <<>> /\ ToSet(Batch(f)) = {} /\ ~Returns(f)
    BY <1>1 DEF Batch, ToSet, Returns, NoFlight
<1>4. Len(<<>>) = 0 /\ ToSet(<<>>) = {} /\ <<>> \in Seq(Events)
    BY DEF ToSet
<1>5. Shape
    BY <1>1, <1>2, <1>3, <1>4 DEF Shape
<1>6. Known(queue, tracked) /\ Kept(queue, tracked)
    BY <1>1, <1>2, <1>3, <1>4 DEF Known, Kept
<1>7. SeenOnce(queue)
    BY <1>1, <1>3, <1>4 DEF SeenOnce, Once
<1>8. Weighed(queue)
    <2>1. \A e \in Events : Carrying(e) = {}
        BY <1>3 DEF Carrying
    <2>2. \A e \in Events : Cardinality(Carrying(e)) = 0
        BY <2>1, FS_EmptySet
    <2> QED BY <1>1, <1>4, <2>2 DEF Weighed, Queued
<1>9. Prompt /\ flushTimer \in BOOLEAN /\ Len(queue) <= MaxQueue
    <2>1. flushTimer \in BOOLEAN
        BY <1>1
    <2> QED BY <1>1, <1>2, <1>4, <2>1 DEF Prompt
<1> QED BY <1>5, <1>6, <1>7, <1>8, <1>9 DEF EventInv, Core

\* No event of a visitor vanishes or is queued twice, the queue stays within its
\* bound, an event is written once and once more for each failure at most, and what is
\* queued has a timer until a batch fails: for any bounds, and whatever becomes of the
\* batches (client.ts trackAnalytics and flushQueue, analytics-ingest.service.ts).
THEOREM EventsArrive == EventSpec => []EventsSound
<1>1. EventInit => EventInv
    BY EventInitInv
<1>2. EventInv /\ [EventNext]_eventVars => EventInv'
    <2> SUFFICES ASSUME EventInv, [EventNext]_eventVars PROVE EventInv'
        OBVIOUS
    <2>1. CASE Track \/ TimerFires \/ Close
        BY <2>1, TrackInv, TimerInv, CloseInv
    <2>2. ASSUME NEW f \in Flights, FlightFails(f) \/ Ingest(f) \/ Persist(f)
          PROVE EventInv'
        BY <2>2, FlightFailsInv, IngestInv, PersistInv
    <2>3. CASE UNCHANGED eventVars
        <3>1. Shape' /\ Prompt'
            BY <2>3 DEF eventVars, EventInv, Shape, Prompt, Batch
        <3>2. Core(queue, tracked)'
            BY <2>3 DEF eventVars, EventInv, Core, Known, Kept, SeenOnce, Weighed, Returns,
                Carrying, Batch, Queued
        <3> QED BY <2>3, <3>1, <3>2 DEF eventVars, EventInv
    <2> QED BY <2>1, <2>2, <2>3 DEF EventNext
<1>3. EventInv => EventsSound
    <2> SUFFICES ASSUME EventInv PROVE EventsSound
        OBVIOUS
    <2>1. Shape /\ Core(queue, tracked)
        BY DEF EventInv
    <2>2. EventTypeOK
        BY <2>1 DEF EventInv, Shape, Core, Known, EventTypeOK
    <2>3. NoneVanishes /\ QueuedOnce
        BY <2>1 DEF Core, Kept, SeenOnce, Once, NoneVanishes, QueuedOnce
    <2>4. TwiceNeedsFault
        <3> SUFFICES ASSUME NEW e \in Events PROVE eventRows[e] <= 1 + faults
            BY DEF TwiceNeedsFault
        <3>1. eventRows[e] + Cardinality(Carrying(e)) + Queued(e, queue) <= 1 + faults
            BY <2>1 DEF Core, Weighed
        <3>2. Cardinality(Carrying(e)) \in Nat
            <4>1. Carrying(e) \subseteq Flights
                BY DEF Carrying
            <4> QED BY <4>1, Counts
        <3> QED BY <2>1, <3>1, <3>2 DEF Shape, Queued
    <2>5. QueueBounded /\ TimerRuns
        BY DEF EventInv, Prompt, QueueBounded, TimerRuns
    <2> QED BY <2>2, <2>3, <2>4, <2>5 DEF EventsSound
<1> QED BY <1>1, <1>2, <1>3, PTL DEF EventSpec

-----------------------------------------------------------------------------
(* The lists of products. *)

PageCall == [adds : BOOLEAN, by : Filters \cup {"nobody"}, page : Nat,
             rows : Seq(Wares) \cup {NotRead}, count : Nat]

\* What the page lists now, and how far its first pages reach.
Listed == ListFor(pageOf, shelf, sought)
LastOf(s, n) == IF n * PageSize < Len(s) THEN n * PageSize ELSE Len(s)
\* A call has read nothing but its page of the list.
Answer(c, all) ==
    /\ flights[c].rows \in {NotRead, Slice(all, flights[c].page)}
    /\ flights[c].count \in {NotCounted, PagesFor(Len(all))}

PagesTyped ==
    /\ PageTypeOK /\ upTo # 0 /\ IsInjective(shelf) /\ straddled \in BOOLEAN
    /\ moves = 0 => shelf = Opening
    /\ flights \in [PageCalls -> PageCall]
    /\ \A c \in Flying : flights[c].page # 0 /\ flights[c].by \in Filters

\* The grid waits for one call at a time, of the page behind what it shows, and while the
\* catalogue stands it shows the beginning of its list.
GridHeld ==
    pageOf = "grid" =>
        /\ IsInjective(shown) /\ (busy = {} <=> Flying = {}) /\ busy \subseteq {"more"}
        /\ \A c, d \in Flying : c = d
        /\ \A c \in Flying : /\ flights[c].adds /\ flights[c].by = sought
                             /\ flights[c].page = upTo + 1 /\ upTo < ofPages
                             /\ flights[c].rows # NotRead => IsInjective(flights[c].rows)
        /\ moves = 0 => /\ ofPages = PagesFor(Len(Listed)) /\ upTo <= ofPages
                        /\ shown = SubSeq(Listed, 1, LastOf(Listed, upTo))
                        /\ \A c \in Flying : Answer(c, Listed)

ShowsAsked ==
    /\ ofPages = PagesFor(Len(Listed))
    /\ shown = CASE pageOf = "category" -> Slice(Listed, wanted)
                 [] pageOf = "discounts" ->
                       Sifted(SubSeq(Listed, 1, LastOf(Listed, upTo)), Wares \ Bare)
                 [] OTHER -> SubSeq(Listed, 1, LastOf(Listed, upTo))

\* In a calm visit the one call is of what is asked for, and unless it replaces what is
\* shown, that is what was asked for.
CalmHeld ==
    pageManner = "calm" /\ errors = 0 /\ moves = 0 =>
        /\ \A c, d \in Flying : c = d
        /\ \A c \in Flying :
              /\ flights[c].by = sought /\ Answer(c, Listed)
              /\ flights[c].adds => /\ pageOf \in {"grid", "store", "discounts"}
                                    /\ flights[c].page = upTo + 1 /\ upTo < ofPages
              /\ ~flights[c].adds =>
                    flights[c].page = IF pageOf = "category" THEN wanted ELSE 1
        /\ \A c \in Flying : flights[c].adds => origins # {}
        /\ Flying = {} /\ PageCalls # {} => origins # {}
        /\ (\A c \in Flying : flights[c].adds) /\ origins # {} => ShowsAsked

\* While no call was made beside one of another kind, all are of the filter of the page.
Unmixed ==
    /\ pageOf \in {"grid", "category"} =>
          origins \subseteq {sought} /\ \A c \in Flying : flights[c].by = sought
    /\ ~straddled =>
          /\ \A c \in Flying : flights[c].by = sought
          /\ \A c, d \in Flying : flights[c].adds = flights[d].adds
          /\ \A f, g \in origins : f = g
          /\ (\A c \in Flying : flights[c].adds) => origins \subseteq {sought}

PagesInv == PagesTyped /\ GridHeld /\ CalmHeld /\ Unmixed

\* What is assumed of the constants of the lists.
LEMMA PageConstants ==
    /\ Opening \in Seq(Wares) /\ IsInjective(Opening) /\ PageSize \in Nat \ {0}
    /\ IsFiniteSet(PageCalls) /\ PageCalls \subseteq Nat /\ Market \subseteq Wares
    /\ MaxMoves \in Nat /\ MaxErrors \in Nat /\ FitsOf \in [Wares -> SUBSET Filters]
  BY PageAssumption, Zenon DEF PageAssumption

\* Each manner has its bound of calls.
LEMMA AskedBound == ASSUME NEW m \in PageManners PROVE MaxAsked[m] \in Nat
<1>1. MaxAsked \in [PageManners -> Nat] BY PageAssumption, Zenon DEF PageAssumption
<1> QED BY <1>1, Zenon

-----------------------------------------------------------------------------
(* Pages of a list *)

\* Division rounds down.
LEMMA Quotient ==
    ASSUME NEW n \in Nat, NEW d \in Nat \ {0}
    PROVE /\ n \div d \in Nat /\ (n \div d) * d <= n /\ n < (n \div d) * d + d
<1>1. /\ n \div d \in Int /\ n % d \in 0 .. d - 1 /\ n = d * (n \div d) + (n % d)
    OBVIOUS
<1> DEFINE q == n \div d
           r == n % d
<1>2. q \in Int /\ r \in 0 .. d - 1 /\ n = d * q + r BY <1>1
<1> HIDE DEF q, r
<1>3. q >= 0
    <2> SUFFICES ASSUME q <= -1 PROVE FALSE BY <1>2
    <2>1. d * q <= d * (-1) BY <1>2
    <2> QED BY <1>2, <2>1
<1>4. q * d = d * q BY <1>2
<1> QED BY <1>2, <1>3, <1>4 DEF q

\* Products of pages and their size.
LEMMA Product ==
    ASSUME NEW k \in Nat, NEW m \in Nat, NEW d \in Nat
    PROVE /\ k * d \in Nat /\ (k + 1) * d = k * d + d
          /\ k <= m => k * d <= m * d
<1>1. k * d \in Nat /\ (k + 1) * d = k * d + d OBVIOUS
<1>2. k <= m => k * d <= m * d OBVIOUS
<1> QED BY <1>1, <1>2

\* The pages before the last are full, and all of them reach the end.
LEMMA PagesReach ==
    ASSUME NEW n \in Nat
    PROVE /\ PagesFor(n) \in Nat \ {0} /\ n <= PagesFor(n) * PageSize
          /\ \A k \in Nat : k < PagesFor(n) => k * PageSize <= n
<1>1. PageSize \in Nat \ {0} BY PageConstants
<1>2. CASE n = 0
    <2>1. PagesFor(n) = 1 BY <1>2 DEF PagesFor
    <2>2. \A k \in Nat : k < 1 => k * PageSize = 0 BY <1>1
    <2> QED BY <1>1, <1>2, <2>1, <2>2
<1>3. CASE n # 0
    <2> DEFINE a == n + PageSize - 1
               q == a \div PageSize
    <2>1. a \in Nat BY <1>1
    <2>2. PagesFor(n) = q BY <1>3 DEF PagesFor
    <2>3. q \in Nat /\ q * PageSize <= a /\ a < q * PageSize + PageSize
        BY <1>1, <2>1, Quotient
    <2> HIDE DEF q
    <2>4. q * PageSize \in Nat BY <1>1, <2>3
    <2>5. n <= q * PageSize BY <1>1, <2>3, <2>4
    <2>6. q # 0
        <3>1. q = 0 => q * PageSize = 0 BY <1>1
        <3> QED BY <1>3, <2>5, <3>1
    <2>7. ASSUME NEW k \in Nat, k < q PROVE k * PageSize <= n
        <3>1. k + 1 <= q BY <2>3, <2>7
        <3>2. (k + 1) * PageSize = k * PageSize + PageSize /\ k * PageSize \in Nat
            BY <1>1, Product
        <3>3. (k + 1) * PageSize <= q * PageSize BY <1>1, <2>3, <3>1, Product
        <3> QED BY <1>1, <2>3, <2>4, <3>2, <3>3
    <2> QED BY <2>2, <2>3, <2>5, <2>6, <2>7
<1> QED BY <1>2, <1>3

\* The beginning of a list and what follows it.
LEMMA JoinedParts ==
    ASSUME NEW T, NEW s \in Seq(T), NEW b \in 0 .. Len(s), NEW a \in 0 .. b
    PROVE /\ SubSeq(s, 1, a) \o SubSeq(s, a + 1, b) = SubSeq(s, 1, b)
          /\ SubSeq(s, a + 1, b) \in Seq(T)
          /\ IsInjective(s) => /\ IsInjective(SubSeq(s, a + 1, b))
                               /\ ToSet(SubSeq(s, 1, a)) \cap ToSet(SubSeq(s, a + 1, b)) = {}
<1> DEFINE l == SubSeq(s, 1, a)
           r == SubSeq(s, a + 1, b)
           j == l \o r
           w == SubSeq(s, 1, b)
<1>1. /\ l \in Seq(T) /\ DOMAIN l = 1 .. a /\ Len(l) = a
      /\ \A i \in 1 .. a : l[i] = s[i]
    OBVIOUS
<1>2. /\ r \in Seq(T) /\ DOMAIN r = 1 .. b - a /\ Len(r) = b - a
      /\ \A i \in 1 .. b - a : r[i] = s[i + a]
    OBVIOUS
<1>3. /\ w \in Seq(T) /\ DOMAIN w = 1 .. b /\ Len(w) = b /\ \A i \in 1 .. b : w[i] = s[i]
    OBVIOUS
<1>4. j \in Seq(T) /\ Len(j) = b /\ \A i \in 1 .. b : j[i] = w[i]
    <2> HIDE DEF l, r, w
    <2>0. \A x, y \in Seq(T) : x \o y \in Seq(T) /\ Len(x \o y) = Len(x) + Len(y)
        OBVIOUS
    <2>1. j \in Seq(T) /\ Len(j) = Len(l) + Len(r)
        <3>1. l \in Seq(T) /\ r \in Seq(T) BY <1>1, <1>2
        <3> QED BY <2>0, <3>1
    <2>2. \A i \in 1 .. a : j[i] = l[i] BY <1>1, <1>2
    <2>3. \A i \in a + 1 .. b : j[i] = r[i - a] BY <1>1, <1>2
    <2>4. ASSUME NEW i \in 1 .. b PROVE j[i] = w[i]
        <3>1. CASE i \in 1 .. a BY <1>1, <1>3, <2>2, <3>1
        <3>2. CASE i \in a + 1 .. b
            <4>1. i - a \in 1 .. b - a /\ (i - a) + a = i BY <3>2
            <4> QED BY <1>2, <1>3, <2>3, <3>2, <4>1
        <3>3. Len(s) \in Nat /\ b \in Nat /\ a \in Nat OBVIOUS
        <3>4. i \in 1 .. a \/ i \in a + 1 .. b BY <3>3
        <3> QED BY <3>1, <3>2, <3>4
    <2> QED BY <1>1, <1>2, <2>1, <2>4
<1> HIDE DEF l, r, j, w
<1>5. j = w BY <1>3, <1>4
<1>6. ASSUME IsInjective(s)
      PROVE IsInjective(r) /\ ToSet(l) \cap ToSet(r) = {}
    <2>1. DOMAIN s = 1 .. Len(s) /\ Len(s) \in Nat OBVIOUS
    <2>2. \A i \in 1 .. b - a : i + a \in DOMAIN s BY <2>1
    <2>3. \A i \in 1 .. a : i \in DOMAIN s BY <2>1
    <2>4. IsInjective(r)
        <3> SUFFICES ASSUME NEW i \in 1 .. b - a, NEW k \in 1 .. b - a, r[i] = r[k]
                     PROVE i = k
            BY <1>2 DEF IsInjective
        <3>1. s[i + a] = s[k + a] BY <1>2
        <3>2. i + a = k + a BY <1>6, <2>2, <3>1 DEF IsInjective
        <3> QED BY <3>2
    <2>5. ASSUME NEW i \in 1 .. a, NEW k \in 1 .. b - a, l[i] = r[k] PROVE FALSE
        <3>1. s[i] = s[k + a] BY <1>1, <1>2, <2>5
        <3>2. i = k + a BY <1>6, <2>2, <2>3, <3>1 DEF IsInjective
        <3> QED BY <3>2
    <2> QED BY <1>1, <1>2, <2>4, <2>5 DEF ToSet
<1> QED BY <1>2, <1>5, <1>6 DEF l, r, j, w

\* How far the pages of a list reach.
LEMMA LastOfType ==
    ASSUME NEW T, NEW s \in Seq(T), NEW n \in Nat
    PROVE /\ LastOf(s, n) \in 0 .. Len(s) /\ n * PageSize \in Nat
          /\ n * PageSize <= Len(s) => LastOf(s, n) = n * PageSize
          /\ LastOf(s, PagesFor(Len(s))) = Len(s)
<1>1. Len(s) \in Nat /\ PageSize \in Nat \ {0} BY PageConstants
<1>2. n * PageSize \in Nat BY <1>1, Product
<1>3. PagesFor(Len(s)) \in Nat /\ Len(s) <= PagesFor(Len(s)) * PageSize BY <1>1, PagesReach
<1>4. PagesFor(Len(s)) * PageSize \in Nat BY <1>1, <1>3, Product
<1> QED BY <1>1, <1>2, <1>3, <1>4 DEF LastOf

\* One page more.
LEMMA SliceJoins ==
    ASSUME NEW T, NEW s \in Seq(T), NEW k \in Nat, k * PageSize <= Len(s)
    PROVE /\ SubSeq(s, 1, LastOf(s, k)) \o Slice(s, k + 1) = SubSeq(s, 1, LastOf(s, k + 1))
          /\ Slice(s, k + 1) \in Seq(T)
          /\ IsInjective(s) =>
                /\ IsInjective(Slice(s, k + 1))
                /\ ToSet(SubSeq(s, 1, LastOf(s, k))) \cap ToSet(Slice(s, k + 1)) = {}
<1> DEFINE a == k * PageSize
           b == LastOf(s, k + 1)
<1>1. PageSize \in Nat \ {0} /\ Len(s) \in Nat BY PageConstants
<1>2. a \in Nat /\ (k + 1) * PageSize = a + PageSize BY <1>1, Product
<1>3. b \in 0 .. Len(s) /\ LastOf(s, k) = a
    <2>1. k + 1 \in Nat OBVIOUS
    <2> QED BY <2>1, LastOfType
<1>4. a <= b BY <1>1, <1>2 DEF LastOf
<1>5. Slice(s, k + 1) = SubSeq(s, a + 1, b)
    <2>1. (k + 1) - 1 = k OBVIOUS
    <2> QED BY <2>1 DEF Slice, LastOf
<1> HIDE DEF a, b
<1>6. a \in 0 .. b BY <1>2, <1>3, <1>4
<1>7. /\ SubSeq(s, 1, a) \o SubSeq(s, a + 1, b) = SubSeq(s, 1, b)
      /\ SubSeq(s, a + 1, b) \in Seq(T)
      /\ IsInjective(s) => /\ IsInjective(SubSeq(s, a + 1, b))
                           /\ ToSet(SubSeq(s, 1, a)) \cap ToSet(SubSeq(s, a + 1, b)) = {}
    BY <1>3, <1>6, JoinedParts
<1> QED BY <1>3, <1>5, <1>7 DEF b

\* A page of a list is a list of products, each once if it is in the list; the first page is
\* its beginning.
LEMMA SliceType ==
    ASSUME NEW T, NEW s \in Seq(T), NEW n \in Nat \ {0}
    PROVE /\ Slice(s, n) \in Seq(T)
          /\ IsInjective(s) => IsInjective(Slice(s, n))
          /\ Slice(s, 1) = SubSeq(s, 1, LastOf(s, 1))
<1> DEFINE k == n - 1
           a == k * PageSize
<1>1. k \in Nat /\ k + 1 = n /\ Len(s) \in Nat /\ PageSize \in Nat \ {0} BY PageConstants
<1>2. a \in Nat /\ n * PageSize = a + PageSize BY <1>1, Product
<1>3. Slice(s, n) = SubSeq(s, a + 1, IF n * PageSize < Len(s) THEN n * PageSize ELSE Len(s))
    BY DEF Slice
<1> HIDE DEF k
<1>4. a <= Len(s) => Slice(s, n) \in Seq(T) /\ (IsInjective(s) => IsInjective(Slice(s, n)))
    BY <1>1, SliceJoins
<1> HIDE DEF a
<1>5. a > Len(s) => Slice(s, n) \in Seq(T) /\ IsInjective(Slice(s, n))
    <2> SUFFICES ASSUME a > Len(s) PROVE Slice(s, n) \in Seq(T) /\ IsInjective(Slice(s, n))
        OBVIOUS
    <2>1. Slice(s, n) = SubSeq(s, a + 1, Len(s)) BY <1>1, <1>2, <1>3
    <2>2. \A m \in Nat : m > Len(s) => SubSeq(s, m, Len(s)) = <<>> BY <1>1
    <2>3. Slice(s, n) = <<>> BY <1>1, <1>2, <2>1, <2>2
    <2>4. <<>> \in Seq(T) /\ IsInjective(<<>>) BY DEF IsInjective
    <2> QED BY <2>3, <2>4
<1>6. Slice(s, 1) = SubSeq(s, 1, LastOf(s, 1))
    <2>1. (1 - 1) * PageSize + 1 = 1 BY <1>1
    <2> QED BY <2>1 DEF Slice, LastOf
<1> QED BY <1>1, <1>2, <1>4, <1>5, <1>6

\* What is listed are products, and each once in the grid.
LEMMA ListForType ==
    ASSUME NEW v, NEW s \in Seq(Wares), NEW f
    PROVE /\ ListFor(v, s, f) \in Seq(Wares)
          /\ v = "grid" /\ IsInjective(s) => IsInjective(ListFor(v, s, f))
<1>1. /\ Fitting(s, f) \in Seq(Wares)
      /\ IsInjective(s) => IsInjective(Fitting(s, f))
    BY SiftedElements DEF Fitting
<1>2. Discounted(s, f) \in Seq(Wares)
    <2>1. Sifted(s, Market) \in Seq(Wares) /\ Sifted(s, Wares \ Market) \in Seq(Wares)
        BY SiftedElements
    <2>2. \A t \in Seq(Wares) : Reverse(t) \in Seq(Wares)
        <3> SUFFICES ASSUME NEW t \in Seq(Wares) PROVE Reverse(t) \in Seq(Wares) OBVIOUS
        <3>1. \A i \in 1 .. Len(t) : t[Len(t) - i + 1] \in Wares OBVIOUS
        <3> QED BY <3>1 DEF Reverse
    <2> QED BY <2>1, <2>2 DEF Discounted
<1>3. SearchHits(s, f) \in Seq(Wares)
    <2>1. Sifted(Fitting(s, f), Market) \in Seq(Wares) BY <1>1, SiftedElements
    <2> QED BY <1>1, <2>1 DEF SearchHits
<1>4. v = "grid" => ListFor(v, s, f) = Fitting(s, f) BY DEF ListFor
<1>5. ListFor(v, s, f) \in {Fitting(s, f), Discounted(s, f), SearchHits(s, f)}
    <2>1. CASE v = "discounts" BY <2>1 DEF ListFor
    <2>2. CASE v = "search" BY <2>2 DEF ListFor
    <2>3. CASE v # "discounts" /\ v # "search" BY <2>3 DEF ListFor
    <2> QED BY <2>1, <2>2, <2>3
<1> QED BY <1>1, <1>2, <1>3, <1>4, <1>5

\* The calls in flight, and the list the page asks for.
LEMMA FlyingType ==
    PagesTyped => \A c \in Flying :
        /\ c \in PageCalls /\ flights[c] \in PageCall
        /\ flights[c].page \in Nat \ {0} /\ flights[c].by \in Filters
        /\ flights[c].rows # NotRead => flights[c].rows \in Seq(Wares)
  BY DEF PagesTyped, Flying, PageCall

\* What the page lists now.
LEMMA ListedType ==
    PagesTyped => Listed \in Seq(Wares) /\ (pageOf = "grid" => IsInjective(Listed))
  BY ListForType DEF PagesTyped, PageTypeOK, Listed

-----------------------------------------------------------------------------
(* Every step keeps the invariant *)

\* A call that is new.
NewFlight(c, adds, f, n) ==
    /\ flights' \in [PageCalls -> PageCall] /\ Flying' = Flying \cup {c}
    /\ flights'[c].adds = adds /\ flights'[c].by = f /\ flights'[c].page = n
    /\ flights'[c].rows = NotRead /\ flights'[c].count = NotCounted
    /\ \A d \in Flying : flights'[d] = flights[d]
    /\ pageManner = "calm" => Flying = {}
    /\ straddled' \in BOOLEAN /\ (straddled => straddled')
    /\ ~straddled' => \A d \in Flying : flights[d].adds = adds /\ flights[d].by = f
    /\ nAsked' \in 0 .. MaxAsked[pageManner']
    /\ busy' = busy \cup {IF adds THEN "more" ELSE "whole"}

\* Asking puts one call in flight beside those that are.
LEMMA AsksNew ==
    ASSUME NEW adds \in BOOLEAN, NEW f \in Filters, NEW n \in Nat \ {0},
           PagesTyped, Asks(adds, f, n), pageManner' = pageManner
    PROVE \E c \in PageCalls \ Flying : NewFlight(c, adds, f, n)
<1>1. PICK c \in PageCalls :
          /\ flights[c] = NoPage
          /\ flights' = [flights EXCEPT ![c] = [NoPage EXCEPT
                            !.adds = adds, !.by = f, !.page = n]]
    BY DEF Asks
<1> DEFINE new == [NoPage EXCEPT !.adds = adds, !.by = f, !.page = n]
<1>2. /\ new.adds = adds /\ new.by = f /\ new.page = n /\ new.rows = NotRead
      /\ new.count = NotCounted /\ new \in PageCall
    BY DEF NoPage, NotCounted, PageCall
<1>3. new # NoPage
    <2>1. NoPage.page = 0 BY DEF NoPage
    <2> QED BY <1>2, <2>1
<1> HIDE DEF new
<1>4. flights' = [flights EXCEPT ![c] = new] BY <1>1 DEF new
<1>5. /\ flights' \in [PageCalls -> PageCall] /\ flights'[c] = new
      /\ \A d \in PageCalls : d # c => flights'[d] = flights[d]
    BY <1>2, <1>4 DEF PagesTyped
<1>6. c \in PageCalls \ Flying BY <1>1 DEF Flying
<1>7. Flying' = Flying \cup {c} BY <1>3, <1>5 DEF Flying
<1>8. \A d \in Flying : flights'[d] = flights[d] BY <1>5, <1>6 DEF Flying
<1>9. /\ pageManner = "calm" => Flying = {}
      /\ busy' = busy \cup {IF adds THEN "more" ELSE "whole"}
    BY DEF Asks
<1>10. straddled' \in BOOLEAN /\ (straddled => straddled')
       /\ (~straddled' => \A d \in Flying : <<flights[d].adds, flights[d].by>> = <<adds, f>>)
    BY DEF Asks, PagesTyped
<1>11. nAsked' \in 0 .. MaxAsked[pageManner']
    <2>1. MaxAsked[pageManner] \in Nat BY AskedBound DEF PagesTyped, PageTypeOK
    <2>2. nAsked < MaxAsked[pageManner] /\ nAsked' = nAsked + 1 BY DEF Asks
    <2>3. nAsked \in 0 .. MaxAsked[pageManner] BY DEF PagesTyped, PageTypeOK
    <2> QED BY <2>1, <2>2, <2>3
<1> QED BY <1>2, <1>5, <1>6, <1>7, <1>8, <1>9, <1>10, <1>11 DEF NewFlight

\* The next page is asked for.
LEMMA AskedNext ==
    ASSUME PagesInv, upTo < ofPages, "more" \notin busy,
           pageOf \in {"grid", "store", "discounts"}, Asks(TRUE, sought, upTo + 1),
           UNCHANGED <<pageManner, pageOf, shelf, sought, wanted, shown, upTo, ofPages, moves,
                       errors, origins>>
    PROVE PagesInv'
<1>1. PagesTyped /\ GridHeld /\ CalmHeld /\ Unmixed BY DEF PagesInv
<1>2. upTo + 1 \in Nat \ {0} /\ sought \in Filters BY <1>1 DEF PagesTyped, PageTypeOK
<1>3. PICK c \in PageCalls \ Flying : NewFlight(c, TRUE, sought, upTo + 1)
    BY <1>1, <1>2, AsksNew
<1> USE DEF NewFlight
<1>4. PagesTyped'
    <2>1. PageTypeOK' BY <1>1, <1>3 DEF PagesTyped, PageTypeOK
    <2> QED BY <1>1, <1>2, <1>3, <2>1 DEF PagesTyped
<1>5. Listed' = Listed BY DEF Listed, ListFor
<1>6. GridHeld'
    <2> SUFFICES ASSUME pageOf = "grid" PROVE GridHeld' BY DEF GridHeld
    <2>1. Flying = {} /\ Flying' = {c} BY <1>1, <1>3 DEF GridHeld
    <2>2. busy' = {"more"} BY <1>1, <1>3 DEF GridHeld
    <2> QED BY <1>1, <1>3, <1>5, <2>1, <2>2 DEF GridHeld, Answer, LastOf
<1>7. CalmHeld'
    <2> SUFFICES ASSUME pageManner = "calm", errors = 0, moves = 0 PROVE CalmHeld'
        BY DEF CalmHeld
    <2>1. Flying = {} /\ Flying' = {c} /\ origins # {} BY <1>1, <1>3 DEF CalmHeld
    <2>2. ShowsAsked' BY <1>1, <1>5, <2>1 DEF CalmHeld, ShowsAsked, LastOf
    <2> QED BY <1>1, <1>3, <1>5, <2>1, <2>2 DEF CalmHeld, Answer
<1>8. Unmixed' BY <1>1, <1>3 DEF Unmixed
<1> QED BY <1>4, <1>6, <1>7, <1>8 DEF PagesInv

\* A first page, or the page of a category, is asked for.
LEMMA AskedWhole ==
    ASSUME NEW f \in Filters, NEW n \in Nat \ {0}, PagesInv, pageOf # "grid",
           sought' = f, wanted' \in Nat \ {0}, Asks(FALSE, f, n),
           pageOf = "category" => f = sought /\ n = wanted', pageOf # "category" => n = 1,
           UNCHANGED <<pageManner, pageOf, shelf, shown, upTo, ofPages, moves, errors, origins>>
    PROVE PagesInv'
<1>1. PagesTyped /\ GridHeld /\ CalmHeld /\ Unmixed BY DEF PagesInv
<1>2. PICK c \in PageCalls \ Flying : NewFlight(c, FALSE, f, n)
    BY <1>1, AsksNew
<1> USE DEF NewFlight
<1>3. PagesTyped'
    <2>1. PageTypeOK' BY <1>1, <1>2 DEF PagesTyped, PageTypeOK
    <2> QED BY <1>1, <1>2, <2>1 DEF PagesTyped
<1>4. GridHeld' BY DEF GridHeld
<1>5. CalmHeld'
    <2> SUFFICES ASSUME pageManner = "calm", errors = 0, moves = 0 PROVE CalmHeld'
        BY DEF CalmHeld
    <2>1. Flying' = {c} BY <1>2
    <2> QED BY <1>2, <2>1 DEF CalmHeld, Answer
<1>6. Unmixed'
    <2>1. pageOf \in {"grid", "category"} =>
              origins \subseteq {f} /\ \A d \in Flying' : flights'[d].by = f
        BY <1>1, <1>2 DEF Unmixed
    <2>2. ASSUME ~straddled'
          PROVE /\ \A d \in Flying' : flights'[d].by = f /\ flights'[d].adds = FALSE
                /\ \A g, h \in origins : g = h
        BY <1>1, <1>2, <2>2 DEF Unmixed
    <2>3. c \in Flying' /\ flights'[c].adds = FALSE BY <1>2
    <2> QED BY <2>1, <2>2, <2>3 DEF Unmixed
<1> QED BY <1>3, <1>4, <1>5, <1>6 DEF PagesInv

\* The server reads what a call asks for.
LEMMA CallReads ==
    ASSUME PagesInv, NEW c \in Flying, flights' \in [PageCalls -> PageCall],
           \A d \in PageCalls : d # c => flights'[d] = flights[d],
           flights'[c].adds = flights[c].adds, flights'[c].by = flights[c].by,
           flights'[c].page = flights[c].page,
           LET all == ListFor(pageOf, shelf, flights[c].by) IN
             /\ flights'[c].rows \in {flights[c].rows, Slice(all, flights[c].page)}
             /\ flights'[c].count \in {flights[c].count, PagesFor(Len(all))},
           UNCHANGED <<pageManner, pageOf, shelf, sought, wanted, shown, upTo, ofPages, busy,
                       nAsked, moves, errors, straddled, origins>>
    PROVE PagesInv'
<1> DEFINE all == ListFor(pageOf, shelf, flights[c].by)
<1>1. PagesTyped /\ GridHeld /\ CalmHeld /\ Unmixed BY DEF PagesInv
<1>2. flights[c].page \in Nat \ {0} /\ flights[c].by \in Filters /\ c \in PageCalls
    BY <1>1, FlyingType
<1>3. Flying' = Flying
    <2>1. NoPage.page = 0 BY DEF NoPage
    <2>2. flights'[c] # NoPage BY <1>2, <2>1
    <2> QED BY <2>2 DEF Flying
<1>4. \A d \in Flying : /\ d \in PageCalls /\ flights'[d].adds = flights[d].adds
                        /\ flights'[d].by = flights[d].by /\ flights'[d].page = flights[d].page
    BY DEF Flying
<1>5. all \in Seq(Wares) /\ (pageOf = "grid" => IsInjective(all))
    BY <1>1, ListForType DEF PagesTyped, PageTypeOK
<1>6. pageOf = "grid" => IsInjective(Slice(all, flights[c].page))
    BY <1>2, <1>5, SliceType
<1>7. PagesTyped'
    <2>1. PageTypeOK' BY <1>1 DEF PagesTyped, PageTypeOK
    <2> QED BY <1>1, <1>3, <1>4, <2>1 DEF PagesTyped
<1>8. Listed' = Listed BY DEF Listed, ListFor
<1>9. flights[c].by = sought => all = Listed BY DEF Listed
<1>10. ASSUME flights[c].by = sought, NEW d \in Flying, Answer(d, Listed)
       PROVE Answer(d, Listed)'
    <2>1. CASE d = c BY <1>2, <1>8, <1>9, <1>10, <2>1 DEF Answer
    <2>2. CASE d # c BY <1>4, <1>8, <1>10, <2>2 DEF Answer
    <2> QED BY <2>1, <2>2
<1> HIDE DEF all
<1>11. GridHeld'
    <2> SUFFICES ASSUME pageOf = "grid" PROVE GridHeld' BY DEF GridHeld
    <2>1. flights[c].by = sought BY <1>1 DEF GridHeld
    <2>2. moves = 0 => \A d \in Flying : Answer(d, Listed)'
        BY <1>1, <1>10, <2>1 DEF GridHeld
    <2>3. \A d \in Flying : flights'[d].rows # NotRead => IsInjective(flights'[d].rows)
        <3> SUFFICES ASSUME NEW d \in Flying, flights'[d].rows # NotRead
                     PROVE IsInjective(flights'[d].rows)
            OBVIOUS
        <3>1. CASE d = c BY <1>1, <1>6, <3>1 DEF GridHeld, all
        <3>2. CASE d # c BY <1>1, <1>4, <3>2 DEF GridHeld
        <3> QED BY <3>1, <3>2
    <2> QED BY <1>1, <1>3, <1>4, <1>8, <2>2, <2>3 DEF GridHeld, LastOf
<1>12. CalmHeld'
    <2> SUFFICES ASSUME pageManner = "calm", errors = 0, moves = 0 PROVE CalmHeld'
        BY DEF CalmHeld
    <2>1. \A d \in Flying : Answer(d, Listed)' BY <1>1, <1>10 DEF CalmHeld
    <2>2. ShowsAsked => ShowsAsked' BY <1>8 DEF ShowsAsked, LastOf
    <2> QED BY <1>1, <1>3, <1>4, <2>1, <2>2 DEF CalmHeld
<1>13. Unmixed' BY <1>1, <1>3, <1>4 DEF Unmixed
<1> QED BY <1>7, <1>11, <1>12, <1>13 DEF PagesInv

\* The rows of a page are read.
LEMMA ReadRowsKept == ASSUME NEW c \in PageCalls, PagesInv, ReadRows(c) PROVE PagesInv'
<1> DEFINE all == ListFor(pageOf, shelf, flights[c].by)
           rows == Slice(all, flights[c].page)
<1>1. PagesTyped BY DEF PagesInv
<1>2. c \in Flying BY DEF ReadRows, Flying
<1>3. flights[c] \in PageCall /\ flights[c].page \in Nat \ {0} BY <1>1, <1>2, FlyingType
<1>4. all \in Seq(Wares) BY <1>1, ListForType DEF PagesTyped, PageTypeOK
<1>5. rows \in Seq(Wares) BY <1>3, <1>4, SliceType
<1>6. PagesFor(Len(all)) \in Nat BY <1>4, PagesReach
<1>7. flights' = [flights EXCEPT ![c].rows = rows,
                     ![c].count = IF pageOf = "discounts" THEN PagesFor(Len(all)) ELSE @]
    BY DEF ReadRows
<1> HIDE DEF all, rows
<1>8. /\ flights' \in [PageCalls -> PageCall]
      /\ \A d \in PageCalls : d # c => flights'[d] = flights[d]
      /\ flights'[c].adds = flights[c].adds /\ flights'[c].by = flights[c].by
      /\ flights'[c].page = flights[c].page /\ flights'[c].rows = rows
      /\ flights'[c].count \in {flights[c].count, PagesFor(Len(all))}
    BY <1>1, <1>3, <1>5, <1>6, <1>7 DEF PagesTyped, PageCall
<1> QED BY <1>2, <1>8, CallReads DEF ReadRows, all, rows

\* The rows of a list are counted.
LEMMA CountRowsKept == ASSUME NEW c \in PageCalls, PagesInv, CountRows(c) PROVE PagesInv'
<1> DEFINE all == ListFor(pageOf, shelf, flights[c].by)
<1>1. PagesTyped BY DEF PagesInv
<1>2. c \in Flying BY DEF CountRows, Flying
<1>3. flights[c] \in PageCall BY <1>1, <1>2, FlyingType
<1>4. all \in Seq(Wares) BY <1>1, ListForType DEF PagesTyped, PageTypeOK
<1>5. PagesFor(Len(all)) \in Nat BY <1>4, PagesReach
<1>6. flights' = [flights EXCEPT ![c].count = PagesFor(Len(all))] BY DEF CountRows
<1> HIDE DEF all
<1>7. /\ flights' \in [PageCalls -> PageCall]
      /\ \A d \in PageCalls : d # c => flights'[d] = flights[d]
      /\ flights'[c].adds = flights[c].adds /\ flights'[c].by = flights[c].by
      /\ flights'[c].page = flights[c].page /\ flights'[c].rows = flights[c].rows
      /\ flights'[c].count = PagesFor(Len(all))
    BY <1>1, <1>3, <1>5, <1>6 DEF PagesTyped, PageCall
<1> QED BY <1>2, <1>7, CallReads DEF CountRows, all

\* What the grid adds is the next page, when it shows the pages before.
LEMMA GridAdds ==
    ASSUME NEW l \in Seq(Wares), IsInjective(l), NEW k \in Nat, k < PagesFor(Len(l)),
           shown = SubSeq(l, 1, LastOf(l, k))
    PROVE shown \o Sifted(Slice(l, k + 1), Wares \ ToSet(shown)) = SubSeq(l, 1, LastOf(l, k + 1))
<1>1. Len(l) \in Nat OBVIOUS
<1>2. k * PageSize <= Len(l) BY <1>1, PagesReach
<1>3. /\ shown \o Slice(l, k + 1) = SubSeq(l, 1, LastOf(l, k + 1))
      /\ Slice(l, k + 1) \in Seq(Wares)
      /\ ToSet(shown) \cap ToSet(Slice(l, k + 1)) = {}
    BY <1>2, SliceJoins
<1>4. ToSet(Slice(l, k + 1)) \subseteq Wares
    <2> DEFINE r == Slice(l, k + 1)
    <2>1. \A i \in DOMAIN r : r[i] \in Wares
        <3> HIDE DEF r
        <3> QED BY <1>3 DEF r
    <2> QED BY <2>1 DEF ToSet
<1>5. Sifted(Slice(l, k + 1), Wares \ ToSet(shown)) = Slice(l, k + 1)
    BY <1>3, <1>4, SiftedAll
<1> QED BY <1>3, <1>5

\* An answer is taken: what it adds continues what is shown, what replaces it is what is
\* asked for.
LEMMA PageArrivesKept == ASSUME NEW c \in PageCalls, PagesInv, PageArrives(c) PROVE PagesInv'
<1> DEFINE call == flights[c]
           rows == IF pageOf = "discounts" THEN Sifted(call.rows, Wares \ Bare) ELSE call.rows
           l == Listed
<1>1. PagesTyped /\ GridHeld /\ CalmHeld /\ Unmixed BY DEF PagesInv
<1>2. /\ c \in Flying /\ call.rows # NotRead /\ call.count # NotCounted
      /\ shown' = (IF call.adds THEN Added(rows) ELSE rows)
      /\ upTo' = call.page /\ ofPages' = call.count
      /\ origins' = (IF call.adds THEN origins \cup {call.by} ELSE {call.by})
      /\ flights' = [flights EXCEPT ![c] = NoPage] /\ busy' = {}
      /\ UNCHANGED <<pageManner, pageOf, shelf, sought, wanted, nAsked, moves, errors,
                     straddled>>
    BY DEF PageArrives, Flying
<1>3. /\ call.rows \in Seq(Wares) /\ call.page \in Nat \ {0} /\ call.by \in Filters
      /\ call.count \in Nat \ {0} /\ call.adds \in BOOLEAN
    BY <1>1, <1>2, FlyingType DEF PageCall, NotCounted
<1>4. Flying' = Flying \ {c} /\ \A d \in Flying' : flights'[d] = flights[d]
    <2>1. flights'[c] = NoPage /\ \A d \in PageCalls : d # c => flights'[d] = flights[d]
        BY <1>1, <1>2 DEF PagesTyped
    <2> QED BY <2>1 DEF Flying
<1>5. l \in Seq(Wares) /\ (pageOf = "grid" => IsInjective(l)) /\ Listed' = l
    <2>1. Listed' = Listed BY <1>2 DEF Listed, ListFor
    <2> QED BY <1>1, <2>1, ListedType
<1>6. rows \in Seq(Wares) BY <1>3, SiftedElements
<1> HIDE DEF l, rows
<1>7. shown \in Seq(Wares) /\ upTo \in Nat BY <1>1 DEF PagesTyped, PageTypeOK
<1>8. Added(rows) \in Seq(Wares)
    <2>1. Sifted(rows, Wares \ ToSet(shown)) \in Seq(Wares) BY <1>6, SiftedElements
    <2> QED BY <1>6, <1>7, <2>1 DEF Added
<1>9. PagesTyped'
    <2>1. NoPage \in PageCall BY DEF NoPage, PageCall, NotCounted
    <2>2. flights' \in [PageCalls -> PageCall] BY <1>1, <1>2, <2>1 DEF PagesTyped
    <2>3. origins' \subseteq Filters BY <1>1, <1>2, <1>3 DEF PagesTyped, PageTypeOK
    <2>4. PageTypeOK' BY <1>1, <1>2, <1>3, <1>6, <1>8, <2>3 DEF PagesTyped, PageTypeOK
    <2> QED BY <1>1, <1>2, <1>3, <1>4, <2>2, <2>4 DEF PagesTyped
<1>10. GridHeld'
    <2> SUFFICES ASSUME pageOf = "grid" PROVE GridHeld' BY <1>2 DEF GridHeld
    <2>1. Flying' = {} /\ call.adds /\ call.by = sought /\ call.page = upTo + 1
          /\ upTo < ofPages /\ IsInjective(call.rows) /\ IsInjective(shown)
        BY <1>1, <1>2, <1>4 DEF GridHeld
    <2>2. rows = call.rows /\ shown' = shown \o Sifted(rows, Wares \ ToSet(shown))
        BY <1>2, <2>1 DEF rows, Added
    <2>3. IsInjective(shown')
        <3>1. /\ Sifted(rows, Wares \ ToSet(shown)) \in Seq(Wares)
              /\ ToSet(Sifted(rows, Wares \ ToSet(shown))) = ToSet(rows) \cap (Wares \ ToSet(shown))
              /\ IsInjective(Sifted(rows, Wares \ ToSet(shown)))
            BY <1>6, <2>1, <2>2, SiftedElements
        <3>2. ToSet(shown) \cap ToSet(Sifted(rows, Wares \ ToSet(shown))) = {} BY <3>1
        <3> QED BY <1>7, <2>1, <2>2, <3>1, <3>2, JoinedElements
    <2>4. ASSUME moves = 0
          PROVE /\ ofPages' = PagesFor(Len(l)) /\ upTo' <= ofPages'
                /\ shown' = SubSeq(l, 1, LastOf(l, upTo'))
        <3>1. /\ ofPages = PagesFor(Len(l)) /\ shown = SubSeq(l, 1, LastOf(l, upTo))
              /\ call.rows = Slice(l, upTo + 1) /\ call.count = PagesFor(Len(l))
            BY <1>1, <1>2, <2>1, <2>4 DEF GridHeld, Answer, l
        <3>2. shown' = SubSeq(l, 1, LastOf(l, upTo + 1))
            BY <1>5, <1>7, <2>1, <2>2, <3>1, GridAdds
        <3>3. PagesFor(Len(l)) \in Nat BY <1>3, <3>1
        <3> QED BY <1>2, <1>7, <2>1, <3>1, <3>2, <3>3
    <2> QED BY <1>2, <1>5, <2>1, <2>3, <2>4 DEF GridHeld, LastOf
<1>11. CalmHeld'
    <2> SUFFICES ASSUME pageManner = "calm", errors = 0, moves = 0 PROVE CalmHeld'
        BY <1>2 DEF CalmHeld
    <2>1. Flying' = {} /\ \A d \in Flying : d = c BY <1>1, <1>2, <1>4 DEF CalmHeld
    <2>2. call.by = sought /\ call.rows = Slice(l, call.page) /\ call.count = PagesFor(Len(l))
        BY <1>1, <1>2 DEF CalmHeld, Answer, l
    <2>3. ofPages' = PagesFor(Len(l)) /\ origins' # {} BY <1>2, <2>2
    <2>4. ShowsAsked'
        <3>1. CASE ~call.adds
            <4>1. call.page = IF pageOf = "category" THEN wanted ELSE 1
                BY <1>1, <1>2, <3>1 DEF CalmHeld
            <4>2. shown' = rows BY <1>2, <3>1
            <4>3. Slice(l, 1) = SubSeq(l, 1, LastOf(l, 1))
                <5>1. 1 \in Nat \ {0} OBVIOUS
                <5> QED BY <1>5, <5>1, SliceType
            <4>4. CASE pageOf = "category"
                <5>1. shown' = Slice(l, wanted) BY <2>2, <4>1, <4>2, <4>4 DEF rows
                <5> QED BY <1>2, <1>5, <2>3, <4>4, <5>1 DEF ShowsAsked
            <4>5. CASE pageOf # "category"
                <5>1. call.rows = SubSeq(l, 1, LastOf(l, 1)) /\ upTo' = 1
                    BY <1>2, <2>2, <4>1, <4>3, <4>5
                <5>2. CASE pageOf = "discounts"
                    <6>1. shown' = Sifted(SubSeq(l, 1, LastOf(l, 1)), Wares \ Bare)
                        BY <4>2, <5>1, <5>2 DEF rows
                    <6> QED BY <1>2, <1>5, <2>3, <5>1, <5>2, <6>1 DEF ShowsAsked, LastOf
                <5>3. CASE pageOf # "discounts"
                    <6>1. shown' = SubSeq(l, 1, LastOf(l, 1)) BY <4>2, <5>1, <5>3 DEF rows
                    <6> QED BY <1>2, <1>5, <2>3, <4>5, <5>1, <5>3, <6>1 DEF ShowsAsked, LastOf
                <5> QED BY <5>2, <5>3
            <4> QED BY <4>4, <4>5
        <3>2. CASE call.adds
            <4>1. /\ pageOf \in {"grid", "store", "discounts"} /\ call.page = upTo + 1
                  /\ upTo < ofPages /\ origins # {}
                BY <1>1, <1>2, <3>2 DEF CalmHeld
            <4>2. ShowsAsked BY <1>1, <2>1, <3>2, <4>1 DEF CalmHeld
            <4>3. upTo < PagesFor(Len(l)) BY <4>1, <4>2 DEF ShowsAsked, l
            <4>4. upTo * PageSize <= Len(l) BY <1>5, <1>7, <4>3, PagesReach
            <4>5. /\ SubSeq(l, 1, LastOf(l, upTo)) \o call.rows = SubSeq(l, 1, LastOf(l, upTo + 1))
                  /\ call.rows \in Seq(Wares)
                BY <1>5, <1>7, <2>2, <4>1, <4>4, SliceJoins
            <4>6. shown' = Added(rows) /\ upTo' = upTo + 1 BY <1>2, <3>2, <4>1
            <4>7. CASE pageOf = "grid"
                <5>1. shown = SubSeq(l, 1, LastOf(l, upTo)) BY <4>2, <4>7 DEF ShowsAsked, l
                <5>2. shown' = shown \o Sifted(Slice(l, upTo + 1), Wares \ ToSet(shown))
                    BY <2>2, <4>1, <4>6, <4>7 DEF Added, rows
                <5>3. shown' = SubSeq(l, 1, LastOf(l, upTo + 1))
                    BY <1>5, <1>7, <4>3, <4>7, <5>1, <5>2, GridAdds
                <5> QED BY <1>2, <1>5, <2>3, <4>6, <4>7, <5>3 DEF ShowsAsked, LastOf
            <4>8. CASE pageOf = "store"
                <5>1. shown = SubSeq(l, 1, LastOf(l, upTo)) BY <4>2, <4>8 DEF ShowsAsked, l
                <5>2. shown' = SubSeq(l, 1, LastOf(l, upTo + 1))
                    BY <4>5, <4>6, <4>8, <5>1 DEF Added, rows
                <5> QED BY <1>2, <1>5, <2>3, <4>6, <4>8, <5>2 DEF ShowsAsked, LastOf
            <4>9. CASE pageOf = "discounts"
                <5>1. shown = Sifted(SubSeq(l, 1, LastOf(l, upTo)), Wares \ Bare)
                    BY <4>2, <4>9 DEF ShowsAsked, l
                <5>2. shown' = shown \o Sifted(call.rows, Wares \ Bare)
                    BY <4>6, <4>9 DEF Added, rows
                <5>3. SubSeq(l, 1, LastOf(l, upTo)) \in Seq(Wares)
                    <6>1. LastOf(l, upTo) \in 0 .. Len(l) BY <1>5, <1>7, LastOfType
                    <6> QED BY <1>5, <6>1
                <5>4. shown' = Sifted(SubSeq(l, 1, LastOf(l, upTo + 1)), Wares \ Bare)
                    BY <4>5, <5>1, <5>2, <5>3, SiftedJoined
                <5> QED BY <1>2, <1>5, <2>3, <4>6, <4>9, <5>4 DEF ShowsAsked, LastOf
            <4> QED BY <4>1, <4>7, <4>8, <4>9
        <3> QED BY <3>1, <3>2
    <2> QED BY <2>1, <2>3, <2>4 DEF CalmHeld
<1>12. Unmixed'
    <2>1. pageOf \in {"grid", "category"} =>
              origins' \subseteq {sought} /\ \A d \in Flying' : flights'[d].by = sought
        BY <1>1, <1>2, <1>4 DEF Unmixed
    <2>2. ASSUME ~straddled
          PROVE /\ \A d \in Flying' : flights'[d].by = sought
                /\ \A d, e \in Flying' : flights'[d].adds = flights'[e].adds
                /\ origins' \subseteq {sought}
        <3>1. call.by = sought BY <1>1, <1>2, <2>2 DEF Unmixed
        <3>2. call.adds => origins \subseteq {sought}
            <4> SUFFICES ASSUME call.adds PROVE origins \subseteq {sought} OBVIOUS
            <4>1. \A d \in Flying : flights[d].adds BY <1>1, <1>2, <2>2 DEF Unmixed
            <4> QED BY <1>1, <2>2, <4>1 DEF Unmixed
        <3> QED BY <1>1, <1>2, <1>4, <2>2, <3>1, <3>2 DEF Unmixed
    <2> QED BY <1>2, <2>1, <2>2 DEF Unmixed
<1> QED BY <1>9, <1>10, <1>11, <1>12 DEF PagesInv

\* The sentinel of the grid asks for the next page.
LEMMA LoadNextKept == ASSUME PagesInv, LoadNext PROVE PagesInv'
BY AskedNext DEF LoadNext

\* A button asks for the next page.
LEMMA LoadMoreKept == ASSUME PagesInv, LoadMore PROVE PagesInv'
BY AskedNext DEF LoadMore

\* Another filter is chosen.
LEMMA ChooseKept == ASSUME NEW f \in Filters, PagesInv, Choose(f) PROVE PagesInv'
<1>1. wanted \in Nat \ {0} BY DEF PagesInv, PagesTyped, PageTypeOK
<1>2. 1 \in Nat \ {0} OBVIOUS
<1>3. /\ pageOf \in {"store", "discounts", "search"} /\ sought' = f /\ Asks(FALSE, f, 1)
      /\ UNCHANGED <<pageManner, pageOf, shelf, wanted, shown, upTo, ofPages, moves, errors,
                     origins>>
    BY DEF Choose
<1> QED BY <1>1, <1>2, <1>3, AskedWhole

\* A category is turned to another page.
LEMMA TurnKept ==
    ASSUME NEW n \in {wanted - 1, wanted + 1}, PagesInv, Turn(n) PROVE PagesInv'
<1>1. wanted \in Nat \ {0} /\ sought \in Filters BY DEF PagesInv, PagesTyped, PageTypeOK
<1>2. n \in Nat \ {0} BY <1>1 DEF Turn
<1>3. /\ pageOf = "category" /\ wanted' = n /\ Asks(FALSE, sought, n)
      /\ UNCHANGED <<pageManner, pageOf, shelf, sought, shown, upTo, ofPages, moves, errors,
                     origins>>
    BY DEF Turn
<1> QED BY <1>1, <1>2, <1>3, AskedWhole

\* A call fails, and what is shown stays or is emptied.
LEMMA PageFailsKept == ASSUME NEW c \in PageCalls, PagesInv, PageFails(c) PROVE PagesInv'
<1>1. PagesTyped /\ GridHeld /\ CalmHeld /\ Unmixed BY DEF PagesInv
<1>2. /\ c \in Flying /\ errors < MaxErrors /\ errors' = errors + 1
      /\ flights' = [flights EXCEPT ![c] = NoPage] /\ busy' = {}
      /\ UNCHANGED <<pageManner, pageOf, shelf, sought, wanted, upTo, ofPages, nAsked, moves,
                     straddled>>
    BY DEF PageFails, Flying
<1>3. IF pageOf = "category" \/ flights[c].adds THEN shown' = shown /\ origins' = origins
      ELSE shown' = <<>> /\ origins' = {}
    BY DEF PageFails
<1>4. Flying' = Flying \ {c} /\ \A d \in Flying' : flights'[d] = flights[d]
    <2>1. flights'[c] = NoPage /\ \A d \in PageCalls : d # c => flights'[d] = flights[d]
        BY <1>1, <1>2 DEF PagesTyped
    <2> QED BY <2>1 DEF Flying
<1>5. errors' \in 0 .. MaxErrors /\ errors' # 0
    BY <1>1, <1>2, PageConstants DEF PagesTyped, PageTypeOK
<1>6. PagesTyped'
    <2>1. NoPage \in PageCall BY DEF NoPage, PageCall, NotCounted
    <2>2. flights' \in [PageCalls -> PageCall] BY <1>1, <1>2, <2>1 DEF PagesTyped
    <2>3. shown' \in Seq(Wares) /\ origins' \subseteq Filters
        <3>1. shown \in Seq(Wares) /\ origins \subseteq Filters
            BY <1>1 DEF PagesTyped, PageTypeOK
        <3>2. <<>> \in Seq(Wares) OBVIOUS
        <3> QED BY <1>3, <3>1, <3>2
    <2>4. PageTypeOK' BY <1>1, <1>2, <1>5, <2>3 DEF PagesTyped, PageTypeOK
    <2> QED BY <1>1, <1>2, <1>4, <2>2, <2>4 DEF PagesTyped
<1>7. Listed' = Listed BY <1>2 DEF Listed, ListFor
<1>8. GridHeld'
    <2> SUFFICES ASSUME pageOf = "grid" PROVE GridHeld' BY <1>2 DEF GridHeld
    <2>1. Flying' = {} /\ shown' = shown BY <1>1, <1>2, <1>3, <1>4 DEF GridHeld
    <2> QED BY <1>1, <1>2, <1>7, <2>1 DEF GridHeld, LastOf
<1>9. CalmHeld' BY <1>5 DEF CalmHeld
<1>10. Unmixed'
    <2>1. origins' \subseteq origins /\ (pageOf # "category" /\ ~flights[c].adds => origins' = {})
        BY <1>3
    <2>2. pageOf \in {"grid", "category"} =>
              origins' \subseteq {sought} /\ \A d \in Flying' : flights'[d].by = sought
        BY <1>1, <1>4, <2>1 DEF Unmixed
    <2>3. ASSUME ~straddled
          PROVE /\ \A d \in Flying' : flights'[d].by = sought
                /\ \A d, e \in Flying' : flights'[d].adds = flights'[e].adds
                /\ \A f, g \in origins' : f = g
                /\ origins' \subseteq {sought}
        <3>1. flights[c].adds => origins \subseteq {sought}
            <4> SUFFICES ASSUME flights[c].adds PROVE origins \subseteq {sought} OBVIOUS
            <4>1. \A d \in Flying : flights[d].adds BY <1>1, <1>2, <2>3 DEF Unmixed
            <4> QED BY <1>1, <2>3, <4>1 DEF Unmixed
        <3>2. pageOf = "category" => origins \subseteq {sought} BY <1>1 DEF Unmixed
        <3>3. origins' \subseteq {sought} BY <2>1, <3>1, <3>2
        <3> QED BY <1>1, <1>4, <2>3, <3>3 DEF Unmixed
    <2> QED BY <1>2, <2>2, <2>3 DEF Unmixed
<1> QED BY <1>6, <1>8, <1>9, <1>10 DEF PagesInv

\* The first page of a list, as it comes with the page.
LEMMA FirstPage ==
    ASSUME NEW v, NEW f
    PROVE LET all == ListFor(v, Opening, f) IN
            /\ all \in Seq(Wares) /\ Slice(all, 1) \in Seq(Wares)
            /\ Slice(all, 1) = SubSeq(all, 1, LastOf(all, 1))
            /\ PagesFor(Len(all)) \in Nat \ {0}
            /\ v = "grid" => IsInjective(Slice(all, 1))
<1> DEFINE all == ListFor(v, Opening, f)
<1>1. all \in Seq(Wares) /\ (v = "grid" => IsInjective(all)) BY PageConstants, ListForType
<1>2. 1 \in Nat \ {0} OBVIOUS
<1> HIDE DEF all
<1>3. Len(all) \in Nat BY <1>1
<1>4. PagesFor(Len(all)) \in Nat \ {0} BY <1>3, PagesReach
<1>5. /\ Slice(all, 1) \in Seq(Wares) /\ Slice(all, 1) = SubSeq(all, 1, LastOf(all, 1))
      /\ IsInjective(all) => IsInjective(Slice(all, 1))
    BY <1>1, <1>2, SliceType
<1> QED BY <1>1, <1>4, <1>5 DEF all

\* The grid is mounted again with its first page.
LEMMA RemountKept == ASSUME PagesInv, Remount PROVE PagesInv'
<1> DEFINE all == ListFor(pageOf, Opening, sought)
<1>1. PagesTyped /\ GridHeld /\ CalmHeld /\ Unmixed BY DEF PagesInv
<1>2. /\ pageOf = "grid" /\ nAsked < MaxAsked[pageManner] /\ nAsked' = nAsked + 1
      /\ shown' = Slice(all, 1) /\ upTo' = 1 /\ ofPages' = PagesFor(Len(all)) /\ busy' = {}
      /\ flights' = [d \in PageCalls |-> NoPage]
      /\ UNCHANGED <<pageManner, pageOf, shelf, sought, wanted, moves, errors, straddled,
                     origins>>
    BY DEF Remount
<1>3. /\ Slice(all, 1) \in Seq(Wares) /\ Slice(all, 1) = SubSeq(all, 1, LastOf(all, 1))
      /\ PagesFor(Len(all)) \in Nat \ {0} /\ IsInjective(Slice(all, 1))
    BY <1>2, FirstPage
<1>4. moves = 0 => Listed' = all
    BY <1>1, <1>2 DEF PagesTyped, Listed, ListFor
<1> HIDE DEF all
<1>5. Flying' = {} BY <1>2 DEF Flying
<1>6. nAsked' \in 0 .. MaxAsked[pageManner]
    <2>1. MaxAsked[pageManner] \in Nat BY <1>1, AskedBound DEF PagesTyped, PageTypeOK
    <2>2. nAsked \in 0 .. MaxAsked[pageManner] BY <1>1 DEF PagesTyped, PageTypeOK
    <2> QED BY <1>2, <2>1, <2>2
<1>7. PagesTyped'
    <2>1. NoPage \in PageCall BY DEF NoPage, PageCall, NotCounted
    <2>2. flights' \in [PageCalls -> PageCall] BY <1>2, <2>1
    <2>3. shown' \in Seq(Wares) /\ upTo' \in Nat /\ ofPages' \in Nat \ {0} BY <1>2, <1>3
    <2>4. PageTypeOK' BY <1>1, <1>2, <1>6, <2>3 DEF PagesTyped, PageTypeOK
    <2> QED BY <1>1, <1>2, <1>5, <2>2, <2>4 DEF PagesTyped
<1>8. moves = 0 => /\ ofPages' = PagesFor(Len(Listed')) /\ upTo' <= ofPages'
                   /\ shown' = SubSeq(Listed', 1, LastOf(Listed', upTo'))
    <2>1. 1 <= PagesFor(Len(all)) BY <1>3
    <2> QED BY <1>2, <1>3, <1>4, <2>1
<1>9. GridHeld' BY <1>2, <1>3, <1>5, <1>8 DEF GridHeld, LastOf
<1>10. CalmHeld'
    <2> SUFFICES ASSUME pageManner = "calm", errors = 0, moves = 0 PROVE CalmHeld'
        BY <1>2 DEF CalmHeld
    <2>1. PageCalls # {} => origins # {}
        <3>1. CASE Flying = {} BY <1>1, <3>1 DEF CalmHeld
        <3>2. CASE Flying # {}
            <4>1. PICK d \in Flying : TRUE BY <3>2
            <4>2. flights[d].adds BY <1>1, <1>2 DEF GridHeld
            <4> QED BY <1>1, <4>1, <4>2 DEF CalmHeld
        <3> QED BY <3>1, <3>2
    <2>2. ShowsAsked' BY <1>2, <1>8 DEF ShowsAsked, LastOf
    <2> QED BY <1>2, <1>5, <2>1, <2>2 DEF CalmHeld
<1>11. Unmixed' BY <1>1, <1>2, <1>5 DEF Unmixed
<1> QED BY <1>7, <1>9, <1>10, <1>11 DEF PagesInv

\* The catalogue lists a product once, also when one leaves it or comes first.
LEMMA RemovedOnce ==
    ASSUME NEW s \in Seq(Wares), IsInjective(s), NEW i \in 1 .. Len(s)
    PROVE RemoveAt(s, i) \in Seq(Wares) /\ IsInjective(RemoveAt(s, i))
<1> DEFINE l == SubSeq(s, 1, i - 1)
           m == SubSeq(s, 1, i)
           r == SubSeq(s, i + 1, Len(s))
<1>1. i \in 0 .. Len(s) /\ Len(s) \in 0 .. Len(s) /\ i - 1 \in 0 .. Len(s) OBVIOUS
<1>2. l \in Seq(Wares) /\ IsInjective(l) BY <1>1, BeginningOfList
<1>3. r \in Seq(Wares) /\ IsInjective(r) /\ ToSet(m) \cap ToSet(r) = {} BY <1>1, JoinedParts
<1>4. DOMAIN l = 1 .. i - 1 /\ DOMAIN m = 1 .. i /\ \A j \in 1 .. i - 1 : l[j] = m[j]
    OBVIOUS
<1>5. 1 .. i - 1 \subseteq 1 .. i OBVIOUS
<1> HIDE DEF l, m, r
<1>6. ToSet(l) \subseteq ToSet(m) BY <1>4, <1>5 DEF ToSet
<1>7. ToSet(l) \cap ToSet(r) = {} BY <1>3, <1>6
<1>8. \A x, y \in Seq(Wares) : x \o y \in Seq(Wares) OBVIOUS
<1>9. l \o r \in Seq(Wares) /\ IsInjective(l \o r) BY <1>2, <1>3, <1>7, <1>8, JoinedElements
<1> QED BY <1>9 DEF RemoveAt, l, r

\* A product that was not listed comes first.
LEMMA FirstOnce ==
    ASSUME NEW s \in Seq(Wares), IsInjective(s), NEW p \in Wares \ ToSet(s)
    PROVE <<p>> \o s \in Seq(Wares) /\ IsInjective(<<p>> \o s)
<1> DEFINE one == <<p>>
<1>1. one \in Seq(Wares) /\ DOMAIN one = {1} /\ one[1] = p OBVIOUS
<1> HIDE DEF one
<1>2. IsInjective(one) /\ ToSet(one) = {p} BY <1>1 DEF IsInjective, ToSet
<1>3. \A x, y \in Seq(Wares) : x \o y \in Seq(Wares) OBVIOUS
<1>4. one \o s \in Seq(Wares) /\ IsInjective(one \o s) BY <1>1, <1>2, <1>3, JoinedElements
<1> QED BY <1>4 DEF one

\* The catalogue changes under the pages.
LEMMA ShelfMovesKept == ASSUME PagesInv, ShelfMoves PROVE PagesInv'
<1>1. PagesTyped /\ GridHeld /\ CalmHeld /\ Unmixed BY DEF PagesInv
<1>2. shelf \in Seq(Wares) /\ IsInjective(shelf) BY <1>1 DEF PagesTyped, PageTypeOK
<1>3. /\ moves < MaxMoves /\ moves' = moves + 1
      /\ \/ \E i \in 1 .. Len(shelf) : shelf' = RemoveAt(shelf, i)
         \/ \E p \in Wares \ ToSet(shelf) : shelf' = <<p>> \o shelf
      /\ UNCHANGED <<pageManner, pageOf, sought, wanted, shown, upTo, ofPages, busy, flights,
                     nAsked, errors, straddled, origins>>
    BY DEF ShelfMoves
<1>4. moves' \in 0 .. MaxMoves /\ moves' # 0
    BY <1>1, <1>3, PageConstants DEF PagesTyped, PageTypeOK
<1>5. shelf' \in Seq(Wares) /\ IsInjective(shelf') BY <1>2, <1>3, RemovedOnce, FirstOnce
<1>6. Flying' = Flying BY <1>3 DEF Flying
<1>7. PagesTyped'
    <2>1. PageTypeOK' BY <1>1, <1>3, <1>4, <1>5 DEF PagesTyped, PageTypeOK
    <2> QED BY <1>1, <1>3, <1>4, <1>5, <1>6, <2>1 DEF PagesTyped
<1>8. GridHeld' BY <1>1, <1>3, <1>4, <1>6 DEF GridHeld
<1>9. CalmHeld' BY <1>4 DEF CalmHeld
<1>10. Unmixed' BY <1>1, <1>3, <1>6 DEF Unmixed
<1> QED BY <1>7, <1>8, <1>9, <1>10 DEF PagesInv

-----------------------------------------------------------------------------
(* The theorem *)

\* The pages that come with their list, and those that ask for it.
LEMMA PagesBegin == PagesInit => PagesInv
<1> SUFFICES ASSUME PagesInit PROVE PagesInv OBVIOUS
<1> DEFINE all == ListFor(pageOf, shelf, sought)
<1>1. /\ pageManner \in PageManners /\ pageOf \in PageViews /\ shelf = Opening
      /\ sought \in Filters /\ wanted = 1 /\ upTo = 1 /\ nAsked = 0 /\ moves = 0 /\ errors = 0
      /\ straddled = FALSE
    BY DEF PagesInit
<1>2. /\ Slice(all, 1) \in Seq(Wares) /\ Slice(all, 1) = SubSeq(all, 1, LastOf(all, 1))
      /\ PagesFor(Len(all)) \in Nat \ {0} /\ (pageOf = "grid" => IsInjective(Slice(all, 1)))
    BY <1>1, FirstPage
<1>3. Listed = all BY DEF Listed
<1>4. MaxAsked[pageManner] \in Nat BY <1>1, AskedBound
<1>5. 0 \in 0 .. MaxMoves /\ 0 \in 0 .. MaxErrors /\ 0 \in 0 .. MaxAsked[pageManner]
    BY <1>4, PageConstants
<1>6. straddled \in BOOLEAN /\ upTo # 0 /\ (moves = 0 => shelf = Opening)
    <2>1. straddled = FALSE BY DEF PagesInit
    <2>2. straddled \in BOOLEAN BY <2>1
    <2> QED BY <1>1, <2>2
<1>7. CASE pageOf \in Prerendered
    <2>1. /\ shown = Slice(all, 1) /\ ofPages = PagesFor(Len(all)) /\ busy = {}
          /\ flights = [c \in PageCalls |-> NoPage] /\ origins = {sought}
        BY <1>7 DEF PagesInit
    <2> HIDE DEF all
    <2>2. Flying = {} BY <2>1 DEF Flying
    <2>3. NoPage \in PageCall BY DEF NoPage, PageCall, NotCounted
    <2>4. flights \in [PageCalls -> PageCall] BY <2>1, <2>3
    <2>5. PageTypeOK
        <3>1. shelf \in Seq(Wares) /\ shown \in Seq(Wares) /\ ofPages \in Nat \ {0}
            BY <1>1, <1>2, <2>1, PageConstants
        <3> QED BY <1>1, <1>5, <2>1, <3>1 DEF PageTypeOK
    <2>6. PagesTyped
        <3>1. IsInjective(shelf) BY <1>1, PageConstants
        <3> QED BY <1>6, <2>2, <2>4, <2>5, <3>1 DEF PagesTyped
    <2>7. ofPages = PagesFor(Len(Listed)) /\ upTo <= ofPages
          /\ shown = SubSeq(Listed, 1, LastOf(Listed, upTo))
        BY <1>1, <1>2, <1>3, <2>1
    <2>8. GridHeld BY <1>2, <2>1, <2>2, <2>7 DEF GridHeld
    <2>9. ShowsAsked BY <1>7, <2>7 DEF ShowsAsked, Prerendered
    <2>10. CalmHeld BY <2>1, <2>2, <2>9 DEF CalmHeld
    <2>11. Unmixed BY <2>1, <2>2 DEF Unmixed
    <2> QED BY <2>6, <2>8, <2>10, <2>11 DEF PagesInv
<1>8. CASE pageOf \notin Prerendered
    <2> HIDE DEF all
    <2> DEFINE first == [NoPage EXCEPT !.by = sought, !.page = 1]
    <2>1. /\ shown = <<>> /\ ofPages = 1 /\ busy = {"whole"} /\ origins = {}
          /\ flights = [c \in PageCalls |-> IF \A d \in PageCalls : c <= d THEN first ELSE NoPage]
        BY <1>8 DEF PagesInit
    <2>2. /\ ~first.adds /\ first.adds \in BOOLEAN /\ first.by = sought /\ first.page = 1
          /\ first.rows = NotRead /\ first.count = NotCounted
          /\ first \in PageCall /\ NoPage \in PageCall /\ NoPage.page = 0
        BY <1>1 DEF NoPage, NotCounted, PageCall
    <2> HIDE DEF first
    <2>3. first # NoPage BY <2>2
    <2>4. flights \in [PageCalls -> PageCall] BY <2>1, <2>2
    <2>5. \A c \in Flying : /\ c \in PageCalls /\ flights[c] = first
                            /\ \A d \in PageCalls : c <= d
        BY <2>1, <2>3 DEF Flying
    <2>6. \A c, d \in Flying : c = d
        <3>1. \A c, d \in Flying : c \in Nat /\ d \in Nat /\ c <= d /\ d <= c
            BY <2>5, PageConstants
        <3> QED BY <3>1
    <2>7. PageCalls # {} => Flying # {}
        <3> SUFFICES ASSUME PageCalls # {} PROVE Flying # {} OBVIOUS
        <3>1. PICK c \in PageCalls : \A d \in PageCalls : c <= d
            BY LeastNatural, PageConstants
        <3>2. flights[c] = first BY <2>1, <3>1
        <3> QED BY <2>3, <3>2 DEF Flying
    <2>8. PageTypeOK
        <3>1. <<>> \in Seq(Wares) /\ 1 \in Nat \ {0} OBVIOUS
        <3> QED BY <1>1, <1>5, <2>1, <3>1, PageConstants DEF PageTypeOK
    <2>9. PagesTyped
        <3>1. IsInjective(shelf) BY <1>1, PageConstants
        <3>2. \A c \in Flying : flights[c].page # 0 /\ flights[c].by \in Filters
            BY <1>1, <2>2, <2>5
        <3> QED BY <1>6, <2>4, <2>8, <3>1, <3>2 DEF PagesTyped
    <2>10. GridHeld BY <1>8 DEF GridHeld, Prerendered
    <2>11. CalmHeld
        <3>1. \A c \in Flying : ~flights[c].adds /\ Answer(c, Listed)
            BY <2>2, <2>5 DEF Answer
        <3>2. \A c \in Flying : flights[c].by = sought /\ flights[c].page = 1
            BY <2>2, <2>5
        <3> QED BY <1>1, <2>1, <2>6, <2>7, <3>1, <3>2 DEF CalmHeld
    <2>12. Unmixed BY <2>1, <2>2, <2>5 DEF Unmixed
    <2> QED BY <2>9, <2>10, <2>11, <2>12 DEF PagesInv
<1> QED BY <1>7, <1>8

\* Every step of the pages keeps the invariant.
LEMMA PagesStep == PagesInv /\ [PagesNext]_pageVars => PagesInv'
<1> SUFFICES ASSUME PagesInv, [PagesNext]_pageVars PROVE PagesInv' OBVIOUS
<1>1. CASE LoadNext BY <1>1, LoadNextKept
<1>2. CASE LoadMore BY <1>2, LoadMoreKept
<1>3. CASE Remount BY <1>3, RemountKept
<1>4. CASE ShelfMoves BY <1>4, ShelfMovesKept
<1>5. CASE \E f \in Filters : Choose(f) BY <1>5, ChooseKept
<1>6. CASE \E n \in {wanted - 1, wanted + 1} : Turn(n) BY <1>6, TurnKept
<1>7. CASE \E c \in PageCalls : ReadRows(c) BY <1>7, ReadRowsKept
<1>8. CASE \E c \in PageCalls : CountRows(c) BY <1>8, CountRowsKept
<1>9. CASE \E c \in PageCalls : PageArrives(c) BY <1>9, PageArrivesKept
<1>10. CASE \E c \in PageCalls : PageFails(c) BY <1>10, PageFailsKept
<1>11. CASE UNCHANGED pageVars
    <2>1. Flying' = Flying /\ Listed' = Listed BY <1>11 DEF pageVars, Flying, Listed, ListFor
    <2>2. PagesTyped' BY <1>11, <2>1 DEF PagesInv, PagesTyped, PageTypeOK, pageVars
    <2>3. GridHeld' BY <1>11, <2>1 DEF PagesInv, GridHeld, Answer, LastOf, pageVars
    <2>4. ShowsAsked => ShowsAsked' BY <1>11, <2>1 DEF ShowsAsked, LastOf, pageVars
    <2>5. CalmHeld' BY <1>11, <2>1, <2>4 DEF PagesInv, CalmHeld, Answer, pageVars
    <2>6. Unmixed' BY <1>11, <2>1 DEF PagesInv, Unmixed, pageVars
    <2> QED BY <2>2, <2>3, <2>5, <2>6 DEF PagesInv
<1> QED BY <1>1, <1>2, <1>3, <1>4, <1>5, <1>6, <1>7, <1>8, <1>9, <1>10, <1>11 DEF PagesNext

\* The invariant says what the property asks.
LEMMA PagesImplied == PagesInv => PagesSound
<1> SUFFICES ASSUME PagesInv PROVE PagesSound OBVIOUS
<1>1. PagesTyped /\ GridHeld /\ CalmHeld /\ Unmixed BY DEF PagesInv
<1>2. Listed \in Seq(Wares) /\ upTo \in Nat BY <1>1, ListedType DEF PagesTyped, PageTypeOK
<1>3. GridWithoutTwins BY <1>1 DEF GridHeld, GridWithoutTwins
<1>4. GridIsWhole
    <2> SUFFICES ASSUME pageOf = "grid", moves = 0
                 PROVE /\ shown = SubSeq(Fitting(shelf, sought), 1, Len(shown))
                       /\ upTo < ofPages => Len(shown) = upTo * PageSize
                       /\ upTo = ofPages => shown = Fitting(shelf, sought)
        BY DEF GridIsWhole
    <2> DEFINE l == Listed
               m == LastOf(l, upTo)
    <2>1. l = Fitting(shelf, sought) BY DEF Listed, ListFor
    <2>2. ofPages = PagesFor(Len(l)) /\ shown = SubSeq(l, 1, m) BY <1>1 DEF GridHeld
    <2>3. /\ m \in 0 .. Len(l)
          /\ upTo * PageSize <= Len(l) => m = upTo * PageSize
          /\ LastOf(l, PagesFor(Len(l))) = Len(l)
        BY <1>2, LastOfType
    <2>4. upTo < ofPages => upTo * PageSize <= Len(l)
        <3>1. Len(l) \in Nat BY <1>2
        <3> QED BY <1>2, <2>2, <3>1, PagesReach
    <2>5. upTo = ofPages => m = Len(l) BY <2>2, <2>3
    <2>6. l \in Seq(Wares) BY <1>2
    <2> HIDE DEF l, m
    <2>7. Len(SubSeq(l, 1, m)) = m /\ (m = Len(l) => SubSeq(l, 1, m) = l) BY <2>3, <2>6
    <2> QED BY <2>1, <2>2, <2>3, <2>4, <2>5, <2>7
<1>5. CalmShowsAsked
    <2> SUFFICES ASSUME pageManner = "calm", errors = 0, moves = 0, Flying = {}, origins # {}
                 PROVE CalmShowsAsked
        BY DEF CalmShowsAsked
    <2>1. ShowsAsked BY <1>1 DEF CalmHeld
    <2> QED BY <2>1 DEF CalmShowsAsked, ShowsAsked, Listed, LastOf
<1>6. \A S : (\A x, y \in S : x = y) => Cardinality(S) <= 1
    <2> SUFFICES ASSUME NEW S, \A x, y \in S : x = y PROVE Cardinality(S) <= 1 OBVIOUS
    <2>1. CASE S = {} BY <2>1, FS_EmptySet
    <2>2. CASE S # {}
        <3>1. PICK x \in S : TRUE BY <2>2
        <3>2. S = {x} BY <3>1
        <3> QED BY <3>2, FS_Singleton
    <2> QED BY <2>1, <2>2
<1>7. MixNeedsStraddle
    <2>1. ~straddled => \A f, g \in origins : f = g BY <1>1 DEF Unmixed
    <2> QED BY <1>6, <2>1 DEF MixNeedsStraddle
<1>8. GridOneCall
    <2>1. pageOf = "grid" => \A c, d \in Flying : c = d BY <1>1 DEF GridHeld
    <2>2. pageOf = "grid" => (busy = {} <=> Flying = {}) BY <1>1 DEF GridHeld
    <2> QED BY <1>6, <2>1, <2>2 DEF GridOneCall
<1> QED BY <1>1, <1>3, <1>4, <1>5, <1>7, <1>8 DEF PagesSound, PagesTyped

\* The lists a visitor pages through show what they say, for every catalogue, page size and
\* order in which their calls are answered: the endless grid shows no product twice and leaves
\* none out, a calm visit holds the pages it asked for, and products of two filters stand in
\* one list only when calls of both were in flight together.
THEOREM PagesAsAsked == PagesSpec => []PagesSound
<1>1. PagesInit => PagesInv BY PagesBegin
<1>2. PagesInv /\ [PagesNext]_pageVars => PagesInv' BY PagesStep
<1>3. PagesInv => PagesSound BY PagesImplied
<1> QED BY <1>1, <1>2, <1>3, PTL DEF PagesSpec


-----------------------------------------------------------------------------
(* The notices of the staff. *)

PushCallTypes == [kind : {"on", "off"}, page : BOOLEAN, on : Devices,
                  step : {"ask", "subscribe", "post", "saved", "find", "delete"},
                  token : People, endpoint : Nat]

\* The steps of turning on and those of turning off; only what a page asks for is shown
\* there, and a row is deleted with a token.
CallMade(k, top) ==
    \/ k = NoCall
    \/ /\ k \in PushCallTypes /\ k.endpoint <= top
       /\ k.kind = "off" <=> k.step \in {"find", "delete"}
       /\ k.kind = "off" /\ k.token = Nobody => ~k.page /\ k.step = "find"

PushTyped ==
    /\ PushTypeOK /\ drops \in Nat
    /\ pushRows \in [Endpoints -> [user : People, number : Nat]]
    /\ pushCall = [c \in PushCalls |-> pushCall[c]]
    /\ \A c \in PushCalls : CallMade(pushCall[c], created)

RunsOn(c, d) == pushCall[c] # NoCall /\ pushCall[c].on = d

OneCallOn(d) == \A b, c \in PushCalls : RunsOn(b, d) /\ RunsOn(c, d) => b = c

\* The one call of a device, if it is no straggler: after a sign-out it is the one that
\* unsubscribes; and what it will show or leave agrees with the preference.
Straight(k, d) ==
    /\ signedIn[d] = Nobody => k.kind = "off" /\ k.token = Nobody
    /\ signedIn[d] # Nobody =>
          /\ k.kind = "on" /\ ~k.page => switch[d] /\ pushPref[d]
          /\ k.kind = "off" /\ k.token = Nobody => switch[d] = pushPref[d]
          /\ k.kind = "off" /\ k.token # Nobody => k.page /\ ~pushPref[d]

StraightOn(d) ==
    d \notin strayed =>
        /\ OneCallOn(d)
        /\ \A c \in PushCalls : RunsOn(c, d) => Straight(pushCall[c], d)
        /\ ~Calling(d) /\ signedIn[d] = Nobody => browserSub[d] = NoEndpoint
        /\ ~Calling(d) /\ signedIn[d] # Nobody => switch[d] = pushPref[d]

Reached(d) == browserSub[d] # NoEndpoint /\ HasRow(browserSub[d])

\* What a call does to the row of its own device.
Careful(k, d) ==
    /\ k.kind = "off" => ~pushPref[d]
    /\ k.step = "find" /\ k.token # Nobody => browserSub[d] # NoEndpoint
    /\ k.step \in {"post", "saved"} =>
          k.token # Nobody /\ k.endpoint # NoEndpoint /\ k.endpoint = browserSub[d]
    /\ k.step = "saved" => Reached(d)

Quiet == pushManner = "serial" /\ drops = 0

ReachedOn(d) ==
    /\ pushManner = "serial" => OneCallOn(d)
    /\ Quiet => /\ d \notin strayed
                /\ pushPref[d] => Reached(d)
                /\ \A c \in PushCalls : RunsOn(c, d) => Careful(pushCall[c], d)

\* A row that is about to be deleted is one that no browser listens to.
DeletesDead ==
    Quiet => \A c \in PushCalls : pushCall[c].step = "delete" =>
                pushCall[c].endpoint # NoEndpoint /\ ~Live(pushCall[c].endpoint)

PushInv ==
    /\ PushTyped /\ DeletesDead
    /\ \A d \in Devices : StraightOn(d) /\ ReachedOn(d)

-----------------------------------------------------------------------------
\* What is assumed of the constants of the notices.
LEMMA PushConstants ==
    /\ MaxEndpoints \in Nat /\ MaxEndpoints # 0
    /\ PushManners \subseteq {"serial", "any"} /\ PushCalls \subseteq Nat
BY PushAssumption, Zenon DEF PushAssumption

\* The kinds of calls, by their steps.
LEMMA StepKinds ==
    ASSUME NEW k, NEW top, CallMade(k, top)
    PROVE /\ k.step # "idle" => k # NoCall
          /\ k # NoCall <=> k.kind # "none"
          /\ k # NoCall => /\ k \in PushCallTypes /\ k.on \in Devices /\ k.token \in People
                           /\ k.page \in BOOLEAN /\ k.endpoint \in Nat /\ k.endpoint <= top
                           /\ k.kind \in {"on", "off"}
                           /\ k.kind = "off" <=> k.step \in {"find", "delete"}
                           /\ k.kind = "off" /\ k.token = Nobody => ~k.page /\ k.step = "find"
          /\ k.page => k # NoCall
BY DEF CallMade, PushCallTypes, NoCall

\* A call goes on or ends: nothing changes in the others.
LEMMA CallGoesOn ==
    ASSUME PushTyped, NEW c \in PushCalls, NEW d \in Devices, RunsOn(c, d), NEW k, created' \in Nat,
           CallMade(k, created'), k # NoCall => k.on = d,
           pushCall' = [pushCall EXCEPT ![c] = k], created <= created'
    PROVE /\ pushCall' = [b \in PushCalls |-> pushCall'[b]]
          /\ pushCall'[c] = k /\ \A b \in PushCalls \ {c} : pushCall'[b] = pushCall[b]
          /\ \A b \in PushCalls : CallMade(pushCall'[b], created')
          /\ \A f \in Devices, b \in PushCalls :
                d # f => (RunsOn(b, f)' <=> RunsOn(b, f)) /\ (RunsOn(b, f) => b # c)
          /\ OneCallOn(d) =>
                /\ OneCallOn(d)'
                /\ \A b \in PushCalls : RunsOn(b, d)' => b = c /\ k # NoCall
<1>1. /\ pushCall' = [b \in PushCalls |-> pushCall'[b]]
      /\ pushCall'[c] = k /\ \A b \in PushCalls \ {c} : pushCall'[b] = pushCall[b]
    BY DEF PushTyped
<1>2. \A b \in PushCalls : CallMade(pushCall'[b], created')
    <2> SUFFICES ASSUME NEW b \in PushCalls PROVE CallMade(pushCall'[b], created') OBVIOUS
    <2>1. CASE b = c BY <1>1, <2>1
    <2>2. CASE b # c
        <3>1. CallMade(pushCall[b], created) BY DEF PushTyped
        <3>2. created \in Nat BY DEF PushTyped, PushTypeOK
        <3> QED BY <1>1, <2>2, <3>1, <3>2 DEF CallMade, PushCallTypes
    <2> QED BY <2>1, <2>2
<1>3. \A f \in Devices, b \in PushCalls :
        d # f => (RunsOn(b, f)' <=> RunsOn(b, f)) /\ (RunsOn(b, f) => b # c)
    BY <1>1 DEF RunsOn
<1>4. ASSUME OneCallOn(d)
      PROVE /\ \A b, e \in PushCalls :
                  pushCall'[b] # NoCall /\ pushCall'[b].on = d /\
                  pushCall'[e] # NoCall /\ pushCall'[e].on = d => b = e
            /\ \A b \in PushCalls :
                  pushCall'[b] # NoCall /\ pushCall'[b].on = d =>
                     b = c /\ k # NoCall
    <2>1. \A b \in PushCalls : RunsOn(b, d) => b = c BY <1>4 DEF OneCallOn
    <2>2. \A b \in PushCalls :
            pushCall'[b] # NoCall /\ pushCall'[b].on = d => b = c /\ k # NoCall
        BY <1>1, <2>1 DEF RunsOn
    <2> QED BY <2>2
<1> QED BY <1>1, <1>2, <1>3, <1>4 DEF RunsOn, OneCallOn

\* A device that a step does not touch keeps what it holds.
LEMMA OtherDevice ==
    ASSUME NEW d \in Devices, StraightOn(d), ReachedOn(d),
           signedIn'[d] = signedIn[d], browserSub'[d] = browserSub[d],
           pushPref'[d] = pushPref[d], switch'[d] = switch[d], d \in strayed' <=> d \in strayed,
           \A c \in PushCalls : RunsOn(c, d)' <=> RunsOn(c, d),
           \A c \in PushCalls : RunsOn(c, d) => pushCall'[c] = pushCall[c],
           pushManner' = pushManner, Quiet' => Quiet,
           Quiet /\ Reached(d) => Reached(d)'
    PROVE StraightOn(d)' /\ ReachedOn(d)'
<1>1. OneCallOn(d)' <=> OneCallOn(d) BY DEF OneCallOn
<1>2. Calling(d)' <=> Calling(d) BY DEF Calling, RunsOn
<1>3. \A c \in PushCalls : RunsOn(c, d) => (Straight(pushCall[c], d)' <=> Straight(pushCall[c], d))
    BY DEF Straight
<1>4. \A c \in PushCalls : Quiet /\ RunsOn(c, d) /\ Careful(pushCall[c], d) => Careful(pushCall[c], d)'
    BY DEF Careful
<1>5. StraightOn(d)' BY <1>1, <1>2, <1>3 DEF StraightOn
<1>6. ReachedOn(d)' BY <1>1, <1>4 DEF ReachedOn
<1> QED BY <1>5, <1>6

\* A call begins: the calls of other devices go on, and on this device it is the only one,
\* or the device is one where calls ran side by side.
LEMMA CallBegins ==
    ASSUME PushTyped, NEW c \in PushCalls, NEW d \in Devices, NEW k, CallMade(k, created),
           k # NoCall, k.on = d, Starts(c, k)
    PROVE /\ pushCall' = [b \in PushCalls |-> pushCall'[b]] /\ pushCall'[c] = k
          /\ \A b \in PushCalls : CallMade(pushCall'[b], created)
          /\ \A f \in Devices \ {d}, b \in PushCalls :
                /\ RunsOn(b, f)' <=> RunsOn(b, f)
                /\ RunsOn(b, f) => pushCall'[b] = pushCall[b]
          /\ \A b \in PushCalls : pushCall'[b].step = "delete" =>
                b = c \/ (pushCall[b].step = "delete" /\ pushCall'[b].endpoint = pushCall[b].endpoint)
          /\ RunsOn(c, d)'
          /\ ~Calling(d) => \A b \in PushCalls : RunsOn(b, d)' => b = c
          /\ pushManner = "serial" => ~Calling(d)
          /\ Calling(d) => strayed' = strayed \cup {d}
          /\ ~Calling(d) => strayed' = IF k.page \/ k.kind = "off" THEN strayed \ {d} ELSE strayed
<1>1. \A b \in PushCalls : CallMade(pushCall[b], created) BY DEF PushTyped
<1>2. \A b \in PushCalls : RunsOn(b, d) => pushCall[b] \in PushCallTypes BY <1>1 DEF RunsOn, CallMade
<1>3. /\ pushCall' = [b \in PushCalls |-> pushCall'[b]] /\ pushCall'[c] = k
      /\ \A b \in PushCalls \ {c} :
            \/ pushCall'[b] = pushCall[b]
            \/ RunsOn(b, d) /\ pushCall'[b] = [pushCall[b] EXCEPT !.page = FALSE]
    BY DEF Starts, PageLeft, PushTyped, RunsOn
<1>4. ASSUME NEW b \in PushCalls, b # c, RunsOn(b, d),
             pushCall'[b] = [pushCall[b] EXCEPT !.page = FALSE]
      PROVE /\ pushCall'[b] # NoCall /\ pushCall'[b].on = d
            /\ CallMade(pushCall'[b], created)
            /\ pushCall'[b].step = pushCall[b].step /\ pushCall'[b].endpoint = pushCall[b].endpoint
    <2>1. pushCall[b] \in PushCallTypes /\ CallMade(pushCall[b], created) BY <1>1, <1>2, <1>4
    <2>2. /\ pushCall'[b] \in PushCallTypes /\ pushCall'[b].on = pushCall[b].on
          /\ pushCall'[b].step = pushCall[b].step /\ pushCall'[b].endpoint = pushCall[b].endpoint
          /\ pushCall'[b].kind = pushCall[b].kind /\ pushCall'[b].token = pushCall[b].token
          /\ pushCall'[b].page = FALSE
        BY <1>4, <2>1 DEF PushCallTypes
    <2>3. pushCall'[b] # NoCall BY <2>2 DEF PushCallTypes, NoCall
    <2>4. pushCall[b] # NoCall BY <1>4 DEF RunsOn
    <2> QED BY <1>4, <2>1, <2>2, <2>3, <2>4 DEF CallMade, RunsOn
<1>5. \A b \in PushCalls : CallMade(pushCall'[b], created) BY <1>1, <1>3, <1>4
<1>6. \A f \in Devices \ {d}, b \in PushCalls :
          /\ RunsOn(b, f)' <=> RunsOn(b, f)
          /\ RunsOn(b, f) => pushCall'[b] = pushCall[b]
    <2> SUFFICES ASSUME NEW f \in Devices \ {d}, NEW b \in PushCalls
                 PROVE /\ RunsOn(b, f)' <=> RunsOn(b, f)
                       /\ RunsOn(b, f) => pushCall'[b] = pushCall[b]
        OBVIOUS
    <2>1. CASE b = c
        <3>1. ~RunsOn(b, f) BY <2>1 DEF Starts, RunsOn
        <3> QED BY <1>3, <2>1, <3>1 DEF RunsOn
    <2>2. CASE b # c /\ pushCall'[b] = pushCall[b] BY <2>2 DEF RunsOn
    <2>3. CASE b # c /\ pushCall'[b] # pushCall[b]
        <3>1. RunsOn(b, d) /\ pushCall'[b] # NoCall /\ pushCall'[b].on = d BY <1>3, <1>4, <2>3
        <3> QED BY <3>1 DEF RunsOn
    <2> QED BY <2>1, <2>2, <2>3
<1>7. \A b \in PushCalls : pushCall'[b].step = "delete" =>
         b = c \/ (pushCall[b].step = "delete" /\ pushCall'[b].endpoint = pushCall[b].endpoint)
    <2> SUFFICES ASSUME NEW b \in PushCalls, pushCall'[b].step = "delete", b # c
                 PROVE pushCall[b].step = "delete" /\ pushCall'[b].endpoint = pushCall[b].endpoint
        OBVIOUS
    <2>1. CASE pushCall'[b] = pushCall[b] BY <2>1
    <2>2. CASE pushCall'[b] # pushCall[b]
        <3>1. pushCall'[b].step = pushCall[b].step /\ pushCall'[b].endpoint = pushCall[b].endpoint
            BY <1>3, <1>4, <2>2
        <3> QED BY <3>1
    <2> QED BY <2>1, <2>2
<1>8. ~Calling(d) => \A b \in PushCalls : RunsOn(b, d)' => b = c
    BY <1>3 DEF Calling, RunsOn
<1>9. pushManner = "serial" => ~Calling(d) BY DEF Starts
<1>10. /\ Calling(d) => strayed' = strayed \cup {d}
       /\ ~Calling(d) => strayed' = IF k.page \/ k.kind = "off" THEN strayed \ {d} ELSE strayed
    BY DEF Starts
<1>11. RunsOn(c, d)' BY <1>3 DEF RunsOn
<1> QED BY <1>3, <1>5, <1>6, <1>7, <1>8, <1>9, <1>10, <1>11

\* What the invariant says of the whole and of each device.
LEMMA PushHeld ==
    ASSUME PushInv
    PROVE /\ PushTyped /\ DeletesDead /\ PushTypeOK
          /\ \A d \in Devices : StraightOn(d) /\ ReachedOn(d)
          /\ created \in Nat /\ drops \in Nat /\ pushManner \in PushManners
BY DEF PushInv, PushTyped, PushTypeOK

\* Nobody is signed in and nothing runs at the start.
LEMMA PushStarts == PushInit => PushInv
<1> SUFFICES ASSUME PushInit PROVE PushInv OBVIOUS
<1>1. /\ pushManner \in PushManners /\ created = 0 /\ drops = 0 /\ strayed = {}
      /\ signedIn = [d \in Devices |-> Nobody] /\ browserSub = [d \in Devices |-> NoEndpoint]
      /\ allowed = [d \in Devices |-> FALSE] /\ pushPref = [d \in Devices |-> FALSE]
      /\ switch = pushPref /\ pushRows = [e \in Endpoints |-> NoRow]
      /\ pushCall = [c \in PushCalls |-> NoCall]
    BY DEF PushInit
<1>2. PushTypeOK BY <1>1, PushConstants DEF PushTypeOK, NoRow, People, NoEndpoint
<1>3. PushTyped
    <2>1. pushRows \in [Endpoints -> [user : People, number : Nat]] BY <1>1 DEF NoRow, People
    <2> QED BY <1>1, <1>2, <2>1 DEF PushTyped, CallMade
<1>4. DeletesDead BY <1>1 DEF DeletesDead, NoCall
<1>5. \A d \in Devices, c \in PushCalls : ~RunsOn(c, d) BY <1>1 DEF RunsOn
<1>6. \A d \in Devices : StraightOn(d) /\ ReachedOn(d)
    BY <1>1, <1>5 DEF StraightOn, ReachedOn, OneCallOn
<1> QED BY <1>3, <1>4, <1>6 DEF PushInv

\* Rows and browsers stand: so do the rows that are about to be deleted.
LEMMA DeadStay ==
    ASSUME DeletesDead, Quiet' => Quiet, UNCHANGED browserSub,
           \A c \in PushCalls : pushCall'[c].step = "delete" =>
              pushCall[c].step = "delete" /\ pushCall'[c].endpoint = pushCall[c].endpoint
    PROVE DeletesDead'
BY DEF DeletesDead, Live

\* A page opens and shows the preference, beside the call of a sign-out at most.
LEMMA SignInKept ==
    ASSUME NEW d \in Devices, NEW u \in Staff, PushInv, SignIn(d, u) PROVE PushInv'
<1>1. /\ PushTyped /\ DeletesDead /\ PushTypeOK
      /\ \A f \in Devices : StraightOn(f) /\ ReachedOn(f)
    BY PushHeld
<1>2. /\ signedIn[d] = Nobody
      /\ pushManner = "serial" => ~Calling(d)
      /\ signedIn' = [signedIn EXCEPT ![d] = u] /\ switch' = [switch EXCEPT ![d] = pushPref[d]]
      /\ UNCHANGED <<pushManner, browserSub, created, allowed, pushPref, pushRows, pushCall,
                     notice, notices, drops, strayed>>
    BY DEF SignIn
<1>3. PushTypeOK' BY <1>1, <1>2 DEF PushTypeOK, People, HasRow
<1>4. PushTyped' BY <1>1, <1>2, <1>3 DEF PushTyped
<1>5. DeletesDead' BY <1>1, <1>2, DeadStay DEF Quiet
<1>6. /\ \A f \in Devices, c \in PushCalls : RunsOn(c, f)' <=> RunsOn(c, f)
      /\ \A f \in Devices : Calling(f)' <=> Calling(f)
      /\ Quiet' <=> Quiet /\ \A f \in Devices : Reached(f)' <=> Reached(f)
    BY <1>2 DEF RunsOn, Calling, Quiet, Reached, HasRow
<1>7. ASSUME NEW f \in Devices, f # d PROVE StraightOn(f)' /\ ReachedOn(f)'
    <2>1. signedIn'[f] = signedIn[f] /\ switch'[f] = switch[f]
        BY <1>1, <1>2, <1>7 DEF PushTypeOK
    <2>2. /\ StraightOn(f) /\ ReachedOn(f)
          /\ browserSub'[f] = browserSub[f] /\ pushPref'[f] = pushPref[f]
          /\ f \in strayed' <=> f \in strayed
          /\ pushManner' = pushManner
          /\ \A c \in PushCalls : RunsOn(c, f)' <=> RunsOn(c, f)
          /\ \A c \in PushCalls : RunsOn(c, f) => pushCall'[c] = pushCall[c]
          /\ Quiet' => Quiet
          /\ Quiet /\ Reached(f) => Reached(f)'
        BY <1>1, <1>2 DEF RunsOn, Quiet, Reached, HasRow
    <2> QED BY <2>1, <2>2, OtherDevice
<1>8. signedIn'[d] = u /\ switch'[d] = pushPref[d] BY <1>1, <1>2 DEF PushTypeOK
<1>9. StraightOn(d)'
    <2>1. ASSUME d \notin strayed
          PROVE \A c \in PushCalls : RunsOn(c, d) => Straight(pushCall[c], d)'
        <3> SUFFICES ASSUME NEW c \in PushCalls, RunsOn(c, d) PROVE Straight(pushCall[c], d)'
            OBVIOUS
        <3>1. pushCall[c].kind = "off" /\ pushCall[c].token = Nobody
            BY <1>1, <1>2, <2>1 DEF StraightOn, Straight
        <3> QED BY <1>2, <1>8, <3>1 DEF Straight
    <2>2. OneCallOn(d)' <=> OneCallOn(d) BY <1>6 DEF OneCallOn
    <2> QED BY <1>1, <1>2, <1>6, <1>8, <2>1, <2>2 DEF StraightOn
<1>10. ReachedOn(d)'
    <2>1. OneCallOn(d)' <=> OneCallOn(d) BY <1>6 DEF OneCallOn
    <2>2. \A c \in PushCalls : Careful(pushCall[c], d)' <=> Careful(pushCall[c], d)
        BY <1>2 DEF Careful, Reached, HasRow
    <2> QED BY <1>1, <1>2, <1>6, <2>1, <2>2 DEF ReachedOn
<1> QED BY <1>4, <1>5, <1>7, <1>9, <1>10 DEF PushInv

\* A call that begins in order leaves every device as it should be.
LEMMA BeginKept ==
    ASSUME PushInv, NEW c \in PushCalls, NEW d \in Devices, NEW k, CallMade(k, created),
           k # NoCall, k.on = d, k.step # "delete", Starts(c, k),
           UNCHANGED <<pushManner, browserSub, created, switch, pushRows, drops>>,
           \A f \in Devices \ {d} : signedIn'[f] = signedIn[f] /\ pushPref'[f] = pushPref[f],
           d \notin strayed' /\ ~Calling(d) => Straight(k, d)',
           Quiet /\ ~Calling(d) /\ d \notin strayed =>
              Careful(k, d)' /\ (pushPref'[d] => pushPref[d]),
           PushTypeOK'
    PROVE PushInv'
<1>1. /\ PushTyped /\ DeletesDead
      /\ \A f \in Devices : StraightOn(f) /\ ReachedOn(f)
    BY PushHeld
<1>2. /\ pushCall' = [b \in PushCalls |-> pushCall'[b]] /\ pushCall'[c] = k
      /\ \A b \in PushCalls : CallMade(pushCall'[b], created)
      /\ \A f \in Devices \ {d}, b \in PushCalls :
            /\ RunsOn(b, f)' <=> RunsOn(b, f)
            /\ RunsOn(b, f) => pushCall'[b] = pushCall[b]
      /\ \A b \in PushCalls : pushCall'[b].step = "delete" =>
            b = c \/ (pushCall[b].step = "delete" /\ pushCall'[b].endpoint = pushCall[b].endpoint)
      /\ RunsOn(c, d)'
      /\ ~Calling(d) => \A b \in PushCalls : RunsOn(b, d)' => b = c
      /\ pushManner = "serial" => ~Calling(d)
      /\ Calling(d) => strayed' = strayed \cup {d}
      /\ ~Calling(d) => strayed' = IF k.page \/ k.kind = "off" THEN strayed \ {d} ELSE strayed
    BY <1>1, CallBegins
<1>3. PushTyped' BY <1>1, <1>2 DEF PushTyped
<1>4. DeletesDead' BY <1>1, <1>2 DEF DeletesDead, Live, Quiet
<1>5. ASSUME NEW f \in Devices, f # d PROVE StraightOn(f)' /\ ReachedOn(f)'
    <2>1. /\ StraightOn(f) /\ ReachedOn(f)
          /\ signedIn'[f] = signedIn[f] /\ browserSub'[f] = browserSub[f]
          /\ pushPref'[f] = pushPref[f] /\ switch'[f] = switch[f]
          /\ f \in strayed' <=> f \in strayed
          /\ \A b \in PushCalls : RunsOn(b, f)' <=> RunsOn(b, f)
          /\ \A b \in PushCalls : RunsOn(b, f) => pushCall'[b] = pushCall[b]
          /\ pushManner' = pushManner
          /\ Quiet' => Quiet
          /\ Quiet /\ Reached(f) => Reached(f)'
        BY <1>1, <1>2, <1>5 DEF RunsOn, Quiet, Reached, HasRow
    <2> QED BY <2>1, OtherDevice
<1>6. StraightOn(d)'
    <2> SUFFICES ASSUME d \notin strayed' PROVE StraightOn(d)' BY DEF StraightOn
    <2>1. ~Calling(d) BY <1>2
    <2>2. \A b \in PushCalls : pushCall'[b] # NoCall /\ pushCall'[b].on = d => b = c
        BY <1>2, <2>1 DEF RunsOn
    <2>3. Straight(pushCall[c], d)' BY <1>2, <2>1 DEF Straight
    <2>4. Calling(d)' BY <1>2 DEF Calling
    <2> QED BY <2>2, <2>3, <2>4 DEF StraightOn, OneCallOn, RunsOn
<1>7. ReachedOn(d)'
    <2>1. pushManner = "serial" =>
             \A b \in PushCalls : pushCall'[b] # NoCall /\ pushCall'[b].on = d => b = c
        BY <1>2 DEF RunsOn
    <2>2. pushManner' = "serial" => OneCallOn(d)' BY <2>1 DEF OneCallOn, RunsOn
    <2>3. ASSUME Quiet'
          PROVE /\ d \notin strayed'
                /\ pushPref'[d] => Reached(d)'
                /\ \A b \in PushCalls : RunsOn(b, d)' => Careful(pushCall[b], d)'
        <3>1. Quiet /\ ~Calling(d) BY <1>2, <2>3 DEF Quiet
        <3>2. /\ d \notin strayed
              /\ pushPref[d] => Reached(d)
            BY <1>1, <3>1 DEF ReachedOn
        <3>3. d \notin strayed' BY <1>2, <3>1, <3>2
        <3>4. pushPref'[d] => Reached(d)' BY <3>1, <3>2 DEF Reached, HasRow
        <3>5. Careful(pushCall[c], d)' BY <1>2, <3>1, <3>2 DEF Careful
        <3> QED BY <2>1, <3>1, <3>3, <3>4, <3>5 DEF RunsOn, Quiet
    <2> QED BY <2>2, <2>3 DEF ReachedOn
<1> QED BY <1>3, <1>4, <1>5, <1>6, <1>7 DEF PushInv

\* The token goes first, and the call that unsubscribes begins.
LEMMA SignOutKept ==
    ASSUME NEW d \in Devices, NEW c \in PushCalls, PushInv, SignOut(c, d) PROVE PushInv'
<1> DEFINE k == [kind |-> "off", page |-> FALSE, on |-> d, step |-> "find",
                 token |-> Nobody, endpoint |-> NoEndpoint]
<1>1. PushTypeOK /\ PushTyped BY PushHeld
<1>2. /\ Starts(c, k) /\ pushPref' = [pushPref EXCEPT ![d] = FALSE]
      /\ signedIn' = [signedIn EXCEPT ![d] = Nobody]
      /\ UNCHANGED <<pushManner, browserSub, created, allowed, switch, pushRows, notice,
                     notices, drops>>
    BY DEF SignOut, Unsubscribes
<1>3. CallMade(k, created) /\ k # NoCall /\ k.on = d /\ k.step # "delete"
    BY <1>1 DEF CallMade, PushCallTypes, NoCall, NoEndpoint, PushTypeOK, People
<1>4. PushTypeOK' BY <1>1, <1>2 DEF PushTypeOK, People
<1>5. /\ \A f \in Devices \ {d} : signedIn'[f] = signedIn[f] /\ pushPref'[f] = pushPref[f]
      /\ signedIn'[d] = Nobody /\ ~pushPref'[d]
    BY <1>1, <1>2 DEF PushTypeOK
<1>6. Straight(k, d)' BY <1>5 DEF Straight
<1>7. Careful(k, d)' BY <1>5 DEF Careful
<1> HIDE DEF k
<1>8. UNCHANGED <<pushManner, browserSub, created, switch, pushRows, drops>> BY <1>2
<1> QED BY <1>2, <1>3, <1>4, <1>5, <1>6, <1>7, <1>8, BeginKept

\* The switch is turned off: what it shows is what is stored.
LEMMA TurnOffKept ==
    ASSUME NEW d \in Devices, NEW c \in PushCalls, PushInv, TurnOff(c, d) PROVE PushInv'
<1>1. PushTypeOK /\ PushTyped /\ StraightOn(d) /\ ReachedOn(d) BY PushHeld
<1>u. PICK u \in People : u = signedIn[d] BY <1>1 DEF PushTypeOK
<1> DEFINE k == [kind |-> "off", page |-> TRUE, on |-> d, step |-> "find", token |-> u,
                 endpoint |-> NoEndpoint]
<1>2. /\ Starts(c, k) /\ pushPref' = [pushPref EXCEPT ![d] = FALSE]
      /\ signedIn[d] # Nobody /\ switch[d]
      /\ UNCHANGED <<pushManner, signedIn, browserSub, created, allowed, switch, pushRows,
                     notice, notices, drops>>
    BY <1>u DEF TurnOff, Unsubscribes
<1>3. CallMade(k, created) /\ k # NoCall /\ k.on = d /\ k.step # "delete"
    BY <1>1, <1>2, <1>u DEF CallMade, PushCallTypes, NoCall, NoEndpoint, PushTypeOK, People
<1>4. PushTypeOK' BY <1>1, <1>2 DEF PushTypeOK
<1>5. /\ \A f \in Devices \ {d} : signedIn'[f] = signedIn[f] /\ pushPref'[f] = pushPref[f]
      /\ signedIn'[d] = signedIn[d] /\ ~pushPref'[d]
    BY <1>1, <1>2 DEF PushTypeOK
<1>6. signedIn' = signedIn /\ browserSub' = browserSub BY <1>2
<1>7. Straight(k, d)' BY <1>2, <1>u, <1>5, <1>6 DEF Straight
<1>8. Quiet /\ ~Calling(d) /\ d \notin strayed => Careful(k, d)'
    <2>1. Quiet /\ ~Calling(d) /\ d \notin strayed => browserSub[d] # NoEndpoint
        BY <1>1, <1>2 DEF StraightOn, ReachedOn, Reached
    <2> QED BY <1>5, <1>6, <2>1 DEF Careful
<1> HIDE DEF k
<1>9. UNCHANGED <<pushManner, browserSub, created, switch, pushRows, drops>> BY <1>2
<1> QED BY <1>2, <1>3, <1>4, <1>5, <1>7, <1>8, <1>9, BeginKept

\* The switch is turned on, or the page of notices repeats it.
LEMMA TurnOnKept ==
    ASSUME NEW d \in Devices, NEW c \in PushCalls, NEW onPage \in BOOLEAN, PushInv,
           TurnOn(c, d, onPage)
    PROVE PushInv'
<1> DEFINE k == [kind |-> "on", page |-> onPage, on |-> d, step |-> "ask",
                 token |-> Nobody, endpoint |-> NoEndpoint]
<1>1. PushTypeOK /\ PushTyped /\ StraightOn(d) /\ ReachedOn(d) BY PushHeld
<1>2. /\ Starts(c, k) /\ signedIn[d] # Nobody
      /\ ~onPage => pushPref[d]
      /\ UNCHANGED <<pushManner, signedIn, browserSub, created, allowed, pushPref, switch,
                     pushRows, notice, notices, drops>>
    BY DEF TurnOn
<1>3. CallMade(k, created) /\ k # NoCall /\ k.on = d /\ k.step # "delete"
    BY <1>1 DEF CallMade, PushCallTypes, NoCall, NoEndpoint, PushTypeOK, People
<1>4. PushTypeOK' BY <1>1, <1>2 DEF PushTypeOK
<1>5. \A f \in Devices \ {d} : signedIn'[f] = signedIn[f] /\ pushPref'[f] = pushPref[f]
    BY <1>2
<1>6. d \notin strayed' /\ ~Calling(d) => Straight(k, d)'
    <2> SUFFICES ASSUME d \notin strayed', ~Calling(d) PROVE Straight(k, d)' OBVIOUS
    <2>1. strayed' = IF onPage THEN strayed \ {d} ELSE strayed BY <1>2 DEF Starts
    <2>2. ~onPage => switch[d] = pushPref[d] BY <1>1, <1>2, <2>1 DEF StraightOn
    <2>3. signedIn' = signedIn /\ switch' = switch /\ pushPref' = pushPref BY <1>2
    <2> QED BY <1>2, <2>2, <2>3 DEF Straight
<1>7. Careful(k, d)' BY DEF Careful
<1> HIDE DEF k
<1>8. UNCHANGED <<pushManner, browserSub, created, switch, pushRows, drops>> BY <1>2
<1>9. pushPref'[d] => pushPref[d] BY <1>2
<1> QED BY <1>2, <1>3, <1>4, <1>5, <1>6, <1>7, <1>8, <1>9, BeginKept

\* A step of a call keeps the invariant if it does so on the call's device.
LEMMA StepKept ==
    ASSUME PushInv, NEW c \in PushCalls, NEW d \in Devices, RunsOn(c, d), NEW k,
           created' \in Nat, created <= created', CallMade(k, created'),
           k # NoCall => k.on = d, pushCall' = [pushCall EXCEPT ![c] = k],
           pushManner' = pushManner, signedIn' = signedIn, Quiet' => Quiet, drops' \in Nat,
           strayed' = strayed \/ (strayed' = strayed \cup {d} /\ ~Quiet'),
           \A f \in Devices \ {d} :
              /\ browserSub'[f] = browserSub[f] /\ pushPref'[f] = pushPref[f]
              /\ switch'[f] = switch[f]
              /\ Quiet /\ HasRow(browserSub[f]) /\ browserSub[f] # NoEndpoint =>
                    pushRows'[browserSub[f]].user # Nobody,
           d \notin strayed' /\ k # NoCall => Straight(k, d)',
           d \notin strayed' /\ k = NoCall =>
              /\ signedIn[d] = Nobody => browserSub'[d] = NoEndpoint
              /\ signedIn[d] # Nobody => switch'[d] = pushPref'[d],
           Quiet' => (pushPref'[d] => Reached(d)') /\ (k # NoCall => Careful(k, d)'),
           PushTypeOK', pushRows' \in [Endpoints -> [user : People, number : Nat]],
           DeletesDead'
    PROVE PushInv'
<1>1. /\ PushTyped
      /\ \A f \in Devices : StraightOn(f) /\ ReachedOn(f)
    BY PushHeld
<1>2. /\ pushCall' = [b \in PushCalls |-> pushCall'[b]]
      /\ pushCall'[c] = k /\ \A b \in PushCalls \ {c} : pushCall'[b] = pushCall[b]
      /\ \A b \in PushCalls : CallMade(pushCall'[b], created')
      /\ \A f \in Devices, b \in PushCalls :
            d # f => (RunsOn(b, f)' <=> RunsOn(b, f)) /\ (RunsOn(b, f) => b # c)
      /\ OneCallOn(d) =>
            /\ OneCallOn(d)'
            /\ \A b \in PushCalls : RunsOn(b, d)' => b = c /\ k # NoCall
    BY <1>1, CallGoesOn
<1>3. PushTyped' BY <1>2 DEF PushTyped
<1>4. ASSUME NEW f \in Devices, f # d PROVE StraightOn(f)' /\ ReachedOn(f)'
    <2>1. /\ StraightOn(f) /\ ReachedOn(f)
          /\ signedIn'[f] = signedIn[f] /\ browserSub'[f] = browserSub[f]
          /\ pushPref'[f] = pushPref[f] /\ switch'[f] = switch[f]
          /\ f \in strayed' <=> f \in strayed
          /\ \A b \in PushCalls : RunsOn(b, f)' <=> RunsOn(b, f)
          /\ \A b \in PushCalls : RunsOn(b, f) => pushCall'[b] = pushCall[b]
          /\ pushManner' = pushManner
          /\ Quiet' => Quiet
        BY <1>1, <1>2, <1>4 DEF RunsOn
    <2>2. Quiet /\ Reached(f) => Reached(f)'
        BY <1>4 DEF Reached, HasRow
    <2> QED BY <2>1, <2>2, OtherDevice
<1>5. StraightOn(d)'
    <2> SUFFICES ASSUME d \notin strayed' PROVE StraightOn(d)' BY DEF StraightOn
    <2>1. OneCallOn(d) BY <1>1 DEF StraightOn
    <2>2. OneCallOn(d)' BY <1>2, <2>1
    <2>3. \A b \in PushCalls : pushCall'[b] # NoCall /\ pushCall'[b].on = d => b = c /\ k # NoCall
        BY <1>2, <2>1 DEF RunsOn
    <2>4. k # NoCall => Straight(pushCall[c], d)' /\ Calling(d)'
        BY <1>2 DEF Straight, Calling
    <2>5. k = NoCall /\ signedIn'[d] = Nobody => browserSub'[d] = NoEndpoint OBVIOUS
    <2>6. k = NoCall /\ signedIn'[d] # Nobody => switch'[d] = pushPref'[d] OBVIOUS
    <2> QED BY <2>2, <2>3, <2>4, <2>5, <2>6 DEF StraightOn, RunsOn
<1>6. ReachedOn(d)'
    <2>1. pushManner = "serial" =>
             /\ OneCallOn(d)'
             /\ \A b \in PushCalls :
                   pushCall'[b] # NoCall /\ pushCall'[b].on = d => b = c /\ k # NoCall
        BY <1>1, <1>2 DEF ReachedOn, RunsOn
    <2>2. Quiet' => d \notin strayed' BY <1>1 DEF ReachedOn
    <2>3. Quiet' /\ k # NoCall => Careful(pushCall[c], d)' BY <1>2 DEF Careful
    <2>4. Quiet' => \A b \in PushCalls : RunsOn(b, d)' => Careful(pushCall[b], d)'
        BY <2>1, <2>3 DEF RunsOn, Quiet
    <2> QED BY <2>1, <2>2, <2>4 DEF ReachedOn
<1> QED BY <1>3, <1>4, <1>5, <1>6 DEF PushInv

\* The call that takes a step, and what is known of its device.
LEMMA StepFacts ==
    ASSUME PushInv, NEW c \in PushCalls, pushCall[c] # NoCall
    PROVE /\ pushCall[c].on \in Devices /\ RunsOn(c, pushCall[c].on)
          /\ pushCall[c] \in PushCallTypes /\ pushCall[c].endpoint <= created
          /\ pushCall[c].kind = "off" <=> pushCall[c].step \in {"find", "delete"}
          /\ pushCall[c].kind = "off" /\ pushCall[c].token = Nobody =>
                ~pushCall[c].page /\ pushCall[c].step = "find"
BY DEF PushInv, PushTyped, CallMade, PushCallTypes, RunsOn

\* Key, permission and worker.
LEMMA AskedKept == ASSUME NEW c \in PushCalls, PushInv, Asked(c) PROVE PushInv'
<1>1. PushTypeOK /\ PushTyped /\ DeletesDead /\ created \in Nat /\ drops \in Nat BY PushHeld
<1>2. pushCall[c] # NoCall BY DEF Asked, NoCall
<1>3. PICK d \in Devices : d = pushCall[c].on /\ RunsOn(c, d) BY <1>2, StepFacts
<1>4. StraightOn(d) /\ ReachedOn(d) BY PushHeld
<1>5. PICK k : k = [pushCall[c] EXCEPT !.step = "subscribe"] OBVIOUS
<1>6. pushCall[c] \in PushCallTypes /\ pushCall[c].endpoint <= created
      /\ pushCall[c].kind = "on" /\ pushCall[c].step = "ask"
    BY <1>2, StepFacts DEF Asked, PushCallTypes
<1>7. k \in PushCallTypes /\ k.on = d /\ k.kind = "on" /\ k.step = "subscribe"
      /\ k.page = pushCall[c].page /\ k.endpoint <= created
    BY <1>3, <1>5, <1>6 DEF PushCallTypes
<1>8. k # NoCall /\ CallMade(k, created) BY <1>7 DEF CallMade, NoCall, PushCallTypes
<1>9. /\ pushCall' = [pushCall EXCEPT ![c] = k]
      /\ allowed' = [allowed EXCEPT ![d] = TRUE]
      /\ UNCHANGED <<pushManner, signedIn, browserSub, created, pushPref, switch, pushRows,
                     notice, notices, drops, strayed>>
    BY <1>3, <1>5 DEF Asked
<1>10. PushTypeOK' BY <1>1, <1>9 DEF PushTypeOK
<1>11. DeletesDead'
    <2>1. \A b \in PushCalls : pushCall'[b] = IF b = c THEN k ELSE pushCall[b]
        BY <1>1, <1>9 DEF PushTyped
    <2> QED BY <1>1, <1>7, <1>9, <2>1, DeadStay DEF Quiet
<1>12. d \notin strayed' => Straight(k, d)'
    BY <1>3, <1>4, <1>6, <1>7, <1>9 DEF StraightOn, Straight
<1>13. Quiet' => Quiet /\ (pushPref'[d] => Reached(d)') /\ Careful(k, d)'
    BY <1>4, <1>7, <1>9 DEF ReachedOn, Careful, Quiet, Reached, HasRow
<1>14. \A f \in Devices \ {d} :
          /\ browserSub'[f] = browserSub[f] /\ pushPref'[f] = pushPref[f]
          /\ switch'[f] = switch[f]
          /\ Quiet /\ HasRow(browserSub[f]) => pushRows'[browserSub[f]].user # Nobody
    BY <1>9 DEF HasRow
<1>15. /\ CallMade(k, created')
       /\ created' \in Nat /\ created <= created' /\ drops' \in Nat /\ created' = created
       /\ pushManner' = pushManner /\ signedIn' = signedIn /\ strayed' = strayed
       /\ pushRows' \in [Endpoints -> [user : People, number : Nat]]
    BY <1>1, <1>8, <1>9 DEF PushTyped
<1> QED BY <1>3, <1>7, <1>8, <1>9, <1>10, <1>11, <1>12, <1>13, <1>14, <1>15, StepKept

\* A call ends: what it leaves on its device is what the invariant asks of a device at rest.
LEMMA EndKept ==
    ASSUME PushInv, NEW c \in PushCalls, NEW d \in Devices, RunsOn(c, d), CallEnds(c),
           UNCHANGED <<pushManner, signedIn, created>>, Quiet' => Quiet, drops' \in Nat,
           strayed' = strayed \/ (strayed' = strayed \cup {d} /\ ~Quiet'),
           \A f \in Devices \ {d} :
              /\ browserSub'[f] = browserSub[f] /\ pushPref'[f] = pushPref[f]
              /\ switch'[f] = switch[f]
              /\ Quiet /\ HasRow(browserSub[f]) /\ browserSub[f] # NoEndpoint =>
                    pushRows'[browserSub[f]].user # Nobody,
           d \notin strayed' =>
              /\ signedIn[d] = Nobody => browserSub'[d] = NoEndpoint
              /\ signedIn[d] # Nobody => switch'[d] = pushPref'[d],
           Quiet' /\ pushPref'[d] => Reached(d)',
           \A f \in Devices : browserSub'[f] \in {browserSub[f], NoEndpoint},
           PushTypeOK', pushRows' \in [Endpoints -> [user : People, number : Nat]]
    PROVE PushInv'
<1>1. PushTyped /\ DeletesDead /\ created \in Nat BY PushHeld
<1>2. pushCall' = [pushCall EXCEPT ![c] = NoCall] BY DEF CallEnds
<1>3. CallMade(NoCall, created') BY DEF CallMade
<1>4. DeletesDead'
    <2>1. \A b \in PushCalls : pushCall'[b].step = "delete" => pushCall'[b] = pushCall[b]
        BY <1>1, <1>2 DEF PushTyped, NoCall
    <2>2. \A e : e # NoEndpoint /\ ~Live(e) => ~(\E f \in Devices : browserSub'[f] = e)
        BY DEF Live
    <2> QED BY <1>1, <2>1, <2>2 DEF DeletesDead, Live
<1>5. PICK k : k = NoCall OBVIOUS
<1>6. created' \in Nat /\ created <= created' BY <1>1
<1>7. pushManner' = pushManner /\ signedIn' = signedIn OBVIOUS
<1> QED BY <1>2, <1>3, <1>4, <1>5, <1>6, <1>7, StepKept

\* Turning on fails: the page reads the preference again.
LEMMA TurnOnFailsKept == ASSUME NEW c \in PushCalls, PushInv, TurnOnFails(c) PROVE PushInv'
<1>1. PushTypeOK /\ PushTyped /\ created \in Nat /\ drops \in Nat BY PushHeld
<1>2. pushCall[c] # NoCall BY DEF TurnOnFails, NoCall
<1>3. PICK d \in Devices : d = pushCall[c].on /\ RunsOn(c, d) BY <1>2, StepFacts
<1>4. StraightOn(d) /\ ReachedOn(d) BY PushHeld
<1>5. pushCall[c].page \in BOOLEAN BY <1>2, StepFacts DEF PushCallTypes
<1>6. /\ pushCall[c].kind = "on" /\ CallEnds(c)
      /\ switch' = [switch EXCEPT ![d] = IF pushCall[c].page THEN pushPref[d] ELSE @]
      /\ UNCHANGED <<pushManner, signedIn, browserSub, created, allowed, pushPref, pushRows,
                     notice, notices, drops, strayed>>
    BY <1>3 DEF TurnOnFails, Shows
<1>7. PushTypeOK' BY <1>1, <1>5, <1>6 DEF PushTypeOK
<1>8. \A f \in Devices \ {d} :
          /\ browserSub'[f] = browserSub[f] /\ pushPref'[f] = pushPref[f]
          /\ switch'[f] = switch[f]
          /\ Quiet /\ HasRow(browserSub[f]) => pushRows'[browserSub[f]].user # Nobody
    BY <1>1, <1>6 DEF HasRow, PushTypeOK
<1>9. d \notin strayed' => signedIn[d] # Nobody /\ switch'[d] = pushPref'[d]
    <2> SUFFICES ASSUME d \notin strayed PROVE signedIn[d] # Nobody /\ switch'[d] = pushPref'[d]
        BY <1>6
    <2>1. Straight(pushCall[c], d) BY <1>3, <1>4 DEF StraightOn
    <2>2. signedIn[d] # Nobody BY <1>6, <2>1 DEF Straight
    <2>3. CASE pushCall[c].page BY <1>1, <1>6, <2>2, <2>3 DEF PushTypeOK
    <2>4. CASE ~pushCall[c].page
        <3>1. switch'[d] = switch[d] /\ pushPref' = pushPref BY <1>1, <1>6, <2>4 DEF PushTypeOK
        <3>2. switch[d] /\ pushPref[d] BY <1>6, <2>1, <2>2, <2>4 DEF Straight
        <3>3. switch[d] \in BOOLEAN /\ pushPref[d] \in BOOLEAN BY <1>1 DEF PushTypeOK
        <3> QED BY <2>2, <3>1, <3>2, <3>3
    <2> QED BY <1>5, <2>3, <2>4
<1>10. Quiet' => Quiet /\ (pushPref'[d] => Reached(d)')
    BY <1>4, <1>6 DEF ReachedOn, Quiet, Reached, HasRow
<1>11. /\ pushManner' = pushManner /\ signedIn' = signedIn /\ created' = created
       /\ drops' \in Nat /\ strayed' = strayed /\ browserSub' = browserSub
       /\ pushRows' \in [Endpoints -> [user : People, number : Nat]]
    BY <1>1, <1>6 DEF PushTyped
<1> QED BY <1>3, <1>6, <1>7, <1>8, <1>9, <1>10, <1>11, EndKept

\* The preference is stored after the row was.
LEMMA TurnedOnKept == ASSUME NEW c \in PushCalls, PushInv, TurnedOn(c) PROVE PushInv'
<1>1. PushTypeOK /\ PushTyped /\ created \in Nat /\ drops \in Nat BY PushHeld
<1>2. pushCall[c] # NoCall BY DEF TurnedOn, NoCall
<1>3. PICK d \in Devices : d = pushCall[c].on /\ RunsOn(c, d) BY <1>2, StepFacts
<1>4. StraightOn(d) /\ ReachedOn(d) BY PushHeld
<1>5. pushCall[c].page \in BOOLEAN /\ pushCall[c].step = "saved" /\ pushCall[c].kind = "on"
    BY <1>2, StepFacts DEF TurnedOn, PushCallTypes
<1>6. /\ CallEnds(c)
      /\ switch' = [switch EXCEPT ![d] = IF pushCall[c].page THEN TRUE ELSE @]
      /\ pushPref' = [pushPref EXCEPT ![d] = TRUE]
      /\ UNCHANGED <<pushManner, signedIn, browserSub, created, allowed, pushRows,
                     notice, notices, drops, strayed>>
    BY <1>3 DEF TurnedOn, Shows
<1>7. PushTypeOK' BY <1>1, <1>5, <1>6 DEF PushTypeOK
<1>8. \A f \in Devices \ {d} :
          /\ browserSub'[f] = browserSub[f] /\ pushPref'[f] = pushPref[f]
          /\ switch'[f] = switch[f]
          /\ Quiet /\ HasRow(browserSub[f]) => pushRows'[browserSub[f]].user # Nobody
    BY <1>1, <1>6 DEF HasRow, PushTypeOK
<1>9. d \notin strayed' => signedIn[d] # Nobody /\ switch'[d] = pushPref'[d]
    <2> SUFFICES ASSUME d \notin strayed PROVE signedIn[d] # Nobody /\ switch'[d] = pushPref'[d]
        BY <1>6
    <2>1. Straight(pushCall[c], d) BY <1>3, <1>4 DEF StraightOn
    <2>2. signedIn[d] # Nobody BY <1>5, <2>1 DEF Straight
    <2>3. pushPref'[d] = TRUE BY <1>1, <1>6 DEF PushTypeOK
    <2>4. CASE pushCall[c].page BY <1>1, <1>6, <2>2, <2>3, <2>4 DEF PushTypeOK
    <2>5. CASE ~pushCall[c].page
        <3>1. switch'[d] = switch[d] BY <1>1, <1>6, <2>5 DEF PushTypeOK
        <3>2. switch[d] BY <1>5, <2>1, <2>2, <2>5 DEF Straight
        <3>3. switch[d] \in BOOLEAN BY <1>1 DEF PushTypeOK
        <3> QED BY <2>2, <2>3, <3>1, <3>2, <3>3
    <2> QED BY <1>5, <2>4, <2>5
<1>10. Quiet' => Quiet /\ Reached(d)'
    <2>1. Quiet => Reached(d) BY <1>3, <1>4, <1>5 DEF ReachedOn, Careful
    <2> QED BY <1>6, <2>1 DEF Quiet, Reached, HasRow
<1>11. /\ pushManner' = pushManner /\ signedIn' = signedIn /\ created' = created
       /\ drops' \in Nat /\ strayed' = strayed /\ browserSub' = browserSub
       /\ pushRows' \in [Endpoints -> [user : People, number : Nat]]
    BY <1>1, <1>6 DEF PushTyped
<1> QED BY <1>3, <1>6, <1>7, <1>8, <1>9, <1>10, <1>11, EndKept

\* unsubscribe() fails: the device strays.
LEMMA FindFailsKept == ASSUME NEW c \in PushCalls, PushInv, FindFails(c) PROVE PushInv'
<1>1. PushTypeOK /\ PushTyped /\ created \in Nat /\ drops \in Nat BY PushHeld
<1>2. pushCall[c] # NoCall BY DEF FindFails, NoCall
<1>3. PICK d \in Devices : d = pushCall[c].on /\ RunsOn(c, d) BY <1>2, StepFacts
<1>4. pushCall[c].page \in BOOLEAN BY <1>2, StepFacts DEF PushCallTypes
<1>5. /\ CallEnds(c) /\ drops' = drops + 1 /\ strayed' = strayed \cup {d}
      /\ switch' = [switch EXCEPT ![d] = IF pushCall[c].page THEN FALSE ELSE @]
      /\ UNCHANGED <<pushManner, signedIn, browserSub, created, allowed, pushPref, pushRows,
                     notice, notices>>
    BY <1>3 DEF FindFails, Shows
<1>6. drops' \in Nat /\ ~Quiet' BY <1>1, <1>5 DEF Quiet
<1>7. PushTypeOK' BY <1>1, <1>4, <1>5 DEF PushTypeOK
<1>8. \A f \in Devices \ {d} :
          /\ browserSub'[f] = browserSub[f] /\ pushPref'[f] = pushPref[f]
          /\ switch'[f] = switch[f]
          /\ Quiet /\ HasRow(browserSub[f]) => pushRows'[browserSub[f]].user # Nobody
    BY <1>1, <1>5 DEF HasRow, PushTypeOK
<1>9. /\ pushManner' = pushManner /\ signedIn' = signedIn /\ created' = created
      /\ browserSub' = browserSub /\ d \in strayed'
      /\ pushRows' \in [Endpoints -> [user : People, number : Nat]]
    BY <1>1, <1>5 DEF PushTyped
<1> QED BY <1>3, <1>5, <1>6, <1>7, <1>8, <1>9, EndKept

\* A row is deleted of an endpoint; its number and the other rows stay.
LEMMA DeletedRows ==
    ASSUME NEW u, NEW e, pushRows \in [Endpoints -> [user : People, number : Nat]]
    PROVE /\ Deleted(u, e) \in [Endpoints -> [user : People, number : Nat]]
          /\ \A f \in Endpoints : e # NoEndpoint /\ f # e => Deleted(u, e)[f] = pushRows[f]
BY DEF Deleted, People

\* What is deleted on the server is a row nobody listens to.
LEMMA TurnedOffKept == ASSUME NEW c \in PushCalls, PushInv, TurnedOff(c) PROVE PushInv'
<1>1. PushTypeOK /\ PushTyped /\ DeletesDead /\ created \in Nat /\ drops \in Nat BY PushHeld
<1>2. pushCall[c] # NoCall BY DEF TurnedOff, NoCall
<1>3. PICK d \in Devices : d = pushCall[c].on /\ RunsOn(c, d) BY <1>2, StepFacts
<1>4. StraightOn(d) /\ ReachedOn(d) BY PushHeld
<1>5. /\ pushCall[c].page \in BOOLEAN /\ pushCall[c].step = "delete" /\ pushCall[c].kind = "off"
      /\ pushCall[c].token # Nobody
    BY <1>2, StepFacts DEF TurnedOff, PushCallTypes
<1>6. /\ CallEnds(c)
      /\ pushRows' \in {pushRows, Deleted(pushCall[c].token, pushCall[c].endpoint)}
      /\ switch' = [switch EXCEPT ![d] = IF pushCall[c].page THEN FALSE ELSE @]
      /\ UNCHANGED <<pushManner, signedIn, browserSub, created, allowed, pushPref, notice,
                     notices, drops, strayed>>
    BY <1>3 DEF TurnedOff, Shows
<1>7. pushRows' \in [Endpoints -> [user : People, number : Nat]]
    BY <1>1, <1>6, DeletedRows DEF PushTyped
<1>8. PushTypeOK' BY <1>1, <1>5, <1>6, <1>7 DEF PushTypeOK
<1>9. ASSUME NEW f \in Devices, Quiet, HasRow(browserSub[f]), browserSub[f] # NoEndpoint
      PROVE pushRows'[browserSub[f]].user # Nobody
    <2>1. pushCall[c].endpoint # NoEndpoint /\ browserSub[f] # pushCall[c].endpoint
        BY <1>1, <1>5, <1>9 DEF DeletesDead, Live
    <2>2. browserSub[f] \in Endpoints
        BY <1>1, <1>9, PushConstants DEF PushTypeOK, Endpoints, NoEndpoint
    <2>3. pushRows'[browserSub[f]] = pushRows[browserSub[f]]
        BY <1>1, <1>6, <2>1, <2>2, DeletedRows DEF PushTyped
    <2> QED BY <1>9, <2>3 DEF HasRow
<1>10. \A f \in Devices \ {d} :
          /\ browserSub'[f] = browserSub[f] /\ pushPref'[f] = pushPref[f]
          /\ switch'[f] = switch[f]
    BY <1>1, <1>6 DEF PushTypeOK
<1>11. d \notin strayed' => signedIn[d] # Nobody /\ switch'[d] = pushPref'[d]
    <2> SUFFICES ASSUME d \notin strayed PROVE signedIn[d] # Nobody /\ switch'[d] = pushPref'[d]
        BY <1>6
    <2>1. Straight(pushCall[c], d) BY <1>3, <1>4 DEF StraightOn
    <2>2. signedIn[d] # Nobody /\ pushCall[c].page /\ ~pushPref[d]
        BY <1>5, <2>1 DEF Straight
    <2>3. pushPref[d] = FALSE BY <1>1, <2>2 DEF PushTypeOK
    <2> QED BY <1>1, <1>6, <2>2, <2>3 DEF PushTypeOK
<1>12. Quiet' => Quiet /\ ~pushPref'[d]
    BY <1>3, <1>4, <1>5, <1>6 DEF ReachedOn, Quiet, Careful
<1>13. /\ pushManner' = pushManner /\ signedIn' = signedIn /\ created' = created
       /\ drops' \in Nat /\ strayed' = strayed /\ browserSub' = browserSub
    BY <1>1, <1>6
<1> QED BY <1>3, <1>6, <1>7, <1>8, <1>9, <1>10, <1>11, <1>12, <1>13, EndKept

\* A row is made or changes hands; the other rows stay.
LEMMA SavedRows ==
    ASSUME NEW u \in People, NEW e, pushRows \in [Endpoints -> [user : People, number : Nat]]
    PROVE /\ RowFor(e, u) \in [Endpoints -> [user : People, number : Nat]]
          /\ \A f \in Endpoints : f # e => RowFor(e, u)[f] = pushRows[f]
          /\ e \in Endpoints => RowFor(e, u)[e].user = u
<1>1. CASE e \in Endpoints
    <2>1. PICK n \in Nat : n = IF HasRow(e) THEN pushRows[e].number ELSE pushRows[e].number + 1
        BY <1>1
    <2>2. RowFor(e, u) = [pushRows EXCEPT ![e] = [user |-> u, number |-> n]]
        BY <2>1 DEF RowFor
    <2> QED BY <1>1, <2>2
<1>2. CASE e \notin Endpoints
    <2>1. RowFor(e, u) = pushRows BY <1>2 DEF RowFor
    <2> QED BY <1>2, <2>1
<1> QED BY <1>1, <1>2

\* The server has the row of the browser's own endpoint.
LEMMA SavedKept == ASSUME NEW c \in PushCalls, PushInv, Saved(c) PROVE PushInv'
<1>1. PushTypeOK /\ PushTyped /\ DeletesDead /\ created \in Nat /\ drops \in Nat BY PushHeld
<1>2. pushCall[c] # NoCall BY DEF Saved, NoCall
<1>3. PICK d \in Devices : d = pushCall[c].on /\ RunsOn(c, d) BY <1>2, StepFacts
<1>4. StraightOn(d) /\ ReachedOn(d) BY PushHeld
<1>5. /\ pushCall[c] \in PushCallTypes /\ pushCall[c].endpoint <= created
      /\ pushCall[c].page \in BOOLEAN /\ pushCall[c].step = "post" /\ pushCall[c].kind = "on"
      /\ pushCall[c].token \in People
    BY <1>2, StepFacts DEF Saved, PushCallTypes
<1>6. /\ pushRows' = RowFor(pushCall[c].endpoint, pushCall[c].token)
      /\ UNCHANGED <<pushManner, signedIn, browserSub, created, allowed, pushPref, notice,
                     notices, drops, strayed>>
    BY DEF Saved
<1>7. pushRows' \in [Endpoints -> [user : People, number : Nat]]
    BY <1>1, <1>5, <1>6, SavedRows DEF PushTyped
<1>8. ASSUME NEW f \in Devices, Quiet, HasRow(browserSub[f]), browserSub[f] # NoEndpoint
      PROVE pushRows'[browserSub[f]].user # Nobody
    <2>1. browserSub[f] \in Endpoints
        BY <1>1, <1>8, PushConstants DEF PushTypeOK, Endpoints, NoEndpoint
    <2>2. pushCall[c].token # Nobody BY <1>3, <1>4, <1>5, <1>8 DEF ReachedOn, Careful
    <2>3. CASE browserSub[f] = pushCall[c].endpoint
        BY <1>1, <1>5, <1>6, <2>1, <2>2, <2>3, SavedRows DEF PushTyped
    <2>4. CASE browserSub[f] # pushCall[c].endpoint
        <3>1. pushRows'[browserSub[f]] = pushRows[browserSub[f]]
            BY <1>1, <1>5, <1>6, <2>1, <2>4, SavedRows DEF PushTyped
        <3> QED BY <1>8, <3>1 DEF HasRow
    <2> QED BY <2>3, <2>4
<1>9. ASSUME Quiet
      PROVE /\ browserSub[d] # NoEndpoint /\ browserSub[d] = pushCall[c].endpoint
            /\ pushCall[c].token # Nobody /\ Reached(d)'
    <2>1. /\ browserSub[d] # NoEndpoint /\ browserSub[d] = pushCall[c].endpoint
          /\ pushCall[c].token # Nobody
        BY <1>3, <1>4, <1>5, <1>9 DEF ReachedOn, Careful
    <2>2. browserSub[d] \in Endpoints
        BY <1>1, <2>1, PushConstants DEF PushTypeOK, Endpoints, NoEndpoint
    <2>3. pushRows'[browserSub[d]].user = pushCall[c].token
        BY <1>1, <1>5, <1>6, <2>1, <2>2, SavedRows DEF PushTyped
    <2> QED BY <1>6, <2>1, <2>3 DEF Reached, HasRow
<1>10. /\ pushManner' = pushManner /\ signedIn' = signedIn /\ created' = created
       /\ drops' \in Nat /\ strayed' = strayed /\ browserSub' = browserSub
       /\ pushPref' = pushPref
       /\ Quiet' => Quiet
    BY <1>1, <1>6 DEF Quiet
<1>11. Straight(pushCall[c], d) \/ d \in strayed BY <1>3, <1>4 DEF StraightOn
<1>12. CASE CallEnds(c) /\ Shows(c, pushPref[pushCall[c].on])
    <2>1. switch' = [switch EXCEPT ![d] = IF pushCall[c].page THEN pushPref[d] ELSE @]
        BY <1>3, <1>12 DEF Shows
    <2>2. PushTypeOK' BY <1>1, <1>5, <1>6, <1>7, <2>1 DEF PushTypeOK
    <2>3. \A f \in Devices \ {d} :
              /\ browserSub'[f] = browserSub[f] /\ pushPref'[f] = pushPref[f]
              /\ switch'[f] = switch[f]
        BY <1>1, <1>6, <2>1 DEF PushTypeOK
    <2>4. d \notin strayed' => signedIn[d] # Nobody /\ switch'[d] = pushPref'[d]
        <3> SUFFICES ASSUME d \notin strayed
                     PROVE signedIn[d] # Nobody /\ switch'[d] = pushPref'[d]
            BY <1>10
        <3>1. signedIn[d] # Nobody BY <1>5, <1>11 DEF Straight
        <3>2. CASE pushCall[c].page BY <1>1, <1>10, <2>1, <3>1, <3>2 DEF PushTypeOK
        <3>3. CASE ~pushCall[c].page
            <4>1. switch'[d] = switch[d] BY <1>1, <2>1, <3>3 DEF PushTypeOK
            <4>2. switch[d] /\ pushPref[d] BY <1>5, <1>11, <3>1, <3>3 DEF Straight
            <4>3. switch[d] \in BOOLEAN /\ pushPref[d] \in BOOLEAN BY <1>1 DEF PushTypeOK
            <4> QED BY <1>10, <3>1, <4>1, <4>2, <4>3
        <3> QED BY <1>5, <3>2, <3>3
    <2> QED BY <1>3, <1>7, <1>8, <1>9, <1>10, <1>12, <2>2, <2>3, <2>4, EndKept
<1>13. CASE pushCall' = [pushCall EXCEPT ![c].step = "saved"] /\ UNCHANGED switch
    <2>1. PICK k : k = [pushCall[c] EXCEPT !.step = "saved"] OBVIOUS
    <2>2. pushCall' = [pushCall EXCEPT ![c] = k] BY <1>13, <2>1
    <2>3. /\ k \in PushCallTypes /\ k.on = d /\ k.kind = "on" /\ k.step = "saved"
          /\ k.page = pushCall[c].page /\ k.endpoint = pushCall[c].endpoint
          /\ k.token = pushCall[c].token
        BY <1>3, <1>5, <2>1 DEF PushCallTypes
    <2>4. k # NoCall /\ CallMade(k, created')
        BY <1>5, <1>10, <2>3 DEF CallMade, NoCall, PushCallTypes
    <2>5. PushTypeOK' BY <1>1, <1>6, <1>7, <1>13 DEF PushTypeOK
    <2>6. DeletesDead'
        <3>1. \A b \in PushCalls : pushCall'[b] = IF b = c THEN k ELSE pushCall[b]
            BY <1>1, <2>2 DEF PushTyped
        <3> QED BY <1>1, <1>10, <2>3, <3>1, DeadStay
    <2>7. d \notin strayed' => Straight(k, d)' BY <1>10, <1>11, <1>13, <2>3, <1>5 DEF Straight
    <2>8. Quiet' => (pushPref'[d] => Reached(d)') /\ Careful(k, d)'
        BY <1>9, <1>10, <2>3 DEF Careful
    <2>9. \A f \in Devices \ {d} :
              /\ browserSub'[f] = browserSub[f] /\ pushPref'[f] = pushPref[f]
              /\ switch'[f] = switch[f]
        BY <1>10, <1>13
    <2>10. created' \in Nat /\ created <= created' BY <1>1, <1>10
    <2> QED BY <1>3, <1>7, <1>8, <1>10, <2>2, <2>3, <2>4, <2>5, <2>6, <2>7, <2>8, <2>9, <2>10,
               StepKept
<1> QED BY <1>12, <1>13 DEF Saved

\* The browser lets go of its subscription before the server does.
LEMMA FoundKept == ASSUME NEW c \in PushCalls, PushInv, Found(c) PROVE PushInv'
<1>1. PushTypeOK /\ PushTyped /\ DeletesDead /\ created \in Nat /\ drops \in Nat BY PushHeld
<1>2. pushCall[c] # NoCall BY DEF Found, NoCall
<1>3. PICK d \in Devices : d = pushCall[c].on /\ RunsOn(c, d) BY <1>2, StepFacts
<1>4. StraightOn(d) /\ ReachedOn(d) BY PushHeld
<1>5. /\ pushCall[c] \in PushCallTypes /\ pushCall[c].endpoint <= created
      /\ pushCall[c].step = "find" /\ pushCall[c].kind = "off"
    BY <1>2, StepFacts DEF Found, PushCallTypes
<1>6. /\ browserSub' = [browserSub EXCEPT ![d] = NoEndpoint]
      /\ UNCHANGED <<pushManner, signedIn, created, allowed, pushPref, switch, pushRows, notice,
                     notices, drops, strayed>>
    BY <1>3 DEF Found
<1>7. browserSub'[d] = NoEndpoint /\ \A f \in Devices \ {d} : browserSub'[f] = browserSub[f]
    BY <1>1, <1>6 DEF PushTypeOK
<1>8. PushTypeOK'
    <2>1. browserSub' \in [Devices -> 0 .. created]
        BY <1>1, <1>6 DEF PushTypeOK, NoEndpoint
    <2>2. \A e, f \in Devices : browserSub'[e] = browserSub'[f] /\ e # f => browserSub'[e] = NoEndpoint
        BY <1>1, <1>7 DEF PushTypeOK
    <2> QED BY <1>1, <1>6, <2>1, <2>2 DEF PushTypeOK
<1>9. /\ pushManner' = pushManner /\ signedIn' = signedIn /\ created' = created
      /\ drops' \in Nat /\ strayed' = strayed /\ switch' = switch
      /\ pushPref' = pushPref /\ pushRows' = pushRows
      /\ Quiet' => Quiet
      /\ pushRows' \in [Endpoints -> [user : People, number : Nat]]
    BY <1>1, <1>6 DEF Quiet, PushTyped
<1>10. Straight(pushCall[c], d) \/ d \in strayed BY <1>3, <1>4 DEF StraightOn
<1>11. ~Quiet \/ Careful(pushCall[c], d) BY <1>3, <1>4 DEF ReachedOn
<1>12. \A f \in Devices \ {d} :
          /\ browserSub'[f] = browserSub[f] /\ pushPref'[f] = pushPref[f]
          /\ switch'[f] = switch[f]
          /\ Quiet /\ HasRow(browserSub[f]) => pushRows'[browserSub[f]].user # Nobody
    BY <1>7, <1>9 DEF HasRow
<1>13. CASE pushCall[c].token = Nobody
    <2>1. CallEnds(c) BY <1>13 DEF Found, CallEnds
    <2>2. signedIn[d] # Nobody /\ d \notin strayed' => switch'[d] = pushPref'[d]
        BY <1>5, <1>9, <1>10, <1>13 DEF Straight
    <2>3. Quiet' => ~pushPref'[d] BY <1>5, <1>9, <1>11 DEF Careful
    <2>4. \A f \in Devices : browserSub'[f] \in {browserSub[f], NoEndpoint} BY <1>7
    <2> QED BY <1>3, <1>7, <1>8, <1>9, <1>12, <2>1, <2>2, <2>3, <2>4, EndKept
<1>14. CASE pushCall[c].token # Nobody
    <2>1. PICK e \in 0 .. created : e = browserSub[d] BY <1>1 DEF PushTypeOK
    <2>2. PICK k : k = [pushCall[c] EXCEPT !.step = "delete", !.endpoint = e] OBVIOUS
    <2>3. pushCall' = [pushCall EXCEPT ![c] = k]
        <3>1. pushCall' = [pushCall EXCEPT ![c].step = "delete", ![c].endpoint = browserSub[d]]
            BY <1>3, <1>14 DEF Found
        <3>2. \A b \in PushCalls : b # c => pushCall'[b] = pushCall[b] BY <1>1, <3>1 DEF PushTyped
        <3>3. pushCall'[c] = k BY <1>1, <2>1, <2>2, <3>1 DEF PushTyped
        <3>4. pushCall' = [b \in PushCalls |-> pushCall'[b]] BY <1>1, <3>1 DEF PushTyped
        <3> QED BY <1>1, <3>2, <3>3, <3>4 DEF PushTyped
    <2>4. /\ k \in PushCallTypes /\ k.on = d /\ k.kind = "off" /\ k.step = "delete"
          /\ k.page = pushCall[c].page /\ k.endpoint = e /\ k.token = pushCall[c].token
          /\ e <= created /\ e \in Nat
        <3>1. e <= created /\ e \in Nat BY <1>1, <2>1
        <3>2. k = [kind |-> pushCall[c].kind, page |-> pushCall[c].page, on |-> pushCall[c].on,
                   step |-> "delete", token |-> pushCall[c].token, endpoint |-> e]
            BY <1>5, <2>2 DEF PushCallTypes
        <3> QED BY <1>3, <1>5, <3>1, <3>2 DEF PushCallTypes
    <2>5. k # NoCall /\ CallMade(k, created')
        BY <1>9, <1>14, <2>4 DEF CallMade, NoCall, PushCallTypes
    <2>6. DeletesDead'
        <3>1. \A b \in PushCalls : pushCall'[b] = IF b = c THEN k ELSE pushCall[b]
            BY <1>1, <2>3 DEF PushTyped
        <3>2. Quiet => e # NoEndpoint BY <1>5, <1>11, <1>14, <2>1 DEF Careful
        <3>3. \A f \in Devices : e # NoEndpoint => browserSub'[f] # e
            BY <1>1, <1>7, <2>1 DEF PushTypeOK
        <3>4. \A g : g # NoEndpoint /\ ~Live(g) => \A f \in Devices : browserSub'[f] # g
            BY <1>7 DEF Live
        <3>5. ASSUME Quiet', NEW b \in PushCalls, pushCall'[b].step = "delete"
              PROVE /\ pushCall'[b].endpoint # NoEndpoint
                    /\ \A f \in Devices : browserSub'[f] # pushCall'[b].endpoint
            <4>1. CASE b = c BY <1>9, <2>4, <3>1, <3>2, <3>3, <3>5, <4>1
            <4>2. CASE b # c
                <5>1. pushCall'[b] = pushCall[b] BY <3>1, <4>2
                <5>2. pushCall[b].endpoint # NoEndpoint /\ ~Live(pushCall[b].endpoint)
                    BY <1>1, <1>9, <3>5, <5>1 DEF DeletesDead
                <5> QED BY <3>4, <5>1, <5>2
            <4> QED BY <4>1, <4>2
        <3> QED BY <3>5 DEF DeletesDead, Live
    <2>7. d \notin strayed' => Straight(k, d)' BY <1>5, <1>9, <1>10, <1>14, <2>4 DEF Straight
    <2>8. Quiet' => ~pushPref'[d] /\ Careful(k, d)'
        BY <1>5, <1>9, <1>11, <2>4 DEF Careful
    <2>9. created' \in Nat /\ created <= created' BY <1>1, <1>9
    <2> QED BY <1>3, <1>8, <1>9, <1>12, <2>3, <2>4, <2>5, <2>6, <2>7, <2>8, <2>9, StepKept
<1> QED BY <1>13, <1>14

\* A subscription is new, or the one that has its row.
LEMMA SubscribedKept == ASSUME NEW c \in PushCalls, PushInv, Subscribed(c) PROVE PushInv'
<1>1. PushTypeOK /\ PushTyped /\ DeletesDead /\ created \in Nat /\ drops \in Nat BY PushHeld
<1>2. pushCall[c] # NoCall BY DEF Subscribed, NoCall
<1>3. PICK d \in Devices : d = pushCall[c].on /\ RunsOn(c, d) BY <1>2, StepFacts
<1>4. StraightOn(d) /\ ReachedOn(d) BY PushHeld
<1>5. /\ pushCall[c] \in PushCallTypes /\ pushCall[c].endpoint <= created
      /\ pushCall[c].step = "subscribe" /\ pushCall[c].kind = "on" /\ pushCall[c].page \in BOOLEAN
    BY <1>2, StepFacts DEF Subscribed, PushCallTypes
<1>6. PICK e \in Endpoints :
         /\ e = IF browserSub[d] = NoEndpoint THEN created + 1 ELSE browserSub[d]
         /\ browserSub' = [browserSub EXCEPT ![d] = e]
         /\ created' = IF browserSub[d] = NoEndpoint THEN created + 1 ELSE created
    BY <1>3 DEF Subscribed
<1>7. UNCHANGED <<pushManner, signedIn, allowed, pushPref, pushRows, notice, notices,
                  drops, strayed>>
    BY DEF Subscribed
<1>8. browserSub'[d] = e /\ \A f \in Devices \ {d} : browserSub'[f] = browserSub[f]
    BY <1>1, <1>6 DEF PushTypeOK
<1>9. /\ created' \in Nat /\ created <= created' /\ e \in 1 .. created'
      /\ created' \in 0 .. MaxEndpoints
      /\ e = browserSub[d] \/ (created < e /\ browserSub[d] = NoEndpoint)
    BY <1>1, <1>6, PushConstants DEF PushTypeOK, Endpoints, NoEndpoint
<1>10. \A f \in Devices : browserSub[f] \in Nat /\ browserSub[f] <= created
    BY <1>1 DEF PushTypeOK
<1>11. /\ browserSub' \in [Devices -> 0 .. created']
       /\ \A f, g \in Devices : browserSub'[f] = browserSub'[g] /\ f # g =>
             browserSub'[f] = NoEndpoint
    <2>1. \A f \in Devices : browserSub'[f] \in 0 .. created' BY <1>1, <1>8, <1>9, <1>10
    <2>2. \A f \in Devices \ {d} : browserSub[f] # e
        BY <1>1, <1>9, <1>10 DEF PushTypeOK, NoEndpoint
    <2>3. browserSub' = [f \in Devices |-> browserSub'[f]] BY <1>1, <1>6 DEF PushTypeOK
    <2> QED BY <1>1, <1>8, <2>1, <2>2, <2>3 DEF PushTypeOK
<1>12. /\ pushManner' = pushManner /\ signedIn' = signedIn /\ drops' \in Nat
       /\ strayed' = strayed /\ pushPref' = pushPref /\ pushRows' = pushRows
       /\ Quiet' => Quiet
       /\ pushRows' \in [Endpoints -> [user : People, number : Nat]]
    BY <1>1, <1>7 DEF Quiet, PushTyped
<1>13. Straight(pushCall[c], d) \/ d \in strayed BY <1>3, <1>4 DEF StraightOn
<1>14. Quiet' => (pushPref'[d] => Reached(d)')
    BY <1>4, <1>8, <1>9, <1>12 DEF ReachedOn, Reached, HasRow
<1>15. \A f \in Devices \ {d} :
          /\ browserSub'[f] = browserSub[f] /\ pushPref'[f] = pushPref[f]
          /\ Quiet /\ HasRow(browserSub[f]) => pushRows'[browserSub[f]].user # Nobody
    BY <1>8, <1>12 DEF HasRow
<1>16. ASSUME NEW k, k.step # "delete", pushCall' = [pushCall EXCEPT ![c] = k]
       PROVE DeletesDead'
    <2>1. \A b \in PushCalls : pushCall'[b] = IF b = c THEN k ELSE pushCall[b]
        BY <1>1, <1>16 DEF PushTyped
    <2>2. ASSUME Quiet', NEW b \in PushCalls, pushCall'[b].step = "delete"
          PROVE /\ pushCall'[b].endpoint # NoEndpoint
                /\ \A f \in Devices : browserSub'[f] # pushCall'[b].endpoint
        <3>1. b # c /\ pushCall'[b] = pushCall[b] BY <1>16, <2>1, <2>2
        <3>2. pushCall[b].endpoint # NoEndpoint /\ ~Live(pushCall[b].endpoint)
            BY <1>1, <1>12, <2>2, <3>1 DEF DeletesDead
        <3>3. pushCall[b].endpoint \in Nat /\ pushCall[b].endpoint <= created
            <4>1. pushCall[b] # NoCall BY <2>2, <3>1 DEF NoCall
            <4> QED BY <4>1, StepFacts DEF PushCallTypes
        <3>4. e # pushCall[b].endpoint BY <1>1, <1>9, <3>2, <3>3 DEF Live
        <3>5. \A f \in Devices : browserSub[f] # pushCall[b].endpoint BY <3>2 DEF Live
        <3> QED BY <1>8, <3>1, <3>2, <3>4, <3>5
    <2> QED BY <2>2 DEF DeletesDead, Live
<1>17. CASE signedIn[d] = Nobody
    <2>1. /\ pushCall' = [pushCall EXCEPT ![c] = NoCall]
          /\ switch' = [switch EXCEPT ![d] = IF pushCall[c].page THEN pushPref[d] ELSE @]
        BY <1>3, <1>17 DEF Subscribed, CallEnds, Shows
    <2>2. d \in strayed BY <1>5, <1>13, <1>17 DEF Straight
    <2>3. PushTypeOK' BY <1>1, <1>5, <1>7, <1>9, <1>11, <2>1 DEF PushTypeOK
    <2>4. PICK k : k = NoCall OBVIOUS
    <2>5. CallMade(k, created') /\ k.step # "delete" BY <2>4 DEF CallMade, NoCall
    <2>6. DeletesDead' BY <1>16, <2>1, <2>4, <2>5
    <2>7. \A f \in Devices \ {d} : switch'[f] = switch[f] BY <1>1, <2>1 DEF PushTypeOK
    <2> QED BY <1>3, <1>9, <1>12, <1>14, <1>15, <2>1, <2>2, <2>3, <2>4, <2>5, <2>6, <2>7, StepKept
<1>18. CASE signedIn[d] # Nobody
    <2>1. PICK u \in People : u = signedIn[d] BY <1>1 DEF PushTypeOK
    <2>2. PICK k : k = [pushCall[c] EXCEPT !.step = "post", !.token = u, !.endpoint = e] OBVIOUS
    <2>3. switch' = switch /\ pushCall' = [pushCall EXCEPT ![c] = k]
        <3>1. /\ pushCall' = [pushCall EXCEPT ![c].step = "post", ![c].token = u, ![c].endpoint = e]
              /\ switch' = switch
            BY <1>3, <1>6, <1>18, <2>1 DEF Subscribed
        <3>2. \A b \in PushCalls : b # c => pushCall'[b] = pushCall[b] BY <1>1, <3>1 DEF PushTyped
        <3>3. pushCall'[c] = k BY <1>1, <2>2, <3>1 DEF PushTyped
        <3>4. pushCall' = [b \in PushCalls |-> pushCall'[b]] BY <1>1, <3>1 DEF PushTyped
        <3> QED BY <1>1, <3>1, <3>2, <3>3, <3>4 DEF PushTyped
    <2>4. /\ k \in PushCallTypes /\ k.on = d /\ k.kind = "on" /\ k.step = "post"
          /\ k.page = pushCall[c].page /\ k.endpoint = e /\ k.token = u
          /\ e <= created' /\ e \in Nat /\ e # NoEndpoint
        <3>1. e <= created' /\ e \in Nat /\ e # NoEndpoint BY <1>9 DEF NoEndpoint
        <3>2. k = [kind |-> pushCall[c].kind, page |-> pushCall[c].page, on |-> pushCall[c].on,
                   step |-> "post", token |-> u, endpoint |-> e]
            BY <1>5, <2>2 DEF PushCallTypes
        <3> QED BY <1>3, <1>5, <3>1, <3>2 DEF PushCallTypes
    <2>5. k # NoCall /\ CallMade(k, created') BY <2>4 DEF CallMade, NoCall, PushCallTypes
    <2>6. DeletesDead' BY <1>16, <2>3, <2>4
    <2>7. PushTypeOK' BY <1>1, <1>7, <1>9, <1>11, <2>3 DEF PushTypeOK
    <2>8. d \notin strayed' => Straight(k, d)' BY <1>5, <1>12, <1>13, <1>18, <2>3, <2>4 DEF Straight
    <2>9. Careful(k, d)' BY <1>8, <1>18, <2>1, <2>4 DEF Careful
    <2>10. \A f \in Devices \ {d} : switch'[f] = switch[f] BY <2>3
    <2> QED BY <1>3, <1>9, <1>12, <1>14, <1>15, <2>3, <2>4, <2>5, <2>6, <2>7, <2>8, <2>9, <2>10,
               StepKept
<1> QED BY <1>17, <1>18

\* A session expires: the device strays.
LEMMA SessionEndsKept == ASSUME NEW d \in Devices, PushInv, SessionEnds(d) PROVE PushInv'
<1>1. /\ PushTypeOK /\ PushTyped /\ drops \in Nat
      /\ \A f \in Devices : StraightOn(f) /\ ReachedOn(f)
    BY PushHeld
<1>2. /\ drops' = drops + 1 /\ strayed' = strayed \cup {d}
      /\ signedIn' = [signedIn EXCEPT ![d] = Nobody] /\ pushCall' = PageLeft(d)
      /\ UNCHANGED <<pushManner, browserSub, created, allowed, pushPref, switch, pushRows,
                     notice, notices>>
    BY DEF SessionEnds
<1>3. drops' \in Nat /\ ~Quiet' BY <1>1, <1>2 DEF Quiet
<1>4. PushTypeOK' BY <1>1, <1>2 DEF PushTypeOK, People
<1>5. \A b \in PushCalls : IF RunsOn(b, d) THEN pushCall'[b] = [pushCall[b] EXCEPT !.page = FALSE]
                           ELSE pushCall'[b] = pushCall[b]
    BY <1>2 DEF PageLeft, RunsOn
<1>6. ASSUME NEW b \in PushCalls, RunsOn(b, d)
      PROVE pushCall'[b] # NoCall /\ pushCall'[b].on = d /\ CallMade(pushCall'[b], created)
    <2>1. /\ pushCall[b] # NoCall /\ CallMade(pushCall[b], created)
          /\ pushCall[b] \in PushCallTypes /\ pushCall[b].on = d
        BY <1>1, <1>6 DEF RunsOn, CallMade, PushTyped
    <2>2. pushCall'[b] = [pushCall[b] EXCEPT !.page = FALSE] BY <1>5, <1>6
    <2>3. /\ pushCall'[b] \in PushCallTypes /\ pushCall'[b].on = d
          /\ pushCall'[b].step = pushCall[b].step /\ pushCall'[b].endpoint = pushCall[b].endpoint
          /\ pushCall'[b].kind = pushCall[b].kind /\ pushCall'[b].token = pushCall[b].token
          /\ pushCall'[b].page = FALSE
        BY <2>1, <2>2 DEF PushCallTypes
    <2>4. pushCall'[b] # NoCall BY <2>3 DEF PushCallTypes, NoCall
    <2> QED BY <2>1, <2>3, <2>4 DEF CallMade
<1>7. PushTyped'
    <2>1. \A b \in PushCalls : CallMade(pushCall'[b], created) BY <1>1, <1>5, <1>6 DEF PushTyped
    <2>2. pushCall' = [b \in PushCalls |-> pushCall'[b]] BY <1>2 DEF PageLeft
    <2> QED BY <1>1, <1>2, <1>3, <1>4, <2>1, <2>2 DEF PushTyped
<1>8. \A f \in Devices, b \in PushCalls :
          /\ pushCall'[b] # NoCall /\ pushCall'[b].on = f <=> RunsOn(b, f)
          /\ f # d /\ RunsOn(b, f) => pushCall'[b] = pushCall[b]
    BY <1>5, <1>6 DEF RunsOn
<1>9. DeletesDead' BY <1>3 DEF DeletesDead
<1>10. ASSUME NEW f \in Devices, f # d PROVE StraightOn(f)' /\ ReachedOn(f)'
    <2>1. /\ StraightOn(f) /\ ReachedOn(f)
          /\ signedIn'[f] = signedIn[f] /\ browserSub'[f] = browserSub[f]
          /\ pushPref'[f] = pushPref[f] /\ switch'[f] = switch[f]
          /\ f \in strayed' <=> f \in strayed
          /\ pushManner' = pushManner
        BY <1>1, <1>2, <1>10 DEF PushTypeOK
    <2>2. /\ \A b \in PushCalls : RunsOn(b, f)' <=> RunsOn(b, f)
          /\ \A b \in PushCalls : RunsOn(b, f) => pushCall'[b] = pushCall[b]
        BY <1>8, <1>10 DEF RunsOn
    <2>3. Quiet' => Quiet BY <1>3
    <2>4. Quiet /\ Reached(f) => Reached(f)' BY <1>2 DEF Reached, HasRow
    <2> QED BY <2>1, <2>2, <2>3, <2>4, OtherDevice
<1>11. StraightOn(d)' BY <1>2 DEF StraightOn
<1>12. ReachedOn(d)'
    <2>1. pushManner' = "serial" => OneCallOn(d)
        BY <1>1, <1>2 DEF ReachedOn
    <2>2. OneCallOn(d) => OneCallOn(d)' BY <1>8 DEF OneCallOn, RunsOn
    <2> QED BY <1>3, <2>1, <2>2 DEF ReachedOn
<1> QED BY <1>7, <1>9, <1>10, <1>11, <1>12 DEF PushInv

\* Nothing changes in the calls and the rows: what is asked of each device is the same.
LEMMA BrowserDropsKept == ASSUME NEW d \in Devices, PushInv, BrowserDrops(d) PROVE PushInv'
<1>1. /\ PushTypeOK /\ PushTyped /\ drops \in Nat
      /\ \A f \in Devices : StraightOn(f) /\ ReachedOn(f)
    BY PushHeld
<1>2. /\ drops' = drops + 1 /\ browserSub' = [browserSub EXCEPT ![d] = NoEndpoint]
      /\ UNCHANGED <<pushManner, signedIn, created, allowed, pushPref, switch, pushRows,
                     pushCall, notice, notices, strayed>>
    BY DEF BrowserDrops
<1>3. drops' \in Nat /\ ~Quiet' BY <1>1, <1>2 DEF Quiet
<1>4. browserSub'[d] = NoEndpoint /\ \A f \in Devices \ {d} : browserSub'[f] = browserSub[f]
    BY <1>1, <1>2 DEF PushTypeOK
<1>5. PushTypeOK'
    <2>1. browserSub' \in [Devices -> 0 .. created]
        BY <1>1, <1>2 DEF PushTypeOK, NoEndpoint
    <2>2. \A e, f \in Devices : browserSub'[e] = browserSub'[f] /\ e # f => browserSub'[e] = NoEndpoint
        BY <1>1, <1>4 DEF PushTypeOK
    <2> QED BY <1>1, <1>2, <2>1, <2>2 DEF PushTypeOK
<1>6. PushTyped' BY <1>1, <1>2, <1>3, <1>5 DEF PushTyped
<1>7. DeletesDead' BY <1>3 DEF DeletesDead
<1>8. ASSUME NEW f \in Devices PROVE StraightOn(f)' /\ ReachedOn(f)'
    <2>1. \A c \in PushCalls : Straight(pushCall[c], f)' <=> Straight(pushCall[c], f)
        BY <1>2 DEF Straight
    <2>2. browserSub[f] = NoEndpoint => browserSub'[f] = NoEndpoint BY <1>4
    <2>3. StraightOn(f)'
        BY <1>1, <1>2, <2>1, <2>2 DEF StraightOn, OneCallOn, RunsOn, Calling
    <2>4. ReachedOn(f)' BY <1>1, <1>2, <1>3 DEF ReachedOn, OneCallOn, RunsOn
    <2> QED BY <2>3, <2>4
<1> QED BY <1>6, <1>7, <1>8 DEF PushInv

\* Only rows change, and none that a browser listens to is lost.
LEMMA RowsKept ==
    ASSUME PushInv, pushRows' \in [Endpoints -> [user : People, number : Nat]],
           UNCHANGED <<pushManner, signedIn, browserSub, created, allowed, pushPref, switch,
                       pushCall, drops, strayed>>,
           \A d \in Devices : Reached(d) => Reached(d)'
    PROVE PushInv'
<1>1. /\ PushTypeOK /\ PushTyped /\ DeletesDead
      /\ \A f \in Devices : StraightOn(f) /\ ReachedOn(f)
    BY PushHeld
<1>2. PushTyped' BY <1>1 DEF PushTyped, PushTypeOK
<1>3. DeletesDead' BY <1>1 DEF DeletesDead, Live, Quiet
<1>4. ASSUME NEW f \in Devices PROVE StraightOn(f)' /\ ReachedOn(f)'
    <2>1. /\ StraightOn(f) /\ ReachedOn(f)
          /\ signedIn'[f] = signedIn[f] /\ browserSub'[f] = browserSub[f]
          /\ pushPref'[f] = pushPref[f] /\ switch'[f] = switch[f]
          /\ f \in strayed' <=> f \in strayed
          /\ \A b \in PushCalls : RunsOn(b, f)' <=> RunsOn(b, f)
          /\ \A b \in PushCalls : RunsOn(b, f) => pushCall'[b] = pushCall[b]
          /\ pushManner' = pushManner
          /\ Quiet' => Quiet
        BY <1>1 DEF RunsOn, Quiet
    <2>2. Quiet /\ Reached(f) => Reached(f)' OBVIOUS
    <2> QED BY <2>1, <2>2, OtherDevice
<1> QED BY <1>2, <1>3, <1>4 DEF PushInv

\* An announcement sweeps rows that no browser listens to.
LEMMA SendToKept == ASSUME NEW r, PushInv, SendTo(r) PROVE PushInv'
<1>1. PushTypeOK /\ PushTyped BY PushHeld
<1>2. /\ pushRows' = Swept(r)
      /\ UNCHANGED <<pushManner, signedIn, browserSub, created, allowed, pushPref, switch,
                     pushCall, drops, strayed>>
    BY DEF SendTo
<1>3. \/ pushRows' = pushRows
      \/ ~Live(r[1]) /\ pushRows' = [pushRows EXCEPT ![r[1]].user = Nobody]
    BY <1>2 DEF Swept
<1>4. pushRows' \in [Endpoints -> [user : People, number : Nat]]
    BY <1>1, <1>3 DEF PushTyped, People
<1>5. ASSUME NEW d \in Devices, Reached(d) PROVE Reached(d)'
    <2>1. browserSub[d] \in Endpoints /\ HasRow(browserSub[d]) /\ Live(browserSub[d])
        BY <1>1, <1>5, PushConstants DEF PushTypeOK, Endpoints, NoEndpoint, Reached, Live
    <2>2. pushRows'[browserSub[d]] = pushRows[browserSub[d]] BY <1>1, <1>3, <2>1 DEF PushTyped
    <2> QED BY <1>2, <1>5, <2>1, <2>2 DEF Reached, HasRow
<1> QED BY <1>2, <1>4, <1>5, RowsKept

\* Every step keeps the invariant.
LEMMA PushKept == PushInv /\ [PushNext]_pushVars => PushInv'
<1> SUFFICES ASSUME PushInv, [PushNext]_pushVars PROVE PushInv' OBVIOUS
<1>1. ASSUME NEW own \in BOOLEAN, Announce(own) PROVE PushInv'
    <2>1. UNCHANGED <<pushManner, signedIn, browserSub, created, allowed, pushPref, switch,
                      pushRows, pushCall, drops, strayed>>
        BY <1>1 DEF Announce
    <2> QED BY <2>1, PushHeld, RowsKept DEF PushTyped, Reached, HasRow
<1>2. ASSUME UNCHANGED pushVars PROVE PushInv'
    <2>1. UNCHANGED <<pushManner, signedIn, browserSub, created, allowed, pushPref, switch,
                      pushRows, pushCall, drops, strayed>>
        BY <1>2 DEF pushVars
    <2> QED BY <2>1, PushHeld, RowsKept DEF PushTyped, Reached, HasRow
<1>3. ASSUME NEW d \in Devices,
             \/ \E u \in Staff : SignIn(d, u)
             \/ SessionEnds(d) \/ BrowserDrops(d)
             \/ \E c \in PushCalls : \/ SignOut(c, d) \/ TurnOff(c, d)
                                     \/ \E onPage \in BOOLEAN : TurnOn(c, d, onPage)
      PROVE PushInv'
    BY <1>3, SignInKept, SessionEndsKept, BrowserDropsKept, SignOutKept, TurnOffKept, TurnOnKept
<1>4. ASSUME NEW c \in PushCalls,
             \/ Asked(c) \/ TurnOnFails(c) \/ Subscribed(c) \/ Saved(c)
             \/ TurnedOn(c) \/ Found(c) \/ FindFails(c) \/ TurnedOff(c)
      PROVE PushInv'
    BY <1>4, AskedKept, TurnOnFailsKept, SubscribedKept, SavedKept, TurnedOnKept, FoundKept,
       FindFailsKept, TurnedOffKept
<1>5. ASSUME NEW r \in notice.left, SendTo(r) PROVE PushInv' BY <1>5, SendToKept
<1> QED BY <1>1, <1>2, <1>3, <1>4, <1>5 DEF PushNext

\* The invariant is what is promised, and more.
LEMMA PushImplies == PushInv => PushSound
<1> SUFFICES ASSUME PushInv PROVE PushSound OBVIOUS
<1>1. PushTypeOK /\ \A d \in Devices : StraightOn(d) /\ ReachedOn(d) BY PushHeld
<1>2. OnIsReached BY <1>1 DEF OnIsReached, ReachedOn, Quiet, Reached
<1>3. SignedOutIsSilent BY <1>1 DEF SignedOutIsSilent, StraightOn
<1>4. SwitchIsPref BY <1>1 DEF SwitchIsPref, StraightOn
<1> QED BY <1>1, <1>2, <1>3, <1>4 DEF PushSound

\* For any devices, staff and numbers of calls (StaffPush): a switch that is on, with calls in
\* turn and nothing lost, has its row on the server, whatever others turn off and whatever an
\* announcement sweeps; a device that was signed out listens to nothing; and the page shows the
\* preference that the next page reads, unless calls ran side by side or one failed.
THEOREM NoticesArrive == PushSpec => []PushSound
<1>1. PushInv /\ [PushNext]_pushVars => PushInv' BY PushKept
<1> QED BY <1>1, PushStarts, PushImplies, PTL DEF PushSpec


-----------------------------------------------------------------------------
(* Reports: days of any length *)

LEMMA DaysOf ==
    ASSUME NEW d \in Nat \ {0}, NEW a \in Int
    PROVE /\ a \div d \in Int
          /\ d * (a \div d) <= a /\ a < d * (a \div d) + d
<1>1. a = d * (a \div d) + (a % d) /\ a \div d \in Int /\ a % d \in 0 .. d - 1 OBVIOUS
<1> DEFINE q == a \div d
           r == a % d
<1> HIDE DEF q, r
<1>2. d * q \in Int BY <1>1 DEF q
<1>3. a = d * q + r /\ r \in 0 .. d - 1 BY <1>1 DEF q, r
<1>4. d * q <= a /\ a < d * q + d BY <1>2, <1>3
<1> QED BY <1>1, <1>4 DEF q

LEMMA TimesMonotone ==
    ASSUME NEW d \in Nat, NEW a \in Int, NEW b \in Int, a <= b
    PROVE d * a <= d * b
<1>1. PICK k \in Nat : b = a + k OBVIOUS
<1>2. d * b = d * a + d * k BY <1>1
<1>3. d * k \in Nat /\ d * a \in Int OBVIOUS
<1> QED BY <1>2, <1>3

\* A later instant is on no earlier day.
LEMMA DaysMonotone ==
    ASSUME NEW d \in Nat \ {0}, NEW a \in Int, NEW b \in Int, a <= b
    PROVE a \div d <= b \div d
<1> DEFINE p == a \div d
           q == b \div d
<1>1. p \in Int /\ d * p <= a /\ a < d * p + d BY DaysOf
<1>2. q \in Int /\ d * q <= b /\ b < d * q + d BY DaysOf
<1> HIDE DEF p, q
<1>3. ASSUME q + 1 <= p PROVE FALSE
    <2>1. d * (q + 1) <= d * p BY <1>1, <1>2, <1>3, TimesMonotone
    <2>2. d * (q + 1) = d * q + d BY <1>2
    <2>3. d * q \in Int /\ d * p \in Int BY <1>1, <1>2
    <2> QED BY <1>1, <1>2, <2>1, <2>2, <2>3
<1> QED BY <1>1, <1>2, <1>3 DEF p, q

\* The day that begins with an instant.
LEMMA DayBegins ==
    ASSUME NEW d \in Nat \ {0}, NEW q \in Int
    PROVE (q * d) \div d = q
<1> DEFINE p == (q * d) \div d
<1>1. q * d \in Int /\ q * d = d * q OBVIOUS
<1>2. p \in Int /\ d * p <= d * q /\ d * q < d * p + d BY <1>1, DaysOf
<1> HIDE DEF p
<1>3. ASSUME p + 1 <= q PROVE FALSE
    <2>1. d * (p + 1) <= d * q BY <1>2, <1>3, TimesMonotone
    <2>2. d * (p + 1) = d * p + d BY <1>2
    <2>3. d * q \in Int /\ d * p \in Int BY <1>2
    <2> QED BY <1>2, <2>1, <2>2, <2>3
<1>4. ASSUME q + 1 <= p PROVE FALSE
    <2>1. d * (q + 1) <= d * p BY <1>2, <1>4, TimesMonotone
    <2>2. d * (q + 1) = d * q + d OBVIOUS
    <2>3. d * q \in Int /\ d * p \in Int BY <1>2
    <2> QED BY <1>2, <2>1, <2>2, <2>3
<1> QED BY <1>2, <1>3, <1>4 DEF p

\* So many days earlier.
LEMMA DaysBack ==
    ASSUME NEW d \in Nat \ {0}, NEW a \in Int, NEW n \in Int
    PROVE (a - d * n) \div d = (a \div d) - n
<1> DEFINE p == (a - d * n) \div d
           q == a \div d
<1>1. q \in Int /\ d * q <= a /\ a < d * q + d BY DaysOf
<1>2. p \in Int /\ d * p <= a - d * n /\ a - d * n < d * p + d
    <2>1. a - d * n \in Int OBVIOUS
    <2> QED BY <2>1, DaysOf
<1> HIDE DEF p, q
<1>3. d * (p + n) = d * p + d * n /\ d * p \in Int /\ d * n \in Int /\ d * q \in Int
    BY <1>1, <1>2
<1>4. PICK m \in Int : m = p + n BY <1>2
<1>5. d * m <= a /\ a < d * m + d BY <1>2, <1>3, <1>4
<1>6. ASSUME NEW x \in Int, NEW y \in Int, x + 1 <= y, d * y <= a, a < d * x + d PROVE FALSE
    <2>1. d * (x + 1) <= d * y BY <1>6, TimesMonotone
    <2>2. d * (x + 1) = d * x + d OBVIOUS
    <2>3. d * x \in Int /\ d * y \in Int OBVIOUS
    <2> QED BY <1>6, <2>1, <2>2, <2>3
<1>7. ~(m + 1 <= q) /\ ~(q + 1 <= m) BY <1>1, <1>5, <1>6
<1>8. m = q BY <1>1, <1>7
<1> QED BY <1>1, <1>2, <1>4, <1>8 DEF p, q

LEMMA DaysApart == \A d, q, i \in Int : q * d - i * d = (q - i) * d
OBVIOUS

-----------------------------------------------------------------------------
(* The calendar *)

LEMMA YearTyped == DaysBefore \in [1 .. 13 -> Nat]
BY DEF DaysBefore

LEMMA FirstDayTyped == \A m \in Int : FirstDay(m) \in Int
<1> SUFFICES ASSUME NEW m \in Int PROVE FirstDay(m) \in Int OBVIOUS
<1>1. (m - 1) \div 12 \in Int /\ ((m - 1) % 12) + 1 \in 1 .. 13 OBVIOUS
<1>2. DaysBefore[((m - 1) % 12) + 1] \in Nat BY <1>1, YearTyped
<1> QED BY <1>1, <1>2 DEF FirstDay

\* Where a year has its months.
LEMMA MonthsOfYear ==
    \A y \in Int, k \in 1 .. 12 : FirstDay(12 * y + k) = y * 365 + DaysBefore[k]
<1> SUFFICES ASSUME NEW y \in Int, NEW k \in 1 .. 12
             PROVE FirstDay(12 * y + k) = y * 365 + DaysBefore[k]
    OBVIOUS
<1>1. (12 * y + k - 1) \div 12 = y /\ ((12 * y + k - 1) % 12) + 1 = k OBVIOUS
<1> QED BY <1>1 DEF FirstDay

\* Later months begin later.
LEMMA MonthsMonotone ==
    ASSUME NEW m \in Int, NEW n \in Int, m <= n
    PROVE FirstDay(m) <= FirstDay(n)
<1>1. PICK y \in Int : y = (m - 1) \div 12 OBVIOUS
<1>2. PICK k \in 1 .. 12 : k = ((m - 1) % 12) + 1 OBVIOUS
<1>3. PICK z \in Int : z = (n - 1) \div 12 OBVIOUS
<1>4. PICK l \in 1 .. 12 : l = ((n - 1) % 12) + 1 OBVIOUS
<1>5. m = 12 * y + k /\ n = 12 * z + l BY <1>1, <1>2, <1>3, <1>4
<1>6. FirstDay(m) = y * 365 + DaysBefore[k] /\ FirstDay(n) = z * 365 + DaysBefore[l]
    BY <1>5, MonthsOfYear
<1>7. PICK a \in 0 .. 334 : a = DaysBefore[k]
    <2>1. \A i \in 1 .. 12 : DaysBefore[i] \in 0 .. 334 BY DEF DaysBefore
    <2> QED BY <2>1
<1>8. PICK b \in 0 .. 334 : b = DaysBefore[l]
    <2>1. \A i \in 1 .. 12 : DaysBefore[i] \in 0 .. 334 BY DEF DaysBefore
    <2> QED BY <2>1
<1>9. CASE y < z BY <1>6, <1>7, <1>8, <1>9
<1>10. CASE y = z
    <2>1. k <= l BY <1>5, <1>10
    <2>2. a <= b BY <1>7, <1>8, <2>1 DEF DaysBefore
    <2> QED BY <1>6, <1>7, <1>8, <1>10, <2>2
<1>11. y <= z BY <1>5
<1> QED BY <1>9, <1>10, <1>11

LEMMA YearsBegin == FirstDay(1) = 0 /\ FirstDay(85) = 2555
<1>1. PICK y \in Int : y = 7 OBVIOUS
<1>2. PICK z \in Int : z = 0 OBVIOUS
<1>3. PICK k \in 1 .. 12 : k = 1 OBVIOUS
<1>4. FirstDay(12 * y + k) = y * 365 + DaysBefore[k] BY MonthsOfYear
<1>5. FirstDay(12 * z + k) = z * 365 + DaysBefore[k] BY MonthsOfYear
<1>6. DaysBefore[k] = 0 BY <1>3 DEF DaysBefore
<1>7. 12 * y + k = 85 /\ 12 * z + k = 1 /\ y * 365 + 0 = 2555 /\ z * 365 + 0 = 0
    BY <1>1, <1>2, <1>3
<1> QED BY <1>4, <1>5, <1>6, <1>7

\* A day of the calendar has a month.
LEMMA MonthThere ==
    ASSUME NEW d \in Nat, d < FirstDay(85)
    PROVE \E m \in Months : FirstDay(m) <= d /\ d < FirstDay(m + 1)
<1>1. FirstDay(85) = 2555 BY YearsBegin
<1>2. PICK y \in 0 .. 6 : y = d \div 365 BY <1>1
<1>3. PICK rest \in 0 .. 364 : rest = d % 365 OBVIOUS
<1>4. d = y * 365 + rest BY <1>2, <1>3
<1>5. PICK k \in 1 .. 12 : DaysBefore[k] <= rest /\ rest < DaysBefore[k + 1]
    BY <1>3 DEF DaysBefore
<1>6. DaysBefore[k] \in Nat /\ DaysBefore[k + 1] \in Nat BY YearTyped
<1>7. FirstDay(12 * y + k) = y * 365 + DaysBefore[k] BY MonthsOfYear
<1>8. FirstDay(12 * y + k + 1) = y * 365 + DaysBefore[k + 1]
    <2>1. CASE k < 12
        <3>1. k + 1 \in 1 .. 12 /\ 12 * y + k + 1 = 12 * y + (k + 1) BY <2>1
        <3> QED BY <3>1, MonthsOfYear
    <2>2. CASE k = 12
        <3>1. PICK z \in Int : z = y + 1 OBVIOUS
        <3>2. 1 \in 1 .. 12 OBVIOUS
        <3>3. FirstDay(12 * z + 1) = z * 365 + DaysBefore[1] BY <3>2, MonthsOfYear
        <3>4. DaysBefore[1] = 0 /\ DaysBefore[13] = 365 BY DEF DaysBefore
        <3>5. 12 * y + k + 1 = 12 * z + 1 /\ k + 1 = 13 BY <2>2, <3>1
        <3> QED BY <3>1, <3>3, <3>4, <3>5
    <2> QED BY <2>1, <2>2
<1>9. 12 * y + k \in Months BY DEF Months
<1>10. FirstDay(12 * y + k) <= d BY <1>4, <1>5, <1>6, <1>7
<1>11. d < FirstDay(12 * y + k + 1) BY <1>4, <1>5, <1>6, <1>8
<1> QED BY <1>9, <1>10, <1>11

LEMMA MonthTyped ==
    ASSUME NEW u \in Int, CalendarDay(u) \in Nat, CalendarDay(u) < FirstDay(85)
    PROVE /\ MonthOf(u) \in Months
          /\ FirstDay(MonthOf(u)) <= CalendarDay(u) /\ CalendarDay(u) < FirstDay(MonthOf(u) + 1)
<1>1. \E m \in Months : FirstDay(m) <= CalendarDay(u) /\ CalendarDay(u) < FirstDay(m + 1)
    BY MonthThere
<1> QED BY <1>1 DEF MonthOf

LEMMA DayTyped == \A t \in Int : CalendarDay(t) \in Int
<1> SUFFICES ASSUME NEW t \in Int PROVE CalendarDay(t) \in Int OBVIOUS
<1>1. t + Offset \in Int /\ DayLength \in Nat \ {0} BY ReportAssumption
<1> QED BY <1>1, DaysOf DEF CalendarDay

\* A moment is late enough in the calendar to look back from.
LEMMA MomentMonth ==
    ASSUME NEW t \in Moments
    PROVE MonthOf(t) \in 61 .. 84 /\ FirstDay(MonthOf(t)) <= CalendarDay(t)
<1>1. t \in Int BY ReportAssumption
<1>2. CalendarDay(t) \in Int /\ FirstDay(61) <= CalendarDay(t) /\ CalendarDay(t) < FirstDay(85)
    BY <1>1, DayTyped, MomentAssumption
<1>3. PICK a \in Int : a = FirstDay(61) BY FirstDayTyped
<1>4. 0 <= a
    <2>1. FirstDay(1) <= FirstDay(61) BY MonthsMonotone
    <2> QED BY <1>3, <2>1, YearsBegin
<1>5. CalendarDay(t) \in Nat BY <1>2, <1>3, <1>4
<1>6. PICK m \in Months : m = MonthOf(t) BY <1>1, <1>2, <1>5, MonthTyped
<1>7. FirstDay(m) <= CalendarDay(t) /\ CalendarDay(t) < FirstDay(m + 1)
    BY <1>1, <1>2, <1>5, <1>6, MonthTyped
<1>8. m \in Nat /\ m <= 84 BY DEF Months
<1>9. ASSUME m + 1 <= 61 PROVE FALSE
    <2>1. m + 1 \in Int /\ 61 \in Int BY <1>8
    <2>2. FirstDay(m + 1) <= FirstDay(61) BY <1>9, <2>1, MonthsMonotone
    <2>3. FirstDay(m + 1) \in Int BY <2>1, FirstDayTyped
    <2> QED BY <1>2, <1>3, <1>7, <2>2, <2>3
<1>10. m \in 61 .. 84 BY <1>8, <1>9
<1> QED BY <1>6, <1>7, <1>10

\* Ever is later than any moment.
LEMMA EverIsLate == \A t \in Moments : t + 1 <= Ever /\ Ever \in Int
<1> SUFFICES ASSUME NEW t \in Moments PROVE t + 1 <= Ever /\ Ever \in Int OBVIOUS
<1>1. t \in Nat /\ Offset \in Nat /\ DayLength \in Nat \ {0} BY ReportAssumption
<1>2. PICK day \in Int : /\ day = CalendarDay(t)
                         /\ t + Offset < DayLength * day + DayLength
    <2>1. t + Offset \in Int BY <1>1
    <2> QED BY <1>1, <2>1, DaysOf DEF CalendarDay
<1>3. PICK last \in Int : last = FirstDay(85) BY FirstDayTyped
<1>4. day + 1 <= last BY <1>2, <1>3, MomentAssumption
<1>5. DayLength * (day + 1) <= DayLength * last BY <1>1, <1>4, TimesMonotone
<1>6. DayLength * (day + 1) = DayLength * day + DayLength BY <1>1
<1>7. Ever = DayLength * last /\ Ever \in Int BY <1>1, <1>3 DEF Ever
<1>8. DayLength * day \in Int BY <1>1
<1> QED BY <1>1, <1>2, <1>5, <1>6, <1>7, <1>8

-----------------------------------------------------------------------------
(* The periods *)

LEMMA BackTyped ==
    ASSUME NEW t \in Moments
    PROVE (\A days \in Int : Back(t, days) \in Int) /\ t \in Int
<1>1. t \in Int /\ DayLength \in Int BY ReportAssumption
<1> QED BY <1>1 DEF Back

\* Some months earlier there is a calendar still.
LEMMA MonthsBackTyped ==
    ASSUME NEW t \in Moments, NEW k \in 0 .. 60
    PROVE /\ MonthsBack(t, k) \in Int /\ CalendarDay(MonthsBack(t, k)) \in Int
          /\ MonthOf(MonthsBack(t, k)) \in Int
<1>1. t \in Int /\ DayLength \in Nat \ {0} /\ Offset \in Int BY ReportAssumption
<1>2. PICK m \in 61 .. 84 : m = MonthOf(t) /\ FirstDay(m) <= CalendarDay(t) BY MomentMonth
<1>3. m \in Int /\ m - k \in Int /\ 1 <= m - k /\ m - k <= m OBVIOUS
<1>4. PICK a \in Int : a = FirstDay(m) BY <1>3, FirstDayTyped
<1>5. PICK b \in Int : b = FirstDay(m - k) BY <1>3, FirstDayTyped
<1>6. 0 <= b /\ b <= a
    <2>1. FirstDay(1) <= FirstDay(m - k) BY <1>3, MonthsMonotone
    <2>2. FirstDay(m - k) <= FirstDay(m) BY <1>3, MonthsMonotone
    <2> QED BY <1>4, <1>5, <2>1, <2>2, YearsBegin
<1>7. PICK u \in Int : u = t - DayLength * (a - b) BY <1>1
<1>8. MonthsBack(t, k) = u BY <1>2, <1>4, <1>5, <1>7 DEF MonthsBack
<1>9. PICK day \in Int : day = CalendarDay(t) BY <1>1, DayTyped
<1>10. CalendarDay(u) = day - (a - b)
    <2>1. PICK n \in Int : n = a - b OBVIOUS
    <2>2. PICK i \in Int : i = t + Offset BY <1>1
    <2>3. DayLength * n \in Int BY <1>1
    <2>4. u + Offset = i - DayLength * n BY <1>1, <1>7, <2>1, <2>2, <2>3
    <2>5. (i - DayLength * n) \div DayLength = (i \div DayLength) - n BY <1>1, DaysBack
    <2>6. CalendarDay(u) = (i - DayLength * n) \div DayLength BY <2>4 DEF CalendarDay
    <2>7. day = i \div DayLength BY <1>9, <2>2 DEF CalendarDay
    <2> QED BY <2>1, <2>5, <2>6, <2>7
<1>11. CalendarDay(u) \in Nat /\ CalendarDay(u) < FirstDay(85)
    <2>1. a <= day /\ day < FirstDay(85) BY <1>2, <1>4, <1>9, MomentAssumption
    <2> QED BY <1>6, <1>10, <2>1, YearsBegin
<1>12. MonthOf(u) \in Months BY <1>11, MonthTyped
<1> QED BY <1>8, <1>11, <1>12 DEF Months

LEMMA FirstTyped ==
    ASSUME NEW u \in Int, CalendarDay(u) \in Int, MonthOf(u) \in Int
    PROVE FirstOfMonth(u) \in Int /\ FirstOfYear(u) \in Int
<1>1. DayLength \in Int BY ReportAssumption
<1>2. FirstDay(MonthOf(u)) \in Int BY FirstDayTyped
<1>3. MonthOf(u) - ((MonthOf(u) - 1) % 12) \in Int
    <2>1. (MonthOf(u) - 1) % 12 \in Int OBVIOUS
    <2> QED BY <2>1
<1>4. FirstDay(MonthOf(u) - ((MonthOf(u) - 1) % 12)) \in Int BY <1>3, FirstDayTyped
<1>5. FirstOfMonth(u) \in Int BY <1>1, <1>2 DEF FirstOfMonth
<1>6. FirstOfYear(u) \in Int BY <1>1, <1>4 DEF FirstOfYear
<1> QED BY <1>5, <1>6

\* The periods of the analytics touch without sharing an instant ...
LEMMA SpanFacts ==
    ASSUME NEW t, NEW now \in Moments
    PROVE /\ Span(t, now).end = now
          /\ Span(t, now).start \in Int /\ Span(t, now).prevStart \in Int
          /\ Span(t, now).prevEnd = Span(t, now).start - 1
          /\ t = "day" => Span(t, now).start = Back(now, 1)
          /\ t = "week" => Span(t, now).start = Back(now, 7)
<1>1. PICK start : start = CASE t = "day" -> Back(now, 1) [] t = "week" -> Back(now, 7)
                             [] OTHER -> MonthsBack(now, 1)
    OBVIOUS
<1>2. start \in Int
    <2>1. Back(now, 1) \in Int /\ Back(now, 7) \in Int BY BackTyped
    <2>2. MonthsBack(now, 1) \in Int BY MonthsBackTyped
    <2> QED BY <1>1, <2>1, <2>2
<1>3. Span(t, now) = [start |-> start, end |-> now, prevEnd |-> start - 1,
                      prevStart |-> start - 1 - (now - start)]
    BY <1>1 DEF Span
<1>4. now \in Int BY BackTyped
<1>5. start - 1 - (now - start) \in Int BY <1>2, <1>4
<1> QED BY <1>1, <1>2, <1>3, <1>5

\* ... and so do the months of a seller; those of the dashboard may share one instant.
LEMMA SellerFacts ==
    ASSUME NEW now \in Moments
    PROVE /\ SellerSpan(now).end = now
          /\ SellerSpan(now).start \in Int /\ SellerSpan(now).prevStart \in Int
          /\ SellerSpan(now).prevEnd = SellerSpan(now).start - 1
<1>1. DayLength \in Int /\ Offset \in Int BY ReportAssumption
<1>2. MonthOf(now) \in Int BY MomentMonth
<1>3. FirstDay(MonthOf(now)) \in Int /\ FirstDay(MonthOf(now) - 1) \in Int
    BY <1>2, FirstDayTyped
<1>4. PICK start \in Int : start = FirstDay(MonthOf(now)) * DayLength - Offset BY <1>1, <1>3
<1>5. PICK before \in Int : before = FirstDay(MonthOf(now) - 1) * DayLength - Offset
    BY <1>1, <1>3
<1>6. SellerSpan(now) = [start |-> start, end |-> now, prevEnd |-> start - 1,
                         prevStart |-> before]
    BY <1>4, <1>5 DEF SellerSpan
<1> QED BY <1>6

LEMMA AdminFacts ==
    ASSUME NEW t \in PeriodsOf("admin"), NEW now \in Moments
    PROVE /\ AdminSpan(t, now).end = now
          /\ AdminSpan(t, now).start \in Int /\ AdminSpan(t, now).prevStart \in Int
          /\ AdminSpan(t, now).prevEnd \in Int
          /\ AdminSpan(t, now).prevEnd <= AdminSpan(t, now).start
          /\ t # "day" => AdminSpan(t, now).prevEnd = AdminSpan(t, now).start
<1>1. t \in {"day", "week", "month", "year"} BY DEF PeriodsOf
<1>2. PICK start : start = CASE t = "day" -> Back(now, 29) [] t = "week" -> Back(now, 77)
                             [] t = "year" -> FirstOfYear(MonthsBack(now, 48))
                             [] OTHER -> FirstOfMonth(MonthsBack(now, 11))
    OBVIOUS
<1>3. PICK before : before = CASE t = "day" -> Back(now, 59) [] t = "week" -> Back(now, 84)
                               [] t = "year" -> MonthsBack(now, 60)
                               [] OTHER -> MonthsBack(now, 12)
    OBVIOUS
<1>4. AdminSpan(t, now) = [start |-> start, end |-> now,
                           prevEnd |-> IF t = "day" THEN Back(now, 30) ELSE start,
                           prevStart |-> before]
    BY <1>2, <1>3 DEF AdminSpan
<1>5. Back(now, 29) \in Int /\ Back(now, 30) \in Int /\ Back(now, 59) \in Int
      /\ Back(now, 77) \in Int /\ Back(now, 84) \in Int
    BY BackTyped
<1>6. FirstOfYear(MonthsBack(now, 48)) \in Int
    <2>1. 48 \in 0 .. 60 OBVIOUS
    <2> QED BY <2>1, MonthsBackTyped, FirstTyped
<1>7. FirstOfMonth(MonthsBack(now, 11)) \in Int
    <2>1. 11 \in 0 .. 60 OBVIOUS
    <2> QED BY <2>1, MonthsBackTyped, FirstTyped
<1>8. MonthsBack(now, 60) \in Int /\ MonthsBack(now, 12) \in Int
    <2>1. 60 \in 0 .. 60 /\ 12 \in 0 .. 60 OBVIOUS
    <2> QED BY <2>1, MonthsBackTyped
<1>9. start \in Int BY <1>2, <1>5, <1>6, <1>7
<1>10. before \in Int BY <1>3, <1>5, <1>8
<1>11. Back(now, 30) <= Back(now, 29)
    <2>1. now \in Int /\ DayLength \in Nat BY ReportAssumption
    <2> QED BY <2>1 DEF Back
<1>12. t = "day" => start = Back(now, 29) BY <1>2
<1> QED BY <1>4, <1>5, <1>9, <1>10, <1>11, <1>12

-----------------------------------------------------------------------------
(* Reports: what is kept *)

OrderState == [at : Int, status : OrderTypes \cup {"none"}, scheduled : BOOLEAN,
               of : SUBSET Stores, via : SUBSET Stores]

ReportTyped ==
    /\ reportManner \in ReportManners /\ report \in Pages /\ period \in PeriodsOf(report)
    /\ asOf \in Moments /\ range = SpanOf(report, period, asOf)
    /\ placed \in [OrderIds -> OrderState]
    /\ figures \in [FiguresOf(report) -> (SUBSET OrderIds) \cup {Unread}]

\* While nothing has changed, every order is from before the report, and a figure that was
\* read is what it would be now.
NoneLate == ~changed => \A o \in OrderIds : placed[o].status # "none" => placed[o].at <= asOf
ReadIsNow == ~changed => \A f \in DOMAIN figures : figures[f] # Unread => figures[f] = Figure(f)

\* Whatever changes: deliveries that were counted are of the period and stay deliveries, ...
Deliveries == {"staff", "delivered", "revenue", "statuses", "top"}
Bounded == report \notin {"business", "platform"}
Counted(set) ==
    {o \in OrderIds : /\ placed[o].status \in set /\ placed[o].at \in range.start .. range.end
                      /\ report = "store" => o \in ByStore(OneStore)}
DeliveriesStay ==
    Bounded => \A f \in Deliveries \cap DOMAIN figures :
                  figures[f] # Unread => figures[f] \subseteq Counted({"DELIVERED"})
\* ... and no order comes to the period that was counted.
OrdersStay ==
    Bounded /\ figures["orders"] # Unread =>
        Counted({"NEW", "DELIVERED"}) \subseteq figures["orders"]

\* And an order that was counted in a period stays in it.
InPeriod(f, o) ==
    /\ placed[o].status # "none"
    /\ f \in {"orders", "top"} => placed[o].at >= range.start
    /\ f = "previous" => placed[o].at <= range.prevEnd
    /\ f = "topBefore" => placed[o].at < range.prevEnd
Compared == {"orders", "top", "previous", "topBefore"}
PeriodsStay ==
    \A f \in Compared \cap DOMAIN figures :
        figures[f] # Unread => \A o \in figures[f] : InPeriod(f, o)

ReportInv ==
    ReportTyped /\ NoneLate /\ ReadIsNow /\ DeliveriesStay /\ OrdersStay /\ PeriodsStay

-----------------------------------------------------------------------------
(* What is read *)

LEMMA OneStoreThere == OneStore \in Stores
BY ReportAssumption DEF OneStore

LEMMA RangeFacts ==
    ASSUME ReportTyped
    PROVE /\ range.end = asOf /\ asOf \in Int /\ range.start \in Int
          /\ range.prevStart \in Int /\ range.prevEnd \in Int
          /\ report # "admin" => range.prevEnd = range.start - 1
          /\ range.prevEnd <= range.start
          /\ report = "admin" /\ period # "day" => range.prevEnd = range.start
          /\ report = "overview" /\ period = "day" => range.start = Back(asOf, 1)
          /\ report = "overview" /\ period = "week" => range.start = Back(asOf, 7)
<1>1. asOf \in Moments /\ asOf \in Int BY BackTyped DEF ReportTyped
<1>2. CASE report = "admin"
    <2>1. range = AdminSpan(period, asOf) /\ period \in PeriodsOf("admin")
        BY <1>2 DEF ReportTyped, SpanOf
    <2> QED BY <1>1, <1>2, <2>1, AdminFacts
<1>3. CASE report = "business"
    <2>1. range = SellerSpan(asOf) BY <1>3 DEF ReportTyped, SpanOf
    <2>2. /\ range.end = asOf /\ range.start \in Int /\ range.prevStart \in Int
          /\ range.prevEnd = range.start - 1
        BY <1>1, <2>1, SellerFacts
    <2> QED BY <1>1, <1>3, <2>2
<1>4. CASE report \notin {"admin", "business"}
    <2>1. range = Span(period, asOf) BY <1>4 DEF ReportTyped, SpanOf
    <2>2. /\ range.end = asOf /\ range.start \in Int /\ range.prevStart \in Int
          /\ range.prevEnd = range.start - 1
          /\ period = "day" => range.start = Back(asOf, 1)
          /\ period = "week" => range.start = Back(asOf, 7)
        BY <1>1, <2>1, SpanFacts
    <2> QED BY <1>1, <1>4, <2>2
<1> QED BY <1>2, <1>3, <1>4

\* A figure is of orders that there are.
LEMMA FigureTyped ==
    ASSUME ReportTyped, NEW f \in FiguresOf(report)
    PROVE Figure(f) \in SUBSET OrderIds
<1>0. \A set, from, to : /\ InStatus(set) \in SUBSET OrderIds
                         /\ Within(from, to) \in SUBSET OrderIds
                         /\ Uncancelled \in SUBSET OrderIds
    BY DEF InStatus, Within, Uncancelled
<1>1. Funnel(range) \in SUBSET OrderIds /\ Daily(range) \in SUBSET OrderIds
      /\ SellerDaily(range.end) \in SUBSET OrderIds
    BY <1>0 DEF Funnel, Daily, SellerDaily
<1>2. \A s : ByStore(s) \in SUBSET OrderIds BY DEF ByStore
<1>3. CASE report = "overview"
    BY <1>0, <1>1, <1>3 DEF Figure, FiguresOf, OverviewFigure
<1>4. CASE report = "store"
    BY <1>2, <1>4 DEF Figure, StoreFigure
<1>5. CASE report = "platform"
    BY <1>2, <1>5 DEF Figure, StoreFigure
<1>6. CASE report = "admin"
    BY <1>0, <1>6 DEF Figure, FiguresOf, AdminFigure
<1>7. CASE report = "business"
    BY <1>7 DEF Figure, SellerFigure
<1> QED BY <1>3, <1>4, <1>5, <1>6, <1>7 DEF ReportTyped, Pages

\* The deliveries and the orders as they are read.
LEMMA FiguresCounted ==
    ASSUME ReportTyped, Bounded
    PROVE /\ "orders" \in FiguresOf(report)
          /\ Figure("orders") = Counted({"NEW", "DELIVERED"})
          /\ \A f \in Deliveries \cap FiguresOf(report) : Figure(f) = Counted({"DELIVERED"})
<1>1. CASE report = "overview"
    BY <1>1 DEF Figure, OverviewFigure, FiguresOf, Deliveries, Counted, Uncancelled, InStatus,
                Within
<1>2. CASE report = "store"
    <2>1. \A f : Figure(f) = StoreFigure(f, range, OneStore) BY <1>2 DEF Figure
    <2>2. \A s : ByStore(s) \in SUBSET OrderIds BY DEF ByStore
    <2> QED BY <1>2, <2>1, <2>2
          DEF StoreFigure, FiguresOf, Deliveries, Counted, Uncancelled, InStatus, Within
<1>3. CASE report = "admin"
    <2>1. \A f : Figure(f) = AdminFigure(f, range) BY <1>3 DEF Figure
    <2> QED BY <1>3, <2>1
          DEF AdminFigure, FiguresOf, Deliveries, Counted, Uncancelled, InStatus, Within
<1> QED BY <1>1, <1>2, <1>3 DEF Bounded, ReportTyped, Pages

\* Which report has which figures.
LEMMA FiguresTell ==
    ASSUME ReportTyped
    PROVE /\ DOMAIN figures = FiguresOf(report)
          /\ "orders" \in DOMAIN figures => report # "platform"
          /\ "previous" \in DOMAIN figures => report # "platform"
          /\ "top" \in DOMAIN figures => report = "admin"
          /\ "topBefore" \in DOMAIN figures => report = "admin"
          /\ "today" \in DOMAIN figures => report = "business"
          /\ "todayOrders" \in DOMAIN figures => report = "admin"
          /\ "scheduled" \in DOMAIN figures => report = "overview"
<1>1. DOMAIN figures = FiguresOf(report) BY DEF ReportTyped
<1>2. ASSUME report = "platform", NEW p \in Pages \ {"platform"}, NEW f \in FiguresOf(p),
             f \in DOMAIN figures
      PROVE FALSE
    <2>1. f \in Stores BY <1>1, <1>2 DEF FiguresOf
    <2> QED BY <1>2, <2>1, StoreAssumption
<1>3. ASSUME report = "platform"
      PROVE \A f \in {"orders", "previous", "top", "topBefore", "today", "todayOrders",
                      "scheduled"} : f \notin DOMAIN figures
    <2>1. /\ \A f \in {"orders", "previous", "scheduled"} : f \in FiguresOf("overview")
          /\ \A f \in {"top", "topBefore", "todayOrders"} : f \in FiguresOf("admin")
          /\ "today" \in FiguresOf("business")
        BY DEF FiguresOf
    <2>2. {"overview", "admin", "business"} \subseteq Pages \ {"platform"} BY DEF Pages
    <2> QED BY <1>2, <1>3, <2>1, <2>2
<1>4. report \in Pages BY DEF ReportTyped
<1>5. CASE report = "platform"
    <2>1. \A f \in {"orders", "previous", "top", "topBefore", "today", "todayOrders",
                    "scheduled"} : f \notin DOMAIN figures
        BY <1>3, <1>5
    <2>2. /\ "orders" \notin DOMAIN figures /\ "previous" \notin DOMAIN figures
          /\ "top" \notin DOMAIN figures /\ "topBefore" \notin DOMAIN figures
          /\ "today" \notin DOMAIN figures /\ "todayOrders" \notin DOMAIN figures
          /\ "scheduled" \notin DOMAIN figures
        BY <2>1
    <2> QED BY <1>1, <2>2
<1>6. CASE report # "platform"
    <2>1. report \in {"overview", "store", "admin", "business"} BY <1>4, <1>6 DEF Pages
    <2> QED BY <1>1, <1>6, <2>1 DEF FiguresOf
<1> QED BY <1>1, <1>5, <1>6

\* ... and the orders of the periods that are compared.
LEMMA FiguresCompared ==
    ASSUME ReportTyped, NEW f \in Compared \cap FiguresOf(report), NEW o \in Figure(f)
    PROVE InPeriod(f, o)
<1>1. /\ asOf \in Int /\ range.start \in Int /\ range.prevStart \in Int /\ range.prevEnd \in Int
      /\ range.end = asOf /\ Ever \in Int
    BY RangeFacts, EverIsLate DEF ReportTyped
<1>2. \A set, from, to \in Int : o \in Within(from, to) =>
          placed[o].at \in Int /\ from <= placed[o].at /\ placed[o].at <= to
    BY DEF Within
<1>3. \A set : o \in InStatus(set) => placed[o].status \in set BY DEF InStatus
<1>4. f \in FiguresOf(report) /\ f \in {"orders", "top", "previous", "topBefore"}
    BY DEF Compared
<1>5. o \in Uncancelled \/ o \in InStatus({"DELIVERED"}) => placed[o].status # "none"
    BY <1>3 DEF Uncancelled
<1>6. DOMAIN figures = FiguresOf(report) BY FiguresTell
<1>7. CASE f = "orders"
    <2>1. report # "platform" BY <1>4, <1>6, <1>7, FiguresTell
    <2>2. \/ o \in Uncancelled \cap Within(range.start, range.end)
          \/ o \in Uncancelled \cap Within(range.start, Ever)
        BY <1>7, <2>1 DEF Figure, OverviewFigure, StoreFigure, AdminFigure, SellerFigure,
                          ReportTyped, Pages
    <2> QED BY <1>1, <1>2, <1>5, <1>7, <2>2 DEF InPeriod
<1>8. CASE f = "previous"
    <2>1. report # "platform" BY <1>4, <1>6, <1>8, FiguresTell
    <2>2. o \in Uncancelled \cap Within(range.prevStart, range.prevEnd)
        BY <1>8, <2>1 DEF Figure, OverviewFigure, StoreFigure, AdminFigure, SellerFigure,
                          ReportTyped, Pages
    <2> QED BY <1>1, <1>2, <1>5, <1>8, <2>2 DEF InPeriod
<1>9. CASE f = "top"
    <2>1. report = "admin" BY <1>4, <1>6, <1>9, FiguresTell
    <2>2. o \in InStatus({"DELIVERED"}) \cap Within(range.start, range.end)
        BY <1>9, <2>1 DEF Figure, AdminFigure
    <2> QED BY <1>1, <1>2, <1>5, <1>9, <2>2 DEF InPeriod
<1>10. CASE f = "topBefore"
    <2>1. report = "admin" BY <1>4, <1>6, <1>10, FiguresTell
    <2>2. o \in InStatus({"DELIVERED"}) \cap Within(range.prevStart, range.prevEnd - 1)
        BY <1>10, <2>1 DEF Figure, AdminFigure
    <2>3. range.prevEnd - 1 \in Int BY <1>1
    <2>4. placed[o].at \in Int /\ placed[o].at <= range.prevEnd - 1 BY <1>1, <1>2, <2>2, <2>3
    <2>5. placed[o].at < range.prevEnd BY <1>1, <2>4
    <2> QED BY <1>5, <1>10, <2>2, <2>5 DEF InPeriod
<1> QED BY <1>4, <1>7, <1>8, <1>9, <1>10

-----------------------------------------------------------------------------
(* Reports: the steps *)

LEMMA ReportInitKept == ReportInit => ReportInv
<1> SUFFICES ASSUME ReportInit PROVE ReportInv OBVIOUS
<1>1. /\ reportManner \in ReportManners /\ report \in Pages /\ period \in PeriodsOf(report)
      /\ asOf \in Moments /\ range = SpanOf(report, period, asOf)
      /\ figures = [f \in FiguresOf(report) |-> Unread]
    BY DEF ReportInit
<1> DEFINE r == range
           times == IF reportManner = "calm" THEN Edges(r) ELSE {r.end - 1, r.start}
           kinds == IF reportManner = "calm" THEN OrderTypes ELSE {"NEW"}
<1>2. PICK t \in times, s \in kinds, b \in Belongings, z \in BOOLEAN :
          /\ t >= 0 /\ t <= asOf
          /\ placed = [o \in OrderIds |-> IF o > 1 THEN NoOrderYet
                ELSE [at |-> t, status |-> s, scheduled |-> z, of |-> b[1], via |-> b[2]]]
    BY DEF ReportInit
<1>3. t \in Int
    <2>1. range.end = asOf /\ asOf \in Int /\ range.start \in Int
          /\ range.prevStart \in Int /\ range.prevEnd \in Int
        <3>1. asOf \in Int BY <1>1, BackTyped
        <3>2. CASE report = "admin"
            <4>1. range = AdminSpan(period, asOf) /\ period \in PeriodsOf("admin")
                BY <1>1, <3>2 DEF SpanOf
            <4> QED BY <1>1, <3>1, <4>1, AdminFacts
        <3>3. CASE report = "business"
            <4>1. range = SellerSpan(asOf) BY <1>1, <3>3 DEF SpanOf
            <4> QED BY <1>1, <3>1, <4>1, SellerFacts
        <3>4. CASE report \notin {"admin", "business"}
            <4>1. range = Span(period, asOf) BY <1>1, <3>4 DEF SpanOf
            <4> QED BY <1>1, <3>1, <4>1, SpanFacts
        <3> QED BY <3>2, <3>3, <3>4
    <2>2. DayLength \in Int /\ Offset \in Int BY ReportAssumption
    <2>3. \A u \in Int : Midnight(u) \in Int BY <2>2, DayTyped DEF Midnight
    <2>4. Back(range.end, 1) \in Int BY <2>1, <2>2 DEF Back
    <2>5. PICK points : points = {r.start, r.prevStart, r.prevEnd, Midnight(r.start),
                                  Midnight(r.end), Back(r.end, 1)}
        OBVIOUS
    <2>6. points \subseteq Int BY <2>1, <2>3, <2>4, <2>5
    <2>7. PICK triples : triples = {{u - 1, u, u + 1} : u \in points} OBVIOUS
    <2>8. Edges(r) \subseteq Int
        <3>1. Edges(r) = {r.end - 1, r.end} \cup UNION triples
            BY <2>5, <2>7 DEF Edges
        <3>2. PICK last : last = {r.end - 1, r.end} OBVIOUS
        <3>3. last \subseteq Int BY <2>1, <3>2
        <3>4. \A triple \in triples : triple \subseteq Int BY <2>6, <2>7
        <3>5. PICK edges : edges = Edges(r) OBVIOUS
        <3>6. edges = last \cup UNION triples BY <3>1, <3>2, <3>5
        <3>7. edges \subseteq Int
            <4> SUFFICES ASSUME NEW e \in edges PROVE e \in Int OBVIOUS
            <4>1. e \in last \/ \E triple \in triples : e \in triple BY <3>6
            <4> QED BY <3>3, <3>4, <4>1
        <3> QED BY <3>5, <3>7
    <2>9. {r.end - 1, r.start} \subseteq Int BY <2>1
    <2> QED BY <2>8, <2>9
<1>4. b[1] \in SUBSET Stores /\ b[2] \in SUBSET Stores BY OneStoreThere DEF Belongings
<1>5. s \in OrderTypes BY DEF OrderTypes
<1>6. NoOrderYet \in OrderState /\ NoOrderYet.status = "none" BY DEF NoOrderYet, OrderState
<1>7. PICK first : first = [at |-> t, status |-> s, scheduled |-> z, of |-> b[1], via |-> b[2]]
    OBVIOUS
<1>8. first \in OrderState /\ first.at <= asOf BY <1>2, <1>3, <1>4, <1>5, <1>7 DEF OrderState
<1>9. placed = [o \in OrderIds |-> IF o > 1 THEN NoOrderYet ELSE first] BY <1>2, <1>7
<1>10. placed \in [OrderIds -> OrderState] BY <1>6, <1>8, <1>9
<1>11. NoneLate BY <1>6, <1>8, <1>9 DEF NoneLate
<1>12. \A f \in FiguresOf(report) : figures[f] = Unread BY <1>1
<1>13. ReportTyped
    <2>1. Unread \in (SUBSET OrderIds) \cup {Unread} OBVIOUS
    <2>2. figures \in [FiguresOf(report) -> (SUBSET OrderIds) \cup {Unread}]
        <3> HIDE DEF r, times, kinds
        <3> QED BY <1>1, <2>1
    <2> QED BY <1>1, <1>10, <2>2 DEF ReportTyped
<1>14. ReadIsNow /\ DeliveriesStay
    BY <1>12, <1>13 DEF ReadIsNow, DeliveriesStay, ReportTyped
<1>15. OrdersStay
    <2>1. Bounded => "orders" \in FiguresOf(report) BY <1>13, FiguresCounted
    <2> QED BY <1>12, <2>1 DEF OrdersStay
<1>16. PeriodsStay BY <1>12, <1>13 DEF PeriodsStay, ReportTyped
<1> QED BY <1>11, <1>13, <1>14, <1>15, <1>16 DEF ReportInv

OrdersRest == UNCHANGED <<reportManner, report, period, asOf, range, placed, changed>>

\* Some figures are read, as they are.
LEMMA FiguresRead ==
    ASSUME ReportInv, OrdersRest,
           figures' \in [FiguresOf(report) -> (SUBSET OrderIds) \cup {Unread}],
           \A f \in FiguresOf(report) : figures'[f] = figures[f] \/ figures'[f] = Figure(f)
    PROVE ReportInv'
<1>1. ReportTyped BY DEF ReportInv
<1>2. /\ reportManner' = reportManner /\ report' = report /\ period' = period /\ asOf' = asOf
      /\ range' = range /\ placed' = placed /\ changed' = changed
    BY DEF OrdersRest
<1>3. ReportTyped' BY <1>1, <1>2 DEF ReportTyped
<1>4. DOMAIN figures = FiguresOf(report) /\ DOMAIN figures' = FiguresOf(report)
    BY <1>1 DEF ReportTyped
<1>5. NoneLate' BY <1>2 DEF ReportInv, NoneLate
<1>6. \A set : Counted(set)' = Counted(set) BY <1>2 DEF Counted, ByStore
<1>7. ASSUME NEW f PROVE Figure(f)' = Figure(f)
    BY <1>2 DEF Figure, OverviewFigure, StoreFigure, AdminFigure, SellerFigure, ByStore,
                Uncancelled, InStatus, Within, Funnel, FunnelSpan, Daily, SellerDaily
<1>8. ReadIsNow'
    <2> SUFFICES ASSUME ~changed, NEW f \in FiguresOf(report), figures'[f] # Unread
                 PROVE figures'[f] = Figure(f)'
        BY <1>2, <1>4 DEF ReadIsNow
    <2>1. figures'[f] = Figure(f) BY <1>4 DEF ReportInv, ReadIsNow
    <2> QED BY <1>7, <2>1
<1>9. Bounded' = Bounded BY <1>2 DEF Bounded
<1>10. DeliveriesStay'
    <2> SUFFICES ASSUME Bounded, NEW f \in Deliveries \cap FiguresOf(report),
                        figures'[f] # Unread
                 PROVE figures'[f] \subseteq Counted({"DELIVERED"})
        BY <1>4, <1>6, <1>9 DEF DeliveriesStay
    <2>1. CASE figures'[f] = figures[f] BY <1>4, <2>1 DEF ReportInv, DeliveriesStay
    <2>2. CASE figures'[f] = Figure(f) BY <1>1, <2>2, FiguresCounted
    <2> QED BY <2>1, <2>2
<1>11. OrdersStay'
    <2> SUFFICES ASSUME Bounded, figures'["orders"] # Unread
                 PROVE Counted({"NEW", "DELIVERED"}) \subseteq figures'["orders"]
        BY <1>6, <1>9 DEF OrdersStay
    <2>1. "orders" \in FiguresOf(report) /\ Figure("orders") = Counted({"NEW", "DELIVERED"})
        BY <1>1, FiguresCounted
    <2> QED BY <2>1 DEF ReportInv, OrdersStay
<1>12. PeriodsStay'
    <2> SUFFICES ASSUME NEW f \in Compared \cap FiguresOf(report), figures'[f] # Unread,
                        NEW o \in figures'[f]
                 PROVE InPeriod(f, o)
        BY <1>2, <1>4 DEF PeriodsStay, InPeriod
    <2>1. CASE figures'[f] = figures[f] BY <1>4, <2>1 DEF ReportInv, PeriodsStay
    <2>2. CASE figures'[f] = Figure(f) BY <1>1, <2>2, FiguresCompared
    <2> QED BY <2>1, <2>2
<1> QED BY <1>3, <1>5, <1>8, <1>10, <1>11, <1>12 DEF ReportInv

LEMMA ReadKept ==
    ASSUME ReportInv, NEW f \in DOMAIN figures, Read(f)
    PROVE ReportInv'
<1>1. ReportTyped /\ f \in FiguresOf(report) BY DEF ReportInv, ReportTyped
<1>2. Figure(f) \in SUBSET OrderIds BY <1>1, FigureTyped
<1>3. figures' = [figures EXCEPT ![f] = Figure(f)] /\ OrdersRest BY DEF Read, OrdersRest
<1>4. figures' \in [FiguresOf(report) -> (SUBSET OrderIds) \cup {Unread}]
    BY <1>1, <1>2, <1>3 DEF ReportTyped
<1>5. \A g \in FiguresOf(report) : figures'[g] = figures[g] \/ figures'[g] = Figure(g)
    BY <1>1, <1>3 DEF ReportTyped
<1> QED BY <1>3, <1>4, <1>5, FiguresRead

LEMMA ReadAllKept == ASSUME ReportInv, ReadAll PROVE ReportInv'
<1>1. ReportTyped BY DEF ReportInv
<1>2. \A f \in FiguresOf(report) : Figure(f) \in SUBSET OrderIds BY <1>1, FigureTyped
<1>3. figures' = [f \in FiguresOf(report) |-> Figure(f)] /\ OrdersRest
    BY DEF ReadAll, OrdersRest
<1>4. figures' \in [FiguresOf(report) -> (SUBSET OrderIds) \cup {Unread}] BY <1>2, <1>3
<1>5. \A g \in FiguresOf(report) : figures'[g] = Figure(g) BY <1>3
<1> QED BY <1>3, <1>4, <1>5, FiguresRead

\* An order changes: no delivery is lost and none comes to the period.
LEMMA OrderChanges ==
    ASSUME ReportInv, NEW o \in OrderIds, NEW now \in OrderState,
           placed' = [placed EXCEPT ![o] = now], changed' = TRUE,
           UNCHANGED <<reportManner, report, period, asOf, range, figures>>,
           now.status # "none",
           \/ placed[o].status = "none" /\ now.at > asOf
           \/ /\ placed[o].status = "NEW" /\ now.at = placed[o].at
              /\ now.of = placed[o].of /\ now.via = placed[o].via
    PROVE ReportInv'
<1>0. ReportTyped BY DEF ReportInv
<1>1. /\ reportManner' = reportManner /\ report' = report /\ period' = period /\ asOf' = asOf
      /\ range' = range /\ figures' = figures
    OBVIOUS
<1>2. \A p \in OrderIds : placed'[p] = IF p = o THEN now ELSE placed[p]
    BY <1>0 DEF ReportTyped
<1>3. ReportTyped' BY <1>0, <1>1 DEF ReportTyped
<1>4. NoneLate' /\ ReadIsNow' BY DEF NoneLate, ReadIsNow
<1>5. range.end = asOf /\ asOf \in Int /\ range.start \in Int /\ now.at \in Int
    BY <1>0, RangeFacts DEF OrderState
<1>6. Counted({"DELIVERED"}) \subseteq Counted({"DELIVERED"})'
    <2> SUFFICES ASSUME NEW p \in Counted({"DELIVERED"}) PROVE p \in Counted({"DELIVERED"})'
        OBVIOUS
    <2>1. p \in OrderIds /\ placed[p].status = "DELIVERED" BY DEF Counted
    <2>2. p # o BY <2>1
    <2>3. placed'[p] = placed[p] BY <1>2, <2>1, <2>2
    <2> QED BY <1>1, <2>1, <2>3 DEF Counted, ByStore
<1>7. Counted({"NEW", "DELIVERED"})' \subseteq Counted({"NEW", "DELIVERED"})
    <2> SUFFICES ASSUME NEW p \in Counted({"NEW", "DELIVERED"})'
                 PROVE p \in Counted({"NEW", "DELIVERED"})
        OBVIOUS
    <2>1. /\ p \in OrderIds /\ placed'[p].status \in {"NEW", "DELIVERED"}
          /\ placed'[p].at \in range.start .. range.end
          /\ report = "store" => OneStore \in placed'[p].of \/ OneStore \in placed'[p].via
        BY <1>1 DEF Counted, ByStore
    <2>2. CASE p # o
        <3>1. placed'[p] = placed[p] BY <1>2, <2>1, <2>2
        <3> QED BY <2>1, <3>1 DEF Counted, ByStore
    <2>3. CASE p = o
        <3>1. placed'[p] = now BY <1>2, <2>1, <2>3
        <3>2. ~(now.at > asOf) BY <1>5, <2>1, <3>1
        <3> QED BY <2>1, <2>3, <3>1, <3>2 DEF Counted, ByStore
    <2> QED BY <2>2, <2>3
<1>8. Bounded' = Bounded BY <1>1 DEF Bounded
<1>9. DeliveriesStay' BY <1>1, <1>6, <1>8 DEF ReportInv, DeliveriesStay
<1>10. OrdersStay' BY <1>1, <1>7, <1>8 DEF ReportInv, OrdersStay
<1>11. PeriodsStay'
    <2> SUFFICES ASSUME NEW f \in Compared \cap DOMAIN figures, figures[f] # Unread,
                        NEW p \in figures[f]
                 PROVE InPeriod(f, p)'
        BY <1>1 DEF PeriodsStay
    <2>1. InPeriod(f, p) BY DEF ReportInv, PeriodsStay
    <2>2. p \in OrderIds BY <1>0 DEF ReportTyped
    <2>3. CASE p = o
        <3>1. placed[o].status = "NEW" /\ now.at = placed[o].at BY <2>1, <2>3 DEF InPeriod
        <3>2. placed'[p] = now /\ now.status # "none"
            BY <1>2, <2>2, <2>3, <3>1
        <3> QED BY <1>1, <2>1, <2>3, <3>1, <3>2 DEF InPeriod
    <2>4. CASE p # o BY <1>1, <1>2, <2>1, <2>2, <2>4 DEF InPeriod
    <2> QED BY <2>3, <2>4
<1> QED BY <1>3, <1>4, <1>9, <1>10, <1>11 DEF ReportInv

LEMMA PlaceLateKept ==
    ASSUME ReportInv, NEW o \in OrderIds, PlaceLate(o)
    PROVE ReportInv'
<1>0. ReportTyped /\ 1 \in OrderIds BY ReportAssumption DEF ReportInv, OrderIds
<1>1. placed[1] \in OrderState /\ asOf \in Int BY <1>0, RangeFacts DEF ReportTyped
<1>2. PICK now : now = [placed[1] EXCEPT !.at = asOf + 1, !.status = "NEW"] OBVIOUS
<1>3. now \in OrderState /\ now.at > asOf /\ now.status # "none"
    <2>1. asOf + 1 \in Int /\ asOf + 1 > asOf BY <1>1
    <2> QED BY <1>1, <1>2, <2>1 DEF OrderState, OrderTypes
<1>4. /\ placed[o].status = "none" /\ placed' = [placed EXCEPT ![o] = now] /\ changed' = TRUE
      /\ UNCHANGED <<reportManner, report, period, asOf, range, figures>>
    BY <1>2 DEF PlaceLate
<1> QED BY <1>3, <1>4, OrderChanges

LEMMA MoveOnKept ==
    ASSUME ReportInv, NEW o \in OrderIds, NEW s \in {"DELIVERED", "CANCELLED"}, MoveOn(o, s)
    PROVE ReportInv'
<1>0. ReportTyped BY DEF ReportInv
<1>1. placed[o] \in OrderState BY <1>0 DEF ReportTyped
<1>2. PICK now : now = [placed[o] EXCEPT !.status = s] OBVIOUS
<1>3. now \in OrderState /\ now.status # "none"
      /\ now.at = placed[o].at /\ now.of = placed[o].of
      /\ now.via = placed[o].via
    BY <1>1, <1>2 DEF OrderState, OrderTypes
<1>4. /\ placed[o].status = "NEW" /\ placed' = [placed EXCEPT ![o] = now] /\ changed' = TRUE
      /\ UNCHANGED <<reportManner, report, period, asOf, range, figures>>
    BY <1>0, <1>2 DEF MoveOn, ReportTyped
<1> QED BY <1>3, <1>4, OrderChanges

LEMMA ReportStep == ReportInv /\ [ReportNext]_reportVars => ReportInv'
<1> SUFFICES ASSUME ReportInv, [ReportNext]_reportVars PROVE ReportInv' OBVIOUS
<1>1. CASE UNCHANGED reportVars
    <2>1. OrdersRest /\ figures' = figures BY <1>1 DEF reportVars, OrdersRest
    <2>2. figures' \in [FiguresOf(report) -> (SUBSET OrderIds) \cup {Unread}]
        BY <2>1 DEF ReportInv, ReportTyped
    <2> QED BY <2>1, <2>2, FiguresRead
<1>2. ASSUME NEW f \in DOMAIN figures, Read(f) PROVE ReportInv' BY <1>2, ReadKept
<1>3. CASE ReadAll BY <1>3, ReadAllKept
<1>4. ASSUME NEW o \in OrderIds, PlaceLate(o) PROVE ReportInv' BY <1>4, PlaceLateKept
<1>5. ASSUME NEW o \in OrderIds, NEW s \in {"DELIVERED", "CANCELLED"}, MoveOn(o, s)
      PROVE ReportInv'
    BY <1>5, MoveOnKept
<1> QED BY <1>1, <1>2, <1>3, <1>4, <1>5 DEF ReportNext

-----------------------------------------------------------------------------
(* Reports: what follows *)

LEMMA FiguresRest ==
    ASSUME ReportInv, ~changed, NEW f, f \in DOMAIN figures, figures[f] # Unread
    PROVE figures[f] = Figure(f)
BY DEF ReportInv, ReadIsNow

LEMMA InvPeriodsApart == ReportInv => PeriodsApart
<1> SUFFICES ASSUME ReportInv PROVE PeriodsApart OBVIOUS
<1>0. ReportTyped BY DEF ReportInv
<1>1. /\ range.end = asOf /\ asOf \in Int /\ range.start \in Int
      /\ range.prevStart \in Int /\ range.prevEnd \in Int
      /\ report # "admin" => range.prevEnd = range.start - 1
      /\ range.prevEnd <= range.start
      /\ report = "admin" /\ period # "day" => range.prevEnd = range.start
    BY <1>0, RangeFacts
<1>2. ASSUME NEW f \in Compared, NEW o, Has({f}), o \in figures[f]
      PROVE InPeriod(f, o) /\ placed[o].at \in Int
    <2>1. f \in DOMAIN figures /\ figures[f] # Unread BY <1>2 DEF Has
    <2>2. InPeriod(f, o) BY <1>2, <2>1 DEF ReportInv, PeriodsStay
    <2>3. o \in OrderIds BY <1>0, <1>2, <2>1 DEF ReportTyped
    <2> QED BY <1>0, <2>2, <2>3 DEF ReportTyped, OrderState
<1>3. ASSUME Has({"orders", "previous"}), report # "admin",
             NEW o \in figures["orders"] \cap figures["previous"]
      PROVE FALSE
    <2>1. Has({"orders"}) /\ Has({"previous"}) BY <1>3 DEF Has
    <2>2. InPeriod("orders", o) /\ InPeriod("previous", o) /\ placed[o].at \in Int
        BY <1>2, <1>3, <2>1 DEF Compared
    <2> QED BY <1>1, <1>3, <2>2 DEF InPeriod
<1>4. ASSUME Has({"top", "topBefore"}), NEW o \in figures["top"] \cap figures["topBefore"]
      PROVE FALSE
    <2>1. Has({"top"}) /\ Has({"topBefore"}) BY <1>4 DEF Has
    <2>2. InPeriod("top", o) /\ InPeriod("topBefore", o) /\ placed[o].at \in Int
        BY <1>2, <1>4, <2>1 DEF Compared
    <2> QED BY <1>1, <2>2 DEF InPeriod
<1>5. ASSUME Has({"orders", "previous"}), ~changed, report = "admin" => period # "day",
             NEW o \in Uncancelled \cap Within(range.prevStart, range.end),
             report \in {"store", "business"} => OneStore \in placed[o].of
      PROVE o \in figures["orders"] \cup figures["previous"]
    <2>1. /\ figures["orders"] = Figure("orders") /\ figures["previous"] = Figure("previous")
          /\ "orders" \in DOMAIN figures
        BY <1>5, FiguresRest DEF Has
    <2>2. report \in {"overview", "store", "admin", "business"}
        BY <1>0, <2>1, FiguresTell DEF ReportTyped, Pages
    <2>3. o \in OrderIds /\ o \in Uncancelled
          /\ placed[o].at \in range.prevStart .. range.end /\ placed[o].at \in Int
        BY <1>1, <1>5 DEF Within
    <2>4. \/ placed[o].at \in range.prevStart .. range.prevEnd
          \/ placed[o].at \in range.start .. range.end
        BY <1>1, <1>5, <2>3
    <2>5. asOf + 1 <= Ever /\ Ever \in Int BY <1>0, EverIsLate DEF ReportTyped
    <2>6. placed[o].at \in range.start .. range.end => placed[o].at \in range.start .. Ever
        BY <1>1, <2>5
    <2>7. report = "store" => o \in ByStore(OneStore) BY <1>5, <2>3 DEF ByStore
    <2>8. CASE placed[o].at \in range.prevStart .. range.prevEnd
        <3>1. o \in Uncancelled \cap Within(range.prevStart, range.prevEnd)
            BY <2>3, <2>8 DEF Within
        <3>2. o \in Figure("previous")
            BY <1>5, <2>2, <2>3, <2>7, <3>1
            DEF Figure, OverviewFigure, StoreFigure, AdminFigure, SellerFigure
        <3> QED BY <2>1, <3>2
    <2>9. CASE placed[o].at \in range.start .. range.end
        <3>1. /\ o \in Uncancelled \cap Within(range.start, range.end)
              /\ o \in Uncancelled \cap Within(range.start, Ever)
            BY <2>3, <2>6, <2>9 DEF Within
        <3>2. o \in Figure("orders")
            BY <1>5, <2>2, <2>3, <2>7, <3>1
            DEF Figure, OverviewFigure, StoreFigure, AdminFigure, SellerFigure
        <3> QED BY <2>1, <3>2
    <2> QED BY <2>4, <2>8, <2>9
<1> QED BY <1>3, <1>4, <1>5 DEF PeriodsApart

LEMMA InvDeliveredAreOrdered == ReportInv => DeliveredAreOrdered
<1> SUFFICES ASSUME ReportInv, report # "business", Has({"orders"}),
                    NEW f \in Deliveries, Has({f})
             PROVE figures[f] \subseteq figures["orders"]
    BY DEF DeliveredAreOrdered, Deliveries
<1>0. ReportTyped BY DEF ReportInv
<1>1. "orders" \in DOMAIN figures /\ figures["orders"] # Unread
      /\ f \in DOMAIN figures /\ figures[f] # Unread
    BY DEF Has
<1>2. Bounded BY <1>0, <1>1, FiguresTell DEF Bounded
<1>3. figures[f] \subseteq Counted({"DELIVERED"}) BY <1>1, <1>2 DEF ReportInv, DeliveriesStay
<1>4. Counted({"NEW", "DELIVERED"}) \subseteq figures["orders"]
    BY <1>1, <1>2 DEF ReportInv, OrdersStay
<1>5. Counted({"DELIVERED"}) \subseteq Counted({"NEW", "DELIVERED"}) BY DEF Counted
<1> QED BY <1>3, <1>4, <1>5

LEMMA InvCountedPerStore == ReportInv => CountedPerStore
<1> SUFFICES ASSUME ReportInv, report = "platform", Has(Stores), ~changed,
                    NEW o \in Uncancelled \cap Within(range.start, asOf)
             PROVE {s \in Stores : o \in figures[s]} = placed[o].of \cup placed[o].via
    BY DEF CountedPerStore
<1>0. ReportTyped /\ range.end = asOf BY RangeFacts DEF ReportInv
<1>1. o \in OrderIds BY DEF Uncancelled, InStatus
<1>2. placed[o].of \subseteq Stores /\ placed[o].via \subseteq Stores
    BY <1>0, <1>1 DEF ReportTyped, OrderState
<1>3. ASSUME NEW s \in Stores
      PROVE o \in figures[s] <=> s \in placed[o].of \cup placed[o].via
    <2>1. s \in DOMAIN figures /\ figures[s] # Unread BY DEF Has
    <2>2. figures[s] = Figure(s) BY <2>1, FiguresRest
    <2>3. Figure(s) = ByStore(s) \cap (Uncancelled \cap Within(range.start, range.end))
        BY DEF Figure, StoreFigure
    <2> QED BY <1>0, <1>1, <2>2, <2>3 DEF ByStore
<1> QED BY <1>2, <1>3

-----------------------------------------------------------------------------
(* Reports: the sums, of a server whose clock shows UTC *)

LEMMA UtcDays ==
    ASSUME Offset = 0, NEW t \in Int
    PROVE /\ UtcDay(t) \in Int /\ CalendarDay(t) = UtcDay(t)
          /\ Midnight(t) = UtcDay(t) * DayLength /\ Midnight(t) \in Int
          /\ UtcDay(Midnight(t)) = UtcDay(t)
          /\ Midnight(t) <= t /\ t < Midnight(t) + DayLength
<1>1. DayLength \in Nat \ {0} BY ReportAssumption
<1>2. PICK day \in Int :
          /\ day = UtcDay(t) /\ DayLength * day <= t /\ t < DayLength * day + DayLength
    BY <1>1, DaysOf DEF UtcDay
<1>3. CalendarDay(t) = day BY <1>2 DEF CalendarDay, UtcDay
<1>4. PICK begin \in Int : begin = day * DayLength BY <1>1
<1>5. begin = DayLength * day BY <1>1, <1>4
<1>6. Midnight(t) = begin BY <1>3, <1>4 DEF Midnight
<1>7. UtcDay(begin) = day BY <1>1, <1>4, DayBegins DEF UtcDay
<1> QED BY <1>2, <1>3, <1>4, <1>5, <1>6, <1>7

\* There is a bucket for every day of a period.
LEMMA KeysOfDays ==
    ASSUME Offset = 0, NEW a \in Int, NEW b \in Int, NEW day \in Int,
           UtcDay(a) <= day, day <= UtcDay(b)
    PROVE day \in DailyKeys(Midnight(a), Midnight(b))
<1>1. DayLength \in Nat \ {0} /\ DayLength \in Int BY ReportAssumption
<1>2. PICK first \in Int : first = UtcDay(a) BY UtcDays
<1>3. PICK last \in Int : last = UtcDay(b) BY UtcDays
<1>4. Midnight(a) \in Int /\ Midnight(b) \in Int BY UtcDays
<1>5. CalendarDay(Midnight(a)) = first /\ CalendarDay(Midnight(b)) = last
    <2>1. UtcDay(Midnight(a)) = first /\ UtcDay(Midnight(b)) = last BY <1>2, <1>3, UtcDays
    <2> QED BY <1>4, <2>1, UtcDays
<1>6. PICK i \in Int : i = last - day OBVIOUS
<1>7. i \in 0 .. last - first BY <1>2, <1>3, <1>6
<1>8. UtcDay(Back(Midnight(b), i)) = day
    <2>1. Midnight(b) = last * DayLength BY <1>3, UtcDays
    <2>2. Back(Midnight(b), i) = last * DayLength - i * DayLength BY <2>1 DEF Back
    <2>3. last * DayLength - i * DayLength = (last - i) * DayLength BY <1>1, DaysApart
    <2>4. last - i = day BY <1>6
    <2>5. Back(Midnight(b), i) = day * DayLength BY <2>2, <2>3, <2>4
    <2> QED BY <1>1, <2>5, DayBegins DEF UtcDay
<1> QED BY <1>5, <1>7, <1>8 DEF DailyKeys

LEMMA DaysGrow ==
    ASSUME NEW t \in Int, NEW u \in Int, t <= u
    PROVE UtcDay(t) <= UtcDay(u)
<1>1. DayLength \in Nat \ {0} BY ReportAssumption
<1> QED BY <1>1, DaysMonotone DEF UtcDay

\* The days of a store leave out no order of the period.
LEMMA DailyIsAll ==
    ASSUME ReportTyped, Offset = 0
    PROVE Daily(range) = Uncancelled \cap Within(range.start, range.end)
<1>1. PICK start \in Int : start = range.start BY RangeFacts
<1>2. PICK end \in Int : end = range.end BY RangeFacts
<1> SUFFICES ASSUME NEW o \in Uncancelled \cap Within(start, end)
             PROVE UtcDay(placed[o].at) \in DailyKeys(Midnight(start), Midnight(end))
    BY <1>1, <1>2 DEF Daily
<1>3. PICK at \in Int : at = placed[o].at /\ start <= at /\ at <= end BY DEF Within
<1>4. UtcDay(at) \in Int BY UtcDays
<1>5. UtcDay(start) <= UtcDay(at) /\ UtcDay(at) <= UtcDay(end) BY <1>3, DaysGrow
<1> QED BY <1>3, <1>4, <1>5, KeysOfDays

\* The last of the seven days of a seller has every order of today.
LEMMA SellerToday ==
    ASSUME ReportInv, Offset = 0, ~changed, report = "business",
           NEW o \in Uncancelled \cap Within(Midnight(asOf), Ever)
    PROVE o \in SellerDaily(asOf)
<1>0. ReportTyped BY DEF ReportInv
<1>1. asOf \in Int BY <1>0, RangeFacts
<1>2. DayLength \in Nat \ {0} /\ DayLength \in Int BY ReportAssumption
<1>3. PICK day \in Int : day = UtcDay(asOf) BY <1>1, UtcDays
<1>4. PICK begin \in Int : /\ begin = Midnight(asOf) /\ begin = day * DayLength
                           /\ begin <= asOf /\ asOf < begin + DayLength
    BY <1>1, <1>3, UtcDays
<1>5. o \in OrderIds /\ placed[o].status # "none" BY DEF Uncancelled, InStatus
<1>6. placed[o].at <= asOf BY <1>5 DEF ReportInv, NoneLate
<1>7. PICK at \in Int : at = placed[o].at /\ begin <= at
    <2>1. Ever \in Int BY <1>0, EverIsLate DEF ReportTyped
    <2> QED BY <1>4, <2>1 DEF Within
<1>8. UtcDay(at) = day
    <2>1. UtcDay(begin) = day BY <1>1, <1>3, <1>4, UtcDays
    <2>2. UtcDay(begin) <= UtcDay(at) /\ UtcDay(at) <= UtcDay(asOf)
        BY <1>1, <1>6, <1>7, DaysGrow
    <2>3. UtcDay(at) \in Int BY UtcDays
    <2> QED BY <1>3, <2>1, <2>2, <2>3
<1>9. PICK first \in Int : first = Back(begin, 6) /\ first <= begin
    <2>1. begin - 6 * DayLength \in Int /\ begin - 6 * DayLength <= begin BY <1>2
    <2> QED BY <2>1 DEF Back
<1>10. UtcDay(first) = day - 6 /\ Midnight(first) = first
    <2>1. PICK six \in Int : six = 6 OBVIOUS
    <2>2. first = day * DayLength - six * DayLength BY <1>4, <1>9, <2>1 DEF Back
    <2>3. day * DayLength - six * DayLength = (day - six) * DayLength BY <1>2, DaysApart
    <2>4. PICK then \in Int : then = day - six OBVIOUS
    <2>5. first = then * DayLength BY <2>2, <2>3, <2>4
    <2>6. UtcDay(first) = then BY <1>2, <2>5, DayBegins DEF UtcDay
    <2>7. Midnight(first) = first BY <2>5, <2>6, UtcDays
    <2> QED BY <2>1, <2>4, <2>6, <2>7
<1>11. UtcDay(at) \in DailyKeys(first, begin)
    <2>1. UtcDay(first) <= day /\ day <= UtcDay(asOf) BY <1>3, <1>10
    <2>2. day \in DailyKeys(Midnight(first), Midnight(asOf)) BY <1>1, <2>1, KeysOfDays
    <2> QED BY <1>4, <1>8, <1>10, <2>2
<1>12. o \in Within(first, begin + DayLength)
    <2>0. at <= asOf BY <1>6, <1>7
    <2>1. first <= at /\ at <= begin + DayLength BY <1>1, <1>2, <1>4, <1>7, <1>9, <2>0
    <2>2. at \in first .. begin + DayLength BY <1>2, <2>1
    <2> QED BY <1>5, <1>7, <2>2 DEF Within
<1> QED BY <1>4, <1>7, <1>9, <1>11, <1>12 DEF SellerDaily

\* The bars of a day or a week begin where the period begins.
LEMMA FunnelIsAll ==
    ASSUME ReportTyped, report = "overview", period # "month",
           NEW o, o \in OrderIds, placed[o].at # asOf
    PROVE o \in Funnel(range) <=> o \in Uncancelled \cap Within(range.start, range.end)
<1>1. PICK end \in Int : end = range.end /\ end = asOf BY RangeFacts
<1>2. PICK start \in Int : start = range.start BY RangeFacts
<1>3. DayLength \in Int BY ReportAssumption
<1>4. period \in {"day", "week"} BY DEF ReportTyped, PeriodsOf
<1>5. start = end - FunnelSpan
    <2>1. CASE period = "day"
        <3>1. start = Back(end, 1) BY <1>1, <1>2, <2>1, RangeFacts
        <3>2. FunnelSpan = DayLength * 1 BY <2>1 DEF FunnelSpan
        <3> QED BY <1>3, <3>1, <3>2 DEF Back
    <2>2. CASE period = "week"
        <3>1. start = Back(end, 7) BY <1>1, <1>2, <2>2, RangeFacts
        <3>2. FunnelSpan = DayLength * 7 BY <2>2 DEF FunnelSpan
        <3> QED BY <1>3, <3>1, <3>2 DEF Back
    <2> QED BY <1>4, <2>1, <2>2
<1>6. placed[o].at \in Int BY DEF ReportTyped, OrderState
<1>7. placed[o].at \in start .. end - 1 <=> placed[o].at \in start .. end BY <1>1, <1>6
<1> QED BY <1>1, <1>2, <1>5, <1>7 DEF Funnel, Within

LEMMA InvAddsUp == ASSUME Offset = 0, ReportInv PROVE AddsUp
<1> DEFINE last == {o \in OrderIds : placed[o].at = asOf}
<1> HIDE DEF last
<1>0. ReportTyped BY DEF ReportInv
<1>1. range.end = asOf /\ asOf \in Int /\ Ever \in Int /\ asOf <= Ever
    <2>1. asOf + 1 <= Ever /\ Ever \in Int BY <1>0, EverIsLate DEF ReportTyped
    <2> QED BY <1>0, <2>1, RangeFacts
<1>2. ASSUME NEW f, Has({f}), ~changed PROVE figures[f] = Figure(f)
    BY <1>2, FiguresRest DEF Has
<1>3. ASSUME ~changed, Has({"orders", "series"}), report # "business",
             ~(report = "overview" /\ period = "month")
      PROVE figures["series"] \ last = figures["orders"] \ last
    <2>1. figures["orders"] = Figure("orders") /\ figures["series"] = Figure("series")
        BY <1>2, <1>3 DEF Has
    <2>2. "orders" \in DOMAIN figures BY <1>3 DEF Has
    <2>3. report \in {"overview", "store", "admin"}
        BY <1>0, <1>3, <2>2, FiguresTell DEF ReportTyped, Pages
    <2>4. CASE report = "overview"
        <3>1. /\ Figure("orders") = Uncancelled \cap Within(range.start, range.end)
              /\ Figure("series") = Funnel(range)
            BY <2>4 DEF Figure, OverviewFigure
        <3>2. period # "month" BY <1>3, <2>4
        <3>3. ASSUME NEW o, o \notin last
              PROVE o \in Figure("series") <=> o \in Figure("orders")
            <4>1. Figure("series") \subseteq OrderIds /\ Figure("orders") \subseteq OrderIds
                BY <3>1 DEF Funnel, Uncancelled, InStatus
            <4>2. CASE o \in OrderIds
                <5>1. placed[o].at # asOf BY <3>3, <4>2 DEF last
                <5> QED BY <1>0, <2>4, <3>1, <3>2, <4>2, <5>1, FunnelIsAll
            <4> QED BY <4>1, <4>2
        <3> QED BY <2>1, <3>3
    <2>5. CASE report = "store"
        <3>1. /\ Figure("orders") =
                     ByStore(OneStore) \cap (Uncancelled \cap Within(range.start, range.end))
              /\ Figure("series") = ByStore(OneStore) \cap Daily(range)
            BY <2>5 DEF Figure, StoreFigure
        <3> QED BY <1>0, <2>1, <3>1, DailyIsAll
    <2>6. CASE report = "admin"
        <3>1. Figure("orders") = Figure("series") BY <2>6 DEF Figure, AdminFigure
        <3> QED BY <2>1, <3>1
    <2> QED BY <2>3, <2>4, <2>5, <2>6
<1>4. ASSUME ~changed, Has({"today", "series"})
      PROVE figures["today"] = figures["series"] \cap Within(Midnight(asOf), Ever)
    <2>1. figures["today"] = Figure("today") /\ figures["series"] = Figure("series")
        BY <1>2, <1>4 DEF Has
    <2>2. "today" \in DOMAIN figures BY <1>4 DEF Has
    <2>3. report = "business" BY <1>0, <2>2, FiguresTell
    <2>4. PICK own : own = {o \in OrderIds : OneStore \in placed[o].of} OBVIOUS
    <2>5. PICK now : now = Uncancelled \cap Within(Midnight(asOf), Ever) OBVIOUS
    <2>6. Figure("today") = own \cap now /\ Figure("series") = own \cap SellerDaily(asOf)
        BY <1>1, <2>3, <2>4, <2>5 DEF Figure, SellerFigure
    <2>7. now \subseteq SellerDaily(asOf) BY <1>4, <2>3, <2>5, SellerToday
    <2>8. SellerDaily(asOf) \subseteq Uncancelled BY DEF SellerDaily
    <2> QED BY <2>1, <2>5, <2>6, <2>7, <2>8
<1>5. ASSUME ~changed, Has({"todayOrders", "todayRevenue"})
      PROVE figures["todayOrders"] = figures["todayRevenue"]
    <2>1. /\ figures["todayOrders"] = Figure("todayOrders")
          /\ figures["todayRevenue"] = Figure("todayRevenue")
        BY <1>2, <1>5 DEF Has
    <2>2. "todayOrders" \in DOMAIN figures BY <1>5 DEF Has
    <2>3. report = "admin" BY <1>0, <2>2, FiguresTell
    <2>4. PICK from : from = Midnight(asOf) OBVIOUS
    <2>5. from \in Int BY <1>1, <2>4, UtcDays
    <2>6. /\ Figure("todayOrders") = Uncancelled \cap Within(from, asOf)
          /\ Figure("todayRevenue") = Uncancelled \cap Within(from, Ever)
        BY <1>1, <2>3, <2>4 DEF Figure, AdminFigure
    <2>7. ASSUME NEW o \in Uncancelled PROVE o \in Within(from, asOf) <=> o \in Within(from, Ever)
        <3>1. o \in OrderIds /\ placed[o].status # "none" BY DEF Uncancelled, InStatus
        <3>2. placed[o].at <= asOf BY <1>5, <3>1 DEF ReportInv, NoneLate
        <3>3. placed[o].at \in Int BY <1>0, <3>1 DEF ReportTyped, OrderState
        <3>4. placed[o].at \in from .. asOf <=> placed[o].at \in from .. Ever
            BY <1>1, <2>5, <3>2, <3>3
        <3> QED BY <3>1, <3>4 DEF Within
    <2> QED BY <2>1, <2>6, <2>7
<1>6. ASSUME ~changed, Has({"orders", "scheduled", "instant"})
      PROVE /\ figures["orders"] = figures["scheduled"] \cup figures["instant"]
            /\ figures["scheduled"] \cap figures["instant"] = {}
    <2>1. /\ figures["orders"] = Figure("orders")
          /\ figures["scheduled"] = Figure("scheduled")
          /\ figures["instant"] = Figure("instant")
        BY <1>2, <1>6 DEF Has
    <2>2. "scheduled" \in DOMAIN figures BY <1>6 DEF Has
    <2>3. report = "overview" BY <1>0, <2>2, FiguresTell
    <2>4. PICK orders : orders = Uncancelled \cap Within(range.start, range.end) OBVIOUS
    <2>5. /\ Figure("orders") = orders
          /\ Figure("scheduled") = {o \in orders : placed[o].scheduled}
          /\ Figure("instant") = {o \in orders : ~placed[o].scheduled}
        BY <2>3, <2>4 DEF Figure, OverviewFigure
    <2> QED BY <2>1, <2>5
<1> QED BY <1>3, <1>4, <1>5, <1>6 DEF AddsUp, last

-----------------------------------------------------------------------------
(* The reports *)

LEMMA InvReportTypeOK == ReportInv => ReportTypeOK
<1> SUFFICES ASSUME ReportTyped PROVE ReportTypeOK BY DEF ReportInv
<1>1. \A o \in OrderIds : placed[o].status \in OrderTypes \cup {"none"}
    BY DEF ReportTyped, OrderState
<1>2. DOMAIN figures = FiguresOf(report) BY DEF ReportTyped
<1>3. \A f \in DOMAIN figures : figures[f] \subseteq OrderIds \/ figures[f] = Unread
    BY DEF ReportTyped
<1> QED BY <1>1, <1>2, <1>3 DEF ReportTyped, ReportTypeOK

\* Whatever is placed, delivered or cancelled while a report reads, and whatever the time
\* zone of the server, the periods a report compares share no order and miss none between
\* them, no report but the seller's shows more deliveries than orders, and the stores'
\* orders add up to the orders (buildRange and the statements of the reports).
THEOREM ReportsAgree ==
    ReportSpec => [](ReportTypeOK /\ PeriodsApart /\ DeliveredAreOrdered /\ CountedPerStore)
<1>1. ReportSpec => []ReportInv BY ReportInitKept, ReportStep, PTL DEF ReportSpec
<1>2. ReportInv => ReportTypeOK /\ PeriodsApart /\ DeliveredAreOrdered /\ CountedPerStore
    BY InvReportTypeOK, InvPeriodsApart, InvDeliveredAreOrdered, InvCountedPerStore
<1> QED BY <1>1, <1>2, PTL

\* On a server whose clock shows UTC what a report draws adds up to what it says as well:
\* its days are named by their dates in UTC, and begin at the midnights of the server
\* (buildOrderDailySeries, buildFunnelSeries, buildDailySeries).
THEOREM ReportsAddUp == ASSUME Offset = 0 PROVE ReportSpec => []ReportsSound
<1>1. ReportSpec => []ReportInv BY ReportInitKept, ReportStep, PTL DEF ReportSpec
<1>2. ReportInv => ReportsSound
    BY InvReportTypeOK, InvPeriodsApart, InvAddsUp, InvDeliveredAreOrdered, InvCountedPerStore
    DEF ReportsSound
<1> QED BY <1>1, <1>2, PTL
=============================================================================
