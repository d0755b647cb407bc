----------------------------- MODULE CatalogCache -----------------------------
(***************************************************************************)
(* The storefront's cache. A page asks the cache, and on a miss reads the  *)
(* database and stores what it read; a save commits and then deletes the   *)
(* keys it feeds, or bumps the catalogue version that is part of a key.    *)
(* Every await lets the other calls in. Values are abstracted to "which    *)
(* save of its source did this value see".                                 *)
(* Source: cache.service.ts, cache-keys.ts and the services that use them  *)
(***************************************************************************)
EXTENDS Naturals, FiniteSets

CONSTANTS Visitors,      \* page requests that may be in flight at the same time
          Editors,       \* numbers of the saves that may be in flight at the same time
          PageGroups,    \* bound: a behaviour looks at the keys of one of these sets
          Saves,         \* the saves this instance makes
          CacheManners,  \* "serial": one save at a time, after its commit; "any"
          MaxSaves       \* bound: saves of one behaviour

Sources == {"banners", "delivery", "support", "scheduling", "categories",
            "products", "listings", "stores"}

\* What the factory of a key reads from the database.
SettingsFeeds ==
    [deliverySettings   |-> {"delivery"},
     schedulingSettings |-> {"scheduling"},
     publicSettings     |-> {"delivery", "support", "scheduling"}]
CatalogFeeds ==
    [bannersActive    |-> {"banners"},
     categoriesPublic |-> {"categories", "products"},
     productsHome     |-> {"products"}]
MarketFeeds ==
    [marketplaceHome    |-> {"products", "listings"},
     storesShowcase     |-> {"stores"},
     marketplacePopular |-> {"listings"}]
Keys == DOMAIN SettingsFeeds \cup DOMAIN CatalogFeeds \cup DOMAIN MarketFeeds
Feeds == [k \in Keys |-> CASE k \in DOMAIN SettingsFeeds -> SettingsFeeds[k]
                           [] k \in DOMAIN CatalogFeeds -> CatalogFeeds[k]
                           [] k \in DOMAIN MarketFeeds -> MarketFeeds[k]]

\* buildHomepage asks for these keys itself, so it may be built from cached parts.
Parts(k) == IF k = "marketplaceHome" THEN {"storesShowcase", "marketplacePopular"} ELSE {}
Reads(k) == Feeds[k] \cup UNION {Feeds[j] : j \in Parts(k)}

\* invalidateMarketplaceStorefront deletes the key "storefront:marketplace:popular:v1:"
\* too, but the pages are stored under that prefix and a limit.
MarketKeys == {"marketplaceHome", "storesShowcase"}
CatalogKeys == {"productsHome", "bannersActive", "categoriesPublic"} \cup MarketKeys

\* The source a save writes, the keys it deletes, whether it bumps the version.
Save(source, keys, bumps) == [of |-> source, keys |-> keys, bumps |-> bumps]
\* Mutant: the delivery price is saved without a thought for the public settings.
SettingsSavesForgetful ==
    [updateDeliverySettings   |-> Save("delivery", {"deliverySettings"}, FALSE),
     updateSupportSettings    |-> Save("support", {"publicSettings"}, FALSE),
     updateSchedulingSettings |->
        Save("scheduling", {"schedulingSettings", "publicSettings"}, FALSE)]

SettingsSaves ==
    [updateDeliverySettings   |->
        Save("delivery", {"deliverySettings", "publicSettings"}, FALSE),
     updateSupportSettings    |-> Save("support", {"publicSettings"}, FALSE),
     updateSchedulingSettings |->
        Save("scheduling", {"schedulingSettings", "publicSettings"}, FALSE)]
\* create, setStatus, remove and reorder delete the key; update does not.
BannerSaves ==
    [saveBanner   |-> Save("banners", {"bannersActive"}, FALSE),
     updateBanner |-> Save("banners", {}, FALSE)]
CategorySaves == [saveCategory |-> Save("categories", CatalogKeys, TRUE)]
StoreSaves == [saveStore |-> Save("stores", MarketKeys, FALSE)]
ListingSaves == [saveListing |-> Save("listings", MarketKeys, FALSE)]
\* updateTopProductsBulk and removeByAdmin; createByAdmin and updateByAdmin.
ProductSaves == [saveProduct |-> Save("products", CatalogKeys, TRUE),
                 editProduct |-> Save("products", CatalogKeys, TRUE)]
SaveNames == DOMAIN SettingsSaves \cup DOMAIN BannerSaves \cup DOMAIN CategorySaves
                \cup DOMAIN StoreSaves \cup DOMAIN ListingSaves \cup DOMAIN ProductSaves
SaveOf == [name \in SaveNames |-> CASE name \in DOMAIN SettingsSaves -> SettingsSaves[name]
                                    [] name \in DOMAIN BannerSaves -> BannerSaves[name]
                                    [] name \in DOMAIN CategorySaves -> CategorySaves[name]
                                    [] name \in DOMAIN StoreSaves -> StoreSaves[name]
                                    [] name \in DOMAIN ListingSaves -> ListingSaves[name]
                                    [] name \in DOMAIN ProductSaves -> ProductSaves[name]]

\* Saves whose invalidation nobody can count on: one that deletes nothing, and one
\* that starts it inside its transaction.
Unclaimed == {"updateBanner", "editProduct"}

ASSUME CatalogAssumption ==
    /\ IsFiniteSet(Visitors) /\ IsFiniteSet(Editors) /\ Editors \subseteq Nat
    /\ \A g \in PageGroups :
          /\ g \subseteq Keys \cup {"productsPromotions"}
          /\ \A k \in g : Parts(k) \subseteq g
    /\ Saves \subseteq SaveNames
    /\ CacheManners \subseteq {"serial", "any"} /\ MaxSaves \in Nat

VARIABLES
    cacheManner, \* chosen at the start
    pages,       \* the keys looked at, chosen at the start
    savedTimes,   \* the database: how often each source has been saved
    entry,       \* the cache: what each key holds
    version,     \* catalogVersion; 0 is a missing key
    promoted,    \* productsPromotions of each version: the save of products it saw
    visit,       \* what each page request is doing
    save,        \* what each save is doing
    spent,       \* saves made so far
    loud,        \* history: the last save of each source that can be counted on
    bumped       \* history: the last save of products whose bump is done

chosen == <<cacheManner, pages>>
cacheVars ==
    <<chosen, savedTimes, entry, version, promoted, visit, save, spent, loud, bumped>>

Versions == 0 .. (MaxSaves + 1)
Absent == [held |-> FALSE]
Entry(seen, overtaken) == [held |-> TRUE, seen |-> seen, overtaken |-> overtaken]

\* A request on its way to fill a key: the parts it still has to ask for, what it has
\* read, and whether what it will store was deleted meanwhile.
NoVisit == [step |-> "idle", key |-> "none"]
Filling(k, todo, seen, overtaken) ==
    [step |-> "asking", key |-> k, todo |-> todo, seen |-> seen, overtaken |-> overtaken]

\* A save after its commit, or inside its transaction ("open").
NoSave == [step |-> "idle", open |-> FALSE, left |-> {}, of |-> "none", base |-> 0]
Invalidating(name, open, step, base) ==
    [step |-> step, open |-> open, left |-> SaveOf[name].keys \cap pages,
     of |-> SaveOf[name].of, base |-> base]

CacheTypeOK ==
    /\ cacheManner \in CacheManners /\ pages \in PageGroups
    /\ savedTimes \in [Sources -> 0 .. MaxSaves] /\ loud \in [Sources -> 0 .. MaxSaves]
    /\ version \in Versions /\ bumped \in 0 .. MaxSaves /\ spent \in 0 .. MaxSaves
    /\ \A k \in Keys : entry[k].held => entry[k].seen \in [Reads(k) -> 0 .. MaxSaves]
    /\ \A v \in Versions : promoted[v].held => promoted[v].seen \in 0 .. MaxSaves
    /\ \A r \in Visitors : visit[r].step \in {"idle", "asking", "keyed", "promoting"}
    /\ \A w \in Editors :
          /\ save[w].step \in {"idle", "bump", "bumping", "clear"}
          /\ save[w].left \subseteq pages

CacheInit ==
    /\ cacheManner \in CacheManners /\ pages \in PageGroups
    /\ savedTimes = [s \in Sources |-> 0] /\ loud = savedTimes
    /\ entry = [k \in Keys |-> Absent]
    /\ version = 0 /\ promoted = [v \in Versions |-> Absent] /\ bumped = 0
    /\ visit = [r \in Visitors |-> NoVisit]
    /\ save = [w \in Editors |-> NoSave]
    /\ spent = 0

-----------------------------------------------------------------------------
\* A page request.

\* getOrSet misses: the factory reads the database, and has the parts to ask for.
Ask(r, k) ==
    /\ visit[r] = NoVisit /\ k \in pages /\ ~entry[k].held
    /\ visit' = [visit EXCEPT ![r] =
                    Filling(k, Parts(k), [s \in Reads(k) |-> savedTimes[s]], FALSE)]
    /\ UNCHANGED <<chosen, savedTimes, entry, version, promoted, save, spent, loud, bumped>>

\* What a part saw of its sources, added to what the page itself saw.
Merge(k, seen, j, got) ==
    [s \in Reads(k) |->
        IF s \notin Feeds[j] THEN seen[s]
        ELSE IF s \in Feeds[k] /\ seen[s] < got[s] THEN seen[s] ELSE got[s]]

\* A part comes from its own key, which it fills when it is missing.
AskPart(r, j) ==
    /\ visit[r].step = "asking" /\ j \in visit[r].todo
    /\ LET read == Entry([s \in Reads(j) |-> savedTimes[s]], FALSE)
           got == IF entry[j].held THEN entry[j] ELSE read
           v == visit[r]
       IN /\ entry' = [entry EXCEPT ![j] = got]
          /\ visit' = [visit EXCEPT ![r] =
                Filling(v.key, v.todo \ {j}, Merge(v.key, v.seen, j, got.seen),
                        v.overtaken \/ got.overtaken)]
    /\ UNCHANGED <<chosen, savedTimes, version, promoted, save, spent, loud, bumped>>

\* The page is stored, whatever happened to its key since it was read.
Fill(r) ==
    /\ visit[r].step = "asking" /\ visit[r].todo = {}
    /\ entry' = [entry EXCEPT ![visit[r].key] = Entry(visit[r].seen, visit[r].overtaken)]
    /\ visit' = [visit EXCEPT ![r] = NoVisit]
    /\ UNCHANGED <<chosen, savedTimes, version, promoted, save, spent, loud, bumped>>

\* listPromotionsPaginated reads the version, ...
ReadVersion(r) ==
    /\ visit[r] = NoVisit /\ "productsPromotions" \in pages
    /\ visit' = [visit EXCEPT ![r] = [step |-> "keyed", key |-> "none", under |-> version]]
    /\ UNCHANGED <<chosen, savedTimes, entry, version, promoted, save, spent, loud, bumped>>

\* ... looks under it, and on a miss reads the products, ...
AskPromotions(r) ==
    /\ visit[r].step = "keyed"
    /\ visit' = [visit EXCEPT ![r] =
                    IF promoted[visit[r].under].held THEN NoVisit
                    ELSE [step |-> "promoting", key |-> "none", under |-> visit[r].under,
                          seen |-> savedTimes["products"]]]
    /\ UNCHANGED <<chosen, savedTimes, entry, version, promoted, save, spent, loud, bumped>>

\* ... and stores them under the version it read at first.
\* Mutant: they are stored under the version of now.
FillPromotionsNow(r) ==
    /\ visit[r].step = "promoting"
    /\ promoted' = [promoted EXCEPT ![version] = [held |-> TRUE, seen |-> visit[r].seen]]
    /\ visit' = [visit EXCEPT ![r] = NoVisit]
    /\ UNCHANGED <<chosen, savedTimes, entry, version, save, spent, loud, bumped>>

FillPromotions(r) ==
    /\ visit[r].step = "promoting"
    /\ promoted' = [promoted EXCEPT ![visit[r].under] =
                        [held |-> TRUE, seen |-> visit[r].seen]]
    /\ visit' = [visit EXCEPT ![r] = NoVisit]
    /\ UNCHANGED <<chosen, savedTimes, entry, version, save, spent, loud, bumped>>

-----------------------------------------------------------------------------
\* A save.

\* Saves of what the behaviour does not look at are left out. The lowest free number is
\* given to the next save.
Looked == UNION {Reads(k) : k \in pages \cap Keys}
            \cup IF "productsPromotions" \in pages THEN {"products"} ELSE {}
MaySave(w, name) ==
    /\ save[w] = NoSave /\ spent < MaxSaves
    /\ \A u \in Editors : u < w => save[u] # NoSave
    /\ cacheManner = "serial" => \A u \in Editors : save[u] = NoSave
    /\ name \in Saves /\ SaveOf[name].of \in Looked

\* The row is written; then its invalidation begins.
SaveRow(w, name) ==
    /\ MaySave(w, name) /\ name # "editProduct"
    /\ LET s == SaveOf[name].of
       IN /\ savedTimes' = [savedTimes EXCEPT ![s] = @ + 1]
          /\ loud' = IF name \in Unclaimed THEN loud ELSE [loud EXCEPT ![s] = savedTimes'[s]]
          /\ save' = [save EXCEPT ![w] =
                IF SaveOf[name].bumps THEN Invalidating(name, FALSE, "bump", 0)
                ELSE IF SaveOf[name].keys \cap pages = {} THEN NoSave
                ELSE Invalidating(name, FALSE, "clear", 0)]
    /\ spent' = spent + 1
    /\ UNCHANGED <<chosen, entry, version, promoted, visit, bumped>>

\* createByAdmin and updateByAdmin start the invalidation inside their transaction and
\* do not wait for it: it races with the commit.
Open(w) ==
    /\ MaySave(w, "editProduct") /\ cacheManner = "any"
    /\ save' = [save EXCEPT ![w] = Invalidating("editProduct", TRUE, "bump", 0)]
    /\ spent' = spent + 1
    /\ UNCHANGED <<chosen, savedTimes, entry, version, promoted, visit, loud, bumped>>

Rest(s) == IF s.step = "clear" /\ s.left = {} /\ ~s.open THEN NoSave ELSE s

SaveRowOpen(w) ==
    /\ save[w].open
    /\ savedTimes' = [savedTimes EXCEPT ![save[w].of] = @ + 1]
    /\ save' = [save EXCEPT ![w] = Rest([@ EXCEPT !.open = FALSE])]
    /\ UNCHANGED <<chosen, entry, version, promoted, visit, spent, loud, bumped>>

\* bumpCatalogVersion reads the version ...
ReadBump(w) ==
    /\ save[w].step = "bump"
    /\ save' = [save EXCEPT ![w].step = "bumping", ![w].base = version]
    /\ UNCHANGED <<chosen, savedTimes, entry, version, promoted, visit, spent, loud, bumped>>

\* Mutant: the version is written two higher.
WriteBumpTwice(w) ==
    /\ save[w].step = "bumping"
    /\ version' = save[w].base + 2
    /\ save' = [save EXCEPT ![w] = Rest([@ EXCEPT !.step = "clear"])]
    /\ bumped' = IF save[w].open \/ save[w].of # "products" THEN bumped ELSE loud["products"]
    /\ UNCHANGED <<chosen, savedTimes, entry, promoted, visit, spent, loud>>

\* ... and writes one more.
WriteBump(w) ==
    /\ save[w].step = "bumping"
    /\ version' = save[w].base + 1
    /\ save' = [save EXCEPT ![w] = Rest([@ EXCEPT !.step = "clear"])]
    /\ bumped' = IF save[w].open \/ save[w].of # "products" THEN bumped ELSE loud["products"]
    /\ UNCHANGED <<chosen, savedTimes, entry, promoted, visit, spent, loud>>

\* One of the keys is deleted; a request that is filling it does not know.
Clear(w, k) ==
    /\ save[w].step = "clear" /\ k \in save[w].left
    /\ entry' = [entry EXCEPT ![k] = Absent]
    /\ save' = [save EXCEPT ![w] = Rest([save[w] EXCEPT !.left = save[w].left \ {k}])]
    /\ visit' = [r \in Visitors |->
                    IF visit[r].step = "asking" /\ visit[r].key = k
                    THEN Filling(k, visit[r].todo, visit[r].seen, TRUE) ELSE visit[r]]
    /\ UNCHANGED <<chosen, savedTimes, version, promoted, spent, loud, bumped>>

-----------------------------------------------------------------------------
\* Time: entries live for minutes, the version for a day.

Expire(k) ==
    /\ entry[k].held
    /\ entry' = [entry EXCEPT ![k] = Absent]
    /\ UNCHANGED <<chosen, savedTimes, version, promoted, visit, save, spent, loud, bumped>>

ExpirePromotions(v) ==
    /\ promoted[v].held
    /\ promoted' = [promoted EXCEPT ![v] = Absent]
    /\ UNCHANGED <<chosen, savedTimes, entry, version, visit, save, spent, loud, bumped>>

\* After a day without a save the next version is 1 again.
ExpireVersion ==
    /\ cacheManner = "any" /\ version # 0
    /\ version' = 0
    /\ UNCHANGED <<chosen, savedTimes, entry, promoted, visit, save, spent, loud, bumped>>

CacheNext ==
    \/ \E r \in Visitors :
          \/ \E k \in Keys : Ask(r, k) \/ AskPart(r, k)
          \/ Fill(r) \/ ReadVersion(r) \/ AskPromotions(r) \/ FillPromotions(r)
    \/ \E w \in Editors :
          \/ \E name \in Saves : SaveRow(w, name)
          \/ Open(w) \/ SaveRowOpen(w) \/ ReadBump(w) \/ WriteBump(w)
          \/ \E k \in Keys : Clear(w, k)
    \/ \E k \in Keys : Expire(k)
    \/ \E v \in Versions : ExpirePromotions(v)
    \/ ExpireVersion

CacheSpec == CacheInit /\ [][CacheNext]_cacheVars

-----------------------------------------------------------------------------
(* Properties. *)

\* The keys and sources whose invalidation the code means: a page that was not built
\* from parts, of a key the saves do delete.
Own(k) == Feeds[k] \ UNION {Feeds[j] : j \in Parts(k)}
StillToClear(k, s) == \E w \in Editors : save[w].of = s /\ (k \in save[w].left)

\* A page that nobody's deletion overtook shows every save of what it reads, as soon as
\* that save's invalidation of it is over. With this, an old page is left in the cache
\* only by a fill that raced a deletion, by a save that deletes nothing or too early,
\* or by a part that is never deleted.
PeaceIsFresh ==
    \A k \in Keys \ {"marketplacePopular"} : entry[k].held /\ ~entry[k].overtaken =>
        \A s \in Own(k) : entry[k].seen[s] >= loud[s] \/ StillToClear(k, s)

\* Promotions are immune even to a racing fill: what is stored under the version of now
\* was read after every save whose bump is done, while saves come one at a time.
PromotionsFollow ==
    cacheManner = "serial" /\ promoted[version].held => promoted[version].seen >= bumped

\* Nothing but a fill that raced a save leaves an old page in the cache, promotions not
\* even then.
CacheSound == CacheTypeOK /\ PeaceIsFresh /\ PromotionsFollow
=============================================================================
