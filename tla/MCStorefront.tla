---------------------------- MODULE MCStorefront ----------------------------
(* Safety of six parts of the storefront that share no state: checkouts one after the      *)
(* other, the address of an order, the cache of the pages, the lists of products, the      *)
(* tracking of a guest's orders and the queue of events. A behaviour is one of one part.   *)
EXTENDS MCCheckout, CatalogCache, CatalogPages, GuestTracking, OrderAddress, VisitorEvents

\* Lists: three products, and one that comes later; b1 is the marketplace's, and b2 has no
\* discount.
CONSTANTS g1, b1, b2, g2
MCShelf == <<g1, b1, b2>>
MCFitsOf == [p \in Wares |-> IF p = b1 THEN {"newest"} ELSE Filters]
MCMaxAsked == [m \in PageManners |-> IF m = "calm" THEN 4 ELSE 3]

MCFormActs == [m \in FormManners |-> IF m = "calm" THEN 6 ELSE 5]

VARIABLE part
parts == <<vars, cacheVars, pageVars, trackVars, formVars, eventVars, part>>

(* The other parts begin in one of their initial states, and stay there. *)
Idle(p, choice, choices) == part # p => choice = CHOOSE x \in choices : TRUE

StorefrontInit ==
    /\ part \in {"checkout", "address", "cache", "pages", "tracking", "events"}
    /\ Init /\ Idle("checkout", pace, Paces)
    /\ AddressInit /\ Idle("address", <<formManner, saved>>, FormManners \X {{}})
    /\ CacheInit /\ Idle("cache", chosen, CacheManners \X PageGroups)
    /\ PagesInit
    /\ Idle("pages", <<pageManner, pageOf, sought>>, PageManners \X PageViews \X Filters)
    /\ TrackInit /\ Idle("tracking", trackManner, TrackManners)
    /\ EventInit

StorefrontNext ==
    \/ /\ part = "checkout" /\ Next
       /\ UNCHANGED <<cacheVars, pageVars, trackVars, formVars, eventVars, part>>
    \/ /\ part = "address" /\ AddressNext
       /\ UNCHANGED <<vars, cacheVars, pageVars, trackVars, eventVars, part>>
    \/ /\ part = "cache" /\ CacheNext
       /\ UNCHANGED <<vars, pageVars, trackVars, formVars, eventVars, part>>
    \/ /\ part = "pages" /\ PagesNext
       /\ UNCHANGED <<vars, cacheVars, trackVars, formVars, eventVars, part>>
    \/ /\ part = "tracking" /\ TrackNext
       /\ UNCHANGED <<vars, cacheVars, pageVars, formVars, eventVars, part>>
    \/ /\ part = "events" /\ EventNext
       /\ UNCHANGED <<vars, cacheVars, pageVars, trackVars, formVars, part>>

StorefrontSpec == StorefrontInit /\ [][StorefrontNext]_parts
=============================================================================
