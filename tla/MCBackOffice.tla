---------------------------- MODULE MCBackOffice ----------------------------
(* Safety of six parts that share no state: the images of the products, delivery times,   *)
(* the editing of products, the migration to the marketplace, the push notices of the     *)
(* staff and the reports. A behaviour is one of one part.                                 *)
EXTENDS ImageUpload, DeliverySchedule, ProductAdmin, MarketMigration, StaffPush, Reports,
        TLC

MCMaxCalls == [m \in ImageManners |-> IF m = "serial" THEN 5 ELSE 4]
MCMaxRequests == [m \in ClerkManners |-> IF m = "any" THEN 2 ELSE 3]

(* Delivery: two sets of rules, from hour to hour, of which the second leaves little room. *)
Rules(from, to, delay, most, slot) ==
    [enabled |-> TRUE, slotMinutes |-> slot, workStart |-> from, workEnd |-> to,
     minDelay |-> delay, maxOrders |-> most]
MCRuleSets == {Rules(20, 22, 60, 1, 60), Rules(21, 22, 20, 2, 30)}

(* Migration: five products of two sellers; two sellers have a product of one name, one    *)
(* seller has two of another, and two variants of different products share their value.    *)
CONSTANTS m1, m2, m3, m4, m5, seller1, seller2, apple, pear, w1, w2, w3, w4, big, small
MCOldTables ==
    [m \in MigrationManners |-> IF m = "any" THEN <<m1, m2>> ELSE <<m1, m2, m3, m4, m5>>]
MCMaxRuns == [m \in MigrationManners |-> IF m = "any" THEN 3 ELSE 4]
MCMaxEdits == [m \in MigrationManners |-> IF m = "any" THEN 0 ELSE 1]
MCSellerOf == [p \in {m1, m3, m4} |-> seller1] @@ [p \in {m2, m5} |-> seller2]
MCNameOf == [p \in {m1, m2} |-> apple] @@ [p \in {m3, m4, m5} |-> pear]
MCVariantsOf == (m1 :> <<w1, w2>>) @@ (m2 :> <<w3>>) @@ (m5 :> <<w4>>)
                    @@ [p \in {m3, m4} |-> <<>>]
MCValueOf == (w2 :> big) @@ [v \in {w1, w3, w4} |-> small]

(* Push notices: at the pace "any" something is lost, at the other an order is announced. *)
MCPushDrops == [m \in PushManners |-> IF m = "any" THEN 1 ELSE 0]
MCNotices == [m \in PushManners |-> IF m = "any" THEN 0 ELSE 1]

(* Reports: the afternoon of a 31st of March, the morning of a 15th of June, and late on a *)
(* 31st of October, of the sixth year.                                                     *)
Moment(month, dom, t) == (FirstDay(month) + dom - 1) * DayLength + t
MCQuiet == [o \in OrderIds |-> IF o > 1 THEN NoOrderYet
                              ELSE [NoOrderYet EXCEPT !.at = Moment(66, 15, 1) - 1,
                                                      !.status = "NEW"]]
MCMoments == {Moment(63, 31, 2), Moment(66, 15, 1), Moment(70, 31, 3)}

VARIABLE part
parts == <<imageVars, scheduleVars, productVars, migrationVars, pushVars, reportVars, part>>

(* The other parts begin in one of their initial states, and stay there. *)
Idle(p, choice, choices) == part # p => choice = CHOOSE x \in choices : TRUE

OfficeInit ==
    /\ part \in {"images", "delivery", "products", "migration", "push", "reports"}
    /\ ImageInit /\ Idle("images", imageManner, ImageManners)
    /\ ScheduleInit
    /\ Idle("delivery", <<slotManner, clock, rules>>, SlotManners \X Openings \X RuleSets)
    /\ ProductInit /\ Idle("products", clerkManner, ClerkManners)
    /\ MigrationInit /\ Idle("migration", runManner, MigrationManners)
    /\ PushInit /\ Idle("push", pushManner, PushManners)
    /\ part # "reports" =>
          /\ reportManner = "calm" /\ report = "business" /\ asOf = Moment(66, 15, 1)
          /\ placed = MCQuiet
    /\ ReportInit

OfficeNext ==
    \/ /\ part = "images" /\ ImageNext
       /\ UNCHANGED <<scheduleVars, productVars, migrationVars, pushVars, reportVars, part>>
    \/ /\ part = "delivery" /\ ScheduleNext
       /\ UNCHANGED <<imageVars, productVars, migrationVars, pushVars, reportVars, part>>
    \/ /\ part = "products" /\ ProductNext
       /\ UNCHANGED <<imageVars, scheduleVars, migrationVars, pushVars, reportVars, part>>
    \/ /\ part = "migration" /\ MigrationNext
       /\ UNCHANGED <<imageVars, scheduleVars, productVars, pushVars, reportVars, part>>
    \/ /\ part = "push" /\ PushNext
       /\ UNCHANGED <<imageVars, scheduleVars, productVars, migrationVars, reportVars, part>>
    \/ /\ part = "reports" /\ ReportNext
       /\ UNCHANGED <<imageVars, scheduleVars, productVars, migrationVars, pushVars, part>>

OfficeSpec == OfficeInit /\ [][OfficeNext]_parts
=============================================================================
