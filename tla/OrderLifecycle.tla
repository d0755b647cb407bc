--------------------------- MODULE OrderLifecycle ---------------------------
(***************************************************************************)
(* What happens to an order after checkout: staff requests that move its   *)
(* status (OrdersService.applyStatus), the courier's rejection             *)
(* (CourierOrdersService.rejectByCourier), the minute job that releases    *)
(* scheduled orders (ScheduledOrdersCron), and the money that moves with   *)
(* the last status: cashback credited on delivery, cashback and coupon     *)
(* given back on cancellation.                                             *)
(*                                                                         *)
(* Every request reads the order, awaits, and then writes it by id with no *)
(* condition on what it read, so a request is two steps here.  The writes  *)
(* of DELIVERED and CANCELLED run in one database transaction whose first  *)
(* statement locks the order row; the rows it touches afterwards stay      *)
(* locked until commit, so its effects appear in one step.                 *)
(***************************************************************************)
EXTENDS Integers, FiniteSets, FiniteSetsExt, Functions

CONSTANTS
    Orders,         \* orders that checkout created
    Scheduled,      \* those created with deliveryType SCHEDULED
    Customers,      \* rows of Customer
    Coupons,        \* rows of Coupon
    Staff,          \* pairs <<role, user>>: who may call which endpoint
    Scope,          \* pairs <<user, order>> that OrderScopeService accepts
    Handlers,       \* request handlers: how many requests can be in flight
    CronRuns,       \* overlapping executions of the minute job
    MaxRequests,    \* bound on the requests of one behaviour
    MaxRestarts,    \* bound on the restarts of the backend process
    BatchSize,      \* "take" of the minute job
    NoUser, NoCustomer, NoCoupon, NoOrder,
    OneRequestPerOrder, \* TRUE: staff never act on one order at the same time
    Opening,        \* a customer's balance once the orders have been paid
    CustomerOf, CouponOf,           \* columns of an order fixed at checkout
    TotalOf, RedeemOf, EarnedOf

Role == {"PICKER", "COURIER", "ADMIN"}
Users == {s[2] : s \in Staff}

ASSUME SetsAssumption ==
    /\ IsFiniteSet(Orders)
    /\ Scheduled \subseteq Orders
    /\ \A s \in Staff : s \in Role \X Users
    /\ NoUser \notin Users
    /\ NoCustomer \notin Customers
    /\ NoCoupon \notin Coupons
    /\ NoOrder \notin Orders
    /\ MaxRequests \in Nat
    /\ MaxRestarts \in Nat
    /\ BatchSize \in Nat \ {0}
    /\ OneRequestPerOrder \in BOOLEAN

ASSUME ColumnsAssumption ==
    /\ Opening \in [Customers -> Nat]
    /\ CustomerOf \in [Orders -> Customers \cup {NoCustomer}]
    /\ CouponOf \in [Orders -> Coupons \cup {NoCoupon}]
    /\ TotalOf \in [Orders -> Nat]
    /\ RedeemOf \in [Orders -> Nat]
    /\ EarnedOf \in [Orders -> Nat]

VARIABLES
    order,      \* the mutable columns of each Order row
    account,    \* the mutable columns of each Customer row
    ledger,     \* CashbackTransaction rows of each order, by type
    couponRef,  \* Order.couponId (nulled when the coupon is deleted)
    usedCount,  \* Coupon.usedCount
    redemption, \* orders that own a CouponRedemption row
    req,        \* requests in flight
    issued,     \* requests started so far (bounded by MaxRequests)
    restarts,   \* process restarts so far (bounded by MaxRestarts)
    cooling,    \* couriers with a reject younger than REJECT_COOLDOWN_MS
    due,        \* scheduled orders whose prep window has opened
    cron,       \* executions of the minute job
    notified    \* "order.scheduled.activated" notifications per order

orderVars == <<order, account, ledger>>
couponVars == <<couponRef, usedCount, redemption>>
requestVars == <<req, issued, restarts, cooling>>
cronVars == <<due, cron, notified>>
vars == <<orderVars, couponVars, requestVars, cronVars>>

-----------------------------------------------------------------------------
(* Types *)

OrderStatus == {"PENDING_SCHEDULE", "NEW", "PICKING", "READY", "DELIVERING",
                "DELIVERED", "CANCELLED"}
Stamps == {"pickingAt", "readyAt", "deliveringAt", "deliveredAt", "cancelledAt"}

\* stamps: the timestamp columns that are not null;
\* credited: cashbackCreditedAt is not null.
OrderRow == [status : OrderStatus,
             picker : Users \cup {NoUser}, courier : Users \cup {NoUser},
             stamps : SUBSET Stamps, credited : BOOLEAN]

AccountRow == [balance : Int, totalSpent : Int, totalOrders : Int]

\* A request between two of its awaits: "status" has passed the checks of
\* applyStatus; "reject" has passed the cooldown check, "hide" and "giveBack"
\* have read the order and chosen a branch of rejectByCourier.
Idle == [op |-> "idle", order |-> NoOrder, user |-> NoUser, next |-> "NEW"]
Request == [op : {"idle", "status", "reject", "hide", "giveBack"},
            order : Orders \cup {NoOrder}, user : Users \cup {NoUser},
            next : OrderStatus]

\* An execution of the minute job: the rows it has read and not yet handled.
NoRun == [pc |-> "idle", ids |-> {}]
CronRun == [pc : {"idle", "activate", "notify"}, ids : SUBSET Scheduled]

TypeOK ==
    /\ order \in [Orders -> OrderRow]
    /\ account \in [Customers -> AccountRow]
    /\ ledger \in [Orders -> [earned : Nat, refund : Nat]]
    /\ couponRef \in [Orders -> Coupons \cup {NoCoupon}]
    /\ usedCount \in [Coupons -> Int]
    /\ redemption \subseteq Orders
    /\ req \in [Handlers -> Request]
    /\ \A h \in Handlers : req[h].op # "idle" =>
          req[h].order \in Orders /\ req[h].user \in Users
    /\ issued \in 0..MaxRequests
    /\ restarts \in 0..MaxRestarts
    /\ cooling \subseteq Users
    /\ due \subseteq Scheduled
    /\ cron \in [CronRuns -> CronRun]
    /\ notified \in [Orders -> Nat]

-----------------------------------------------------------------------------
(* The transition table and the role table of applyStatus *)

TransitionTable == [status \in OrderStatus |->
    CASE status = "PENDING_SCHEDULE" -> {"NEW", "PICKING", "CANCELLED"}
      [] status = "NEW"              -> {"PICKING", "CANCELLED"}
      [] status = "PICKING"          -> {"READY", "CANCELLED"}
      [] status = "READY"            -> {"DELIVERING", "CANCELLED"}
      [] status = "DELIVERING"       -> {"DELIVERED", "CANCELLED"}
      [] status \in {"DELIVERED", "CANCELLED"} -> {}]

\* Mutants: READY may skip DELIVERING; PICKING may be asked for again.
TransitionsSkip(status) ==
    TransitionTable[status] \cup (IF status = "READY" THEN {"DELIVERED"} ELSE {})
TransitionsReclaim(status) ==
    TransitionTable[status] \cup (IF status = "PICKING" THEN {"PICKING"} ELSE {})

Transitions(status) == TransitionTable[status]

AllowedByRole(role) ==
    CASE role = "PICKER"  -> {"PICKING", "READY"}
      [] role = "COURIER" -> {"DELIVERING", "DELIVERED"}
      [] role = "ADMIN"   -> {"PICKING", "READY", "DELIVERING", "DELIVERED", "CANCELLED"}

\* The timestamp column that updateData sets along with the status.
StampOf(status) ==
    CASE status = "PICKING"    -> {"pickingAt"}
      [] status = "READY"      -> {"readyAt"}
      [] status = "DELIVERING" -> {"deliveringAt"}
      [] status = "DELIVERED"  -> {"deliveredAt"}
      [] status = "CANCELLED"  -> {"cancelledAt"}
      [] OTHER                 -> {}

\* Mutant: the table is not consulted.
MayApplyAny(role, user, o, next) ==
    /\ role \in {"PICKER", "COURIER"} => <<user, o>> \in Scope
    /\ next \in AllowedByRole(role)

\* Every check applyStatus makes on the row it has just read.
MayApply(role, user, o, next) ==
    /\ role \in {"PICKER", "COURIER"} => <<user, o>> \in Scope
    /\ role = "PICKER" /\ order[o].status = "PICKING" /\ next = "READY"
          => order[o].picker = user
    /\ role = "COURIER" /\ order[o].status = "DELIVERING" /\ next = "DELIVERED"
          => order[o].courier = user
    /\ next \in AllowedByRole(role)
    /\ next \in Transitions(order[o].status)

\* The row after tx.order.update({ where: { id }, data: updateData }).
Written(row, next, user) ==
    [row EXCEPT !.status = next,
                !.stamps = @ \cup StampOf(next),
                !.picker = IF next = "PICKING" THEN user ELSE @,
                !.courier = IF next = "DELIVERING" THEN user ELSE @]

-----------------------------------------------------------------------------
Init ==
    /\ order = [o \in Orders |->
                  [status |-> IF o \in Scheduled THEN "PENDING_SCHEDULE" ELSE "NEW",
                   picker |-> NoUser, courier |-> NoUser,
                   stamps |-> {}, credited |-> FALSE]]
    /\ account = [c \in Customers |->
                    [balance |-> Opening[c], totalSpent |-> 0, totalOrders |-> 0]]
    /\ ledger = [o \in Orders |-> [earned |-> 0, refund |-> 0]]
    /\ couponRef = CouponOf
    /\ redemption = {o \in Orders : CouponOf[o] # NoCoupon}
    /\ usedCount = [k \in Coupons |-> Cardinality({o \in Orders : CouponOf[o] = k})]
    /\ req = [h \in Handlers |-> Idle]
    /\ issued = 0
    /\ restarts = 0
    /\ cooling = {}
    /\ due = {}
    /\ cron = [r \in CronRuns |-> NoRun]
    /\ notified = [o \in Orders |-> 0]

-----------------------------------------------------------------------------
(* Requests *)

\* Handler h, idle so far, has done its reads and now awaits its next call.
Await(h, op, o, user, next) ==
    /\ req[h].op = "idle"
    /\ issued < MaxRequests
    /\ OneRequestPerOrder => \A g \in Handlers : req[g].order # o
    /\ req' = [req EXCEPT ![h] =
                 [op |-> op, order |-> o, user |-> user, next |-> next]]
    /\ issued' = issued + 1

Answer(h) == req' = [req EXCEPT ![h] = Idle]

\* applyStatus up to the last check; a refused request changes nothing.
ReadStatus(h, role, user, o, next) ==
    /\ <<role, user>> \in Staff
    /\ MayApply(role, user, o, next)
    /\ Await(h, "status", o, user, next)
    /\ UNCHANGED <<orderVars, couponVars, restarts, cooling, cronVars>>

Store(h, statuses) ==
    LET r == req[h] IN
    /\ r.op = "status" /\ r.next \in statuses
    /\ order' = [order EXCEPT ![r.order] = Written(@, r.next, r.user)]
    /\ Answer(h)
    /\ UNCHANGED <<account, ledger, couponVars, issued, restarts, cooling, cronVars>>

\* Mutant: DELIVERED, too, is written outside a transaction.
WriteStatusAny(h) == Store(h, {"PICKING", "READY", "DELIVERING", "DELIVERED"})

\* prisma.order.update outside a transaction.
WriteStatus(h) == Store(h, {"PICKING", "READY", "DELIVERING"})

\* tx.customer.update, the EARNED row if there is an amount, cashbackCreditedAt.
Credit(o, row, amount) ==
    /\ order' = [order EXCEPT ![o] = [row EXCEPT !.credited = TRUE]]
    /\ account' = [account EXCEPT ![CustomerOf[o]] =
                      [balance |-> @.balance + amount,
                       totalSpent |-> @.totalSpent + TotalOf[o],
                       totalOrders |-> @.totalOrders + 1]]
    /\ ledger' = IF amount > 0 THEN [ledger EXCEPT ![o].earned = @ + 1] ELSE ledger

\* The early return: only the order row changes.
NoCredit(o, row) ==
    /\ order' = [order EXCEPT ![o] = row]
    /\ UNCHANGED <<account, ledger>>

\* Mutants: cashbackCreditedAt is not looked at; the counters move before the
\* early return; an order that earns nothing returns before it is counted.
FinalizeTwice(o, row) ==
    IF CustomerOf[o] = NoCustomer THEN NoCredit(o, row) ELSE Credit(o, row, EarnedOf[o])
FinalizeCountsFirst(o, row) ==
    IF CustomerOf[o] = NoCustomer THEN NoCredit(o, row)
    ELSE Credit(o, row, IF row.credited THEN 0 ELSE EarnedOf[o])
FinalizeEarningOnly(o, row) ==
    IF CustomerOf[o] = NoCustomer \/ row.credited \/ EarnedOf[o] = 0
    THEN NoCredit(o, row) ELSE Credit(o, row, EarnedOf[o])

\* The order row becomes "row"; its customer is credited the first time.
FinalizeDeliveredCashback(o, row) ==
    IF CustomerOf[o] = NoCustomer \/ row.credited
    THEN NoCredit(o, row) ELSE Credit(o, row, EarnedOf[o])

Deliver(h) ==
    LET r == req[h] IN
    /\ r.op = "status" /\ r.next = "DELIVERED"
    /\ FinalizeDeliveredCashback(r.order, Written(order[r.order], r.next, r.user))
    /\ Answer(h)
    /\ UNCHANGED <<couponVars, issued, restarts, cooling, cronVars>>

\* Mutant: the REFUND row is upserted, the balance incremented every time.
RefundOneRow(o) ==
    LET c == CustomerOf[o] IN
    IF c = NoCustomer \/ RedeemOf[o] = 0
    THEN UNCHANGED <<account, ledger>>
    ELSE /\ account' = [account EXCEPT ![c].balance = @ + RedeemOf[o]]
         /\ ledger' = [ledger EXCEPT ![o].refund = 1]

RefundOrderCashbackSpend(o) ==
    LET c == CustomerOf[o] IN
    IF c = NoCustomer \/ RedeemOf[o] = 0
    THEN UNCHANGED <<account, ledger>>
    ELSE /\ account' = [account EXCEPT ![c].balance = @ + RedeemOf[o]]
         /\ ledger' = [ledger EXCEPT ![o].refund = @ + 1]

\* Mutant: the redemption row stays.
RefundCouponKeepsRow(o) ==
    LET k == couponRef[o] IN
    IF k = NoCoupon
    THEN UNCHANGED couponVars
    ELSE /\ usedCount' = [usedCount EXCEPT ![k] = @ - 1]
         /\ UNCHANGED <<couponRef, redemption>>

RefundCouponOnCancel(o) ==
    LET k == couponRef[o] IN
    IF k = NoCoupon
    THEN UNCHANGED couponVars
    ELSE /\ redemption' = redemption \ {o}
         /\ usedCount' = [usedCount EXCEPT ![k] = @ - 1]
         /\ UNCHANGED couponRef

Cancel(h) ==
    LET r == req[h] IN
    /\ r.op = "status" /\ r.next = "CANCELLED"
    /\ order' = [order EXCEPT ![r.order] = Written(@, r.next, r.user)]
    /\ RefundOrderCashbackSpend(r.order)
    /\ RefundCouponOnCancel(r.order)
    /\ Answer(h)
    /\ UNCHANGED <<issued, restarts, cooling, cronVars>>

\* rejectByCourier, first await: no reject of this courier is too recent.
BeginReject(h, user, o) ==
    /\ <<"COURIER", user>> \in Staff
    /\ user \notin cooling
    /\ Await(h, "reject", o, user, "READY")
    /\ UNCHANGED <<orderVars, couponVars, restarts, cooling, cronVars>>

\* Second await: the status of the row chooses the branch.
ReadForReject(h) ==
    LET r == req[h]
        row == order[r.order]
    IN
    /\ r.op = "reject"
    /\ \/ /\ row.status = "READY"
          /\ req' = [req EXCEPT ![h].op = "hide"]
       \/ /\ row.status = "DELIVERING" /\ row.courier = r.user
          /\ req' = [req EXCEPT ![h].op = "giveBack"]
       \/ /\ row.status # "READY"
          /\ ~(row.status = "DELIVERING" /\ row.courier = r.user)
          /\ Answer(h)
    /\ UNCHANGED <<orderVars, couponVars, issued, restarts, cooling, cronVars>>

Reject(h, id) ==
    /\ req[h].op = "hide"
    /\ cooling' = cooling \cup {id}
    /\ Answer(h)
    /\ UNCHANGED <<orderVars, couponVars, issued, restarts, cronVars>>

\* Mutant: courierId and orderId are swapped.
HideOrderSwapped(h) == Reject(h, req[h].order)

\* courierOrderReject.create: the row hides the order and starts the cooldown.
HideOrder(h) == Reject(h, req[h].user)

\* Mutant: the wrong timestamp is nulled.
GivenBackUnready(row) ==
    [row EXCEPT !.status = "READY", !.courier = NoUser, !.stamps = @ \ {"readyAt"}]

\* The row after the update that returns an order to the queue.
GivenBack(row) ==
    [row EXCEPT !.status = "READY", !.courier = NoUser, !.stamps = @ \ {"deliveringAt"}]

\* The transaction that rejects the order and returns it to the queue.
GiveBack(h) ==
    LET r == req[h] IN
    /\ r.op = "giveBack"
    /\ order' = [order EXCEPT ![r.order] = GivenBack(@)]
    /\ cooling' = cooling \cup {r.user}
    /\ Answer(h)
    /\ UNCHANGED <<account, ledger, couponVars, issued, restarts, cronVars>>

CooldownExpires(user) ==
    /\ user \in cooling
    /\ cooling' = cooling \ {user}
    /\ UNCHANGED <<orderVars, couponVars, req, issued, restarts, cronVars>>

\* The awaited call throws: nothing is written, a transaction rolls back.
RequestFails(h) ==
    /\ req[h].op # "idle"
    /\ Answer(h)
    /\ UNCHANGED <<orderVars, couponVars, issued, restarts, cooling, cronVars>>

\* CouponsService.remove: redemptions cascade, Order.couponId is set to null.
DeleteCoupon(k) ==
    /\ \E o \in Orders : couponRef[o] = k
    /\ couponRef' = [o \in Orders |-> IF couponRef[o] = k THEN NoCoupon ELSE couponRef[o]]
    /\ redemption' = {o \in redemption : couponRef[o] # k}
    /\ usedCount' = [usedCount EXCEPT ![k] = 0]
    /\ UNCHANGED <<orderVars, requestVars, cronVars>>

-----------------------------------------------------------------------------
(* The minute job *)

\* now + prepLeadMinutes has reached the order's scheduledAt.
BecomeDue(o) ==
    /\ o \in Scheduled \ due
    /\ due' = due \cup {o}
    /\ UNCHANGED <<orderVars, couponVars, requestVars, cron, notified>>

Activatable == {o \in due : order[o].status = "PENDING_SCHEDULE"}

\* order.findMany with take: BatchSize and no orderBy.
Batches ==
    {ids \in SUBSET Activatable : /\ Cardinality(ids) <= BatchSize
                                  /\ ids = Activatable \/ Cardinality(ids) = BatchSize}

ReadBatch(r, pc) ==
    /\ cron[r] = NoRun
    /\ Activatable # {}
    /\ \E ids \in Batches : cron' = [cron EXCEPT ![r] = [pc |-> pc, ids |-> ids]]
    /\ UNCHANGED <<orderVars, couponVars, requestVars, due, notified>>

\* Mutant: the loop over the batch comes before the update.
ReadDueNotifies(r) == ReadBatch(r, "notify")

ReadDue(r) == ReadBatch(r, "activate")

Release(r, ids) ==
    /\ cron[r].pc = "activate"
    /\ order' = [o \in Orders |->
                   IF o \in ids THEN [order[o] EXCEPT !.status = "NEW"] ELSE order[o]]
    /\ cron' = [cron EXCEPT ![r].pc = "notify"]
    /\ UNCHANGED <<account, ledger, couponVars, requestVars, due, notified>>

\* Mutant: where id in ids, whatever the status is now.
ActivateDueAny(r) == Release(r, cron[r].ids)

\* order.updateMany where id in ids and status = PENDING_SCHEDULE.
ActivateDue(r) ==
    Release(r, {o \in cron[r].ids : order[o].status = "PENDING_SCHEDULE"})

Notify(r, o, rest) ==
    /\ cron[r].pc = "notify"
    /\ o \in cron[r].ids
    /\ notified' = [notified EXCEPT ![o] = @ + 1]
    /\ cron' = [cron EXCEPT ![r] = rest]
    /\ UNCHANGED <<orderVars, couponVars, requestVars, due>>

\* Mutant: after its last turn the loop awaits something that never comes.
NotifyActivatedHangs(r, o) ==
    Notify(r, o, [pc |-> "notify", ids |-> cron[r].ids \ {o}])

\* One turn of the loop over everything that was read, updated or not.
NotifyActivated(r, o) ==
    Notify(r, o, IF cron[r].ids = {o} THEN NoRun
                 ELSE [pc |-> "notify", ids |-> cron[r].ids \ {o}])

\* The process stops between two statements and starts again.
Restart ==
    /\ restarts < MaxRestarts
    /\ restarts' = restarts + 1
    /\ req' = [h \in Handlers |-> Idle]
    /\ cron' = [r \in CronRuns |-> NoRun]
    /\ UNCHANGED <<orderVars, couponVars, issued, cooling, due, notified>>

-----------------------------------------------------------------------------
RequestStep(h) ==
    \/ \E s \in Staff, o \in Orders, next \in OrderStatus :
          ReadStatus(h, s[1], s[2], o, next)
    \/ WriteStatus(h)
    \/ Deliver(h)
    \/ Cancel(h)
    \/ \E user \in Users, o \in Orders : BeginReject(h, user, o)
    \/ ReadForReject(h)
    \/ HideOrder(h)
    \/ GiveBack(h)
    \/ RequestFails(h)

CronStep(r) ==
    \/ ReadDue(r)
    \/ ActivateDue(r)
    \/ \E o \in Orders : NotifyActivated(r, o)

Next ==
    \/ \E h \in Handlers : RequestStep(h)
    \/ \E r \in CronRuns : CronStep(r)
    \/ \E user \in Users : CooldownExpires(user)
    \/ \E k \in Coupons : DeleteCoupon(k)
    \/ \E o \in Orders : BecomeDue(o)
    \/ Restart

Spec == Init /\ [][Next]_vars

\* @Cron starts the job every minute and nothing in it waits for a user.
FairSpec == Spec /\ \A r \in CronRuns : WF_vars(CronStep(r))

-----------------------------------------------------------------------------
(* What survives any interleaving of requests on one order *)

RowEvidence(row) ==
    /\ row.status \in {"PICKING", "READY", "DELIVERING", "DELIVERED"} =>
          row.picker # NoUser /\ "pickingAt" \in row.stamps
    /\ row.status \in {"READY", "DELIVERING", "DELIVERED"} => "readyAt" \in row.stamps
    /\ row.status = "DELIVERING" =>
          row.courier # NoUser /\ "deliveringAt" \in row.stamps
    /\ row.status = "DELIVERED" => "deliveredAt" \in row.stamps
    /\ row.status = "CANCELLED" => "cancelledAt" \in row.stamps

RequestEvidence(r, row) ==
    LET wants(S) == r.op = "giveBack" \/ (r.op = "status" /\ r.next \in S) IN
    /\ wants({"READY", "DELIVERING", "DELIVERED"}) =>
          row.picker # NoUser /\ "pickingAt" \in row.stamps
    /\ wants({"DELIVERING", "DELIVERED"}) => "readyAt" \in row.stamps

\* The stages an order has been through leave evidence that later requests
\* cannot lose, however stale they are: a status beyond PICKING has a picker
\* and both preparation timestamps, an order on the road has a courier
\* (applyStatus writes the status, its timestamp and its assignee together).
StageEvidence == \A o \in Orders : RowEvidence(order[o])

\* The same evidence, held by a request that has read the order and not yet
\* written it: the strengthening under which StageEvidence is inductive.
ReadEvidence ==
    \A h \in Handlers : req[h].op # "idle" => RequestEvidence(req[h], order[req[h].order])

\* Two DELIVERED requests for one order pay its cashback once: the row lock
\* makes the second transaction of finalizeDeliveredCashback see the first.
CreditedOnce ==
    \A o \in Orders :
        ledger[o].earned = IF order[o].credited /\ EarnedOf[o] > 0 THEN 1 ELSE 0

OrdersOf(c) == {o \in Orders : CustomerOf[o] = c}

\* Every som of cashback is explained by a CashbackTransaction row: the sum of
\* a customer's rows is the balance, whatever was retried or delivered twice.
BooksBalance ==
    \A c \in Customers :
        account[c].balance = Opening[c] +
            MapThenSumSet(LAMBDA o : ledger[o].earned * EarnedOf[o]
                                   + ledger[o].refund * RedeemOf[o], OrdersOf(c))

\* totalOrders and totalSpent, which choose the loyalty tier, count exactly
\* the orders whose cashbackCreditedAt is set.
CountersMatchCredits ==
    \A c \in Customers :
        LET paid == {o \in OrdersOf(c) : order[o].credited} IN
        /\ account[c].totalOrders = Cardinality(paid)
        /\ account[c].totalSpent = MapThenSumSet(LAMBDA o : TotalOf[o], paid)

\* No interleaving, failure or restart shows an order in a final status whose
\* money has not moved: status and settlement commit together.
TerminalIsSettled ==
    \A o \in Orders : CustomerOf[o] # NoCustomer =>
        /\ order[o].status = "DELIVERED" => order[o].credited
        /\ order[o].status = "CANCELLED" /\ RedeemOf[o] > 0 => ledger[o].refund > 0

\* What holds of the orders whatever requests collide, fail or are sent again, and
\* whenever the server restarts.
OrdersSound == TypeOK /\ StageEvidence /\ CreditedOnce /\ TerminalIsSettled

\* The balances and the loyalty counters are explained by the ledger and the credits.
AccountsAgree == BooksBalance /\ CountersMatchCredits

\* The minute job never takes back an order that a picker started early or an
\* admin cancelled between its findMany and its updateMany.
OnlyPendingBecomesNew ==
    [][\A o \in Orders :
          order'[o].status = "NEW" /\ order[o].status # "NEW"
             => order[o].status = "PENDING_SCHEDULE"]_vars

\* When staff hear that a scheduled order was activated, it has already left
\* PENDING_SCHEDULE for good.
NotifiedAfterActivation ==
    \A o \in Orders : notified[o] > 0 => order[o].status # "PENDING_SCHEDULE"

\* A scheduled order whose prep window opens leaves PENDING_SCHEDULE, though
\* the job handles BatchSize rows at a time in no particular order.
DueOrdersActivated ==
    \A o \in Scheduled : o \in due ~> order[o].status # "PENDING_SCHEDULE"

-----------------------------------------------------------------------------
(* What holds as long as staff do not act on one order at the same time *)

\* A row moves along ORDER_STATUS_TRANSITIONS, or back to READY when its
\* courier gives it back.
TableFollowed ==
    [][\A o \in Orders :
          LET from == order[o].status
              to == order'[o].status
          IN  from # to => \/ to \in Transitions(from)
                           \/ from = "DELIVERING" /\ to = "READY"]_vars

\* An order is settled the way it ended and no other way: credited when and
\* only when DELIVERED, its cashback refunded once when CANCELLED.
SettlementMatchesStatus ==
    \A o \in Orders : CustomerOf[o] # NoCustomer =>
        /\ order[o].credited <=> order[o].status = "DELIVERED"
        /\ ledger[o].refund =
              IF order[o].status = "CANCELLED" /\ RedeemOf[o] > 0 THEN 1 ELSE 0

\* A coupon's usedCount is the number of its redemption rows, so a cancelled
\* order frees one use and no more.
CouponRowsMatch ==
    \A k \in Coupons :
        usedCount[k] = Cardinality({o \in redemption : couponRef[o] = k})

\* Nobody takes over an order that another picker or courier holds; only its
\* courier lets go of it.
ClaimsHold ==
    [][\A o \in Orders :
          /\ order[o].picker # NoUser => order'[o].picker = order[o].picker
          /\ order[o].courier # NoUser =>
                order'[o].courier \in {order[o].courier, NoUser}]_vars

\* No step leaves the table or takes an order out of another's hands.
StepsAllowed == TableFollowed /\ ClaimsHold

\* A delivered order is in some courier's history, with a start time.
DeliveredByCourier ==
    \A o \in Orders : order[o].status = "DELIVERED" =>
        order[o].courier # NoUser /\ "deliveringAt" \in order[o].stamps

\* An order that staff do not touch together is settled, coupon included, as it ended, and
\* by whoever had it.
SettledAsEnded == SettlementMatchesStatus /\ CouponRowsMatch /\ DeliveredByCourier

\* The promise to the customer: an order ends once, delivered and credited or
\* cancelled and refunded.
Outcome == [o \in Orders |->
              CASE order[o].status = "DELIVERED" -> "delivered"
                [] order[o].status = "CANCELLED" -> "cancelled"
                [] OTHER -> "open"]
Promise == INSTANCE OrderSettlement WITH outcome <- Outcome
SettlesAsPromised == Promise!Spec

=============================================================================
