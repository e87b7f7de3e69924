----------------------------- MODULE StallStock ------------------------------
(***************************************************************************)
(* Counted stock of the products of a stall:                               *)
(* supabase/migrations/20260907151100_stall_product_stock.sql, where a     *)
(* deferred trigger settles the stock of an order when its transaction     *)
(* commits, and the stock editor of the merchant                           *)
(* (api/merchant/stalls/[stallId]/products/route.ts).                      *)
(*                                                                         *)
(* A commit holds the row of the order and of every product it touches, so *)
(* it is one step.  Only created_at is older: it is the time at which the  *)
(* transaction that places the order began.  Times are compared with       *)
(* stock_started_at alone, so born[o][p] is the counting epoch of p that   *)
(* was current at created_at.                                              *)
(***************************************************************************)
EXTENDS Integers, FiniteSets, FiniteSetsExt

CONSTANTS
    Products, Orders, Editors,
    Unlimited,      \* stock_remaining is null
    MaxQuantity,    \* bound per product: portions of it in an order
    MaxSupply,      \* bound: portions a merchant enters or adds
    MaxVersion      \* bound per product: changes of its stock_remaining

ASSUME StockConstants ==
    /\ Unlimited \notin Int
    /\ IsFiniteSet(Orders)
    /\ MaxSupply \in Nat
    /\ {MaxQuantity, MaxVersion} \subseteq [Products -> Nat]

VARIABLES
    remaining,      \* [Products -> stock_remaining]
    version,        \* [Products -> stock_version]
    epoch,          \* [Products -> stock_started_at, counted]
    status,         \* [Orders -> order status], "BEGUN" while being placed
    consumed,       \* [Orders -> stock_consumed]
    lines,          \* [Orders -> [Products -> ordered portions]]
    alloc,          \* [Orders -> [Products -> stock_allocations]]
    born,           \* [Orders -> [Products -> epoch at created_at]]
    screen,         \* [Editors -> [Products -> the row an editor shows]]
    supplied        \* history: portions put on sale in the current epoch

stock == << remaining, version, epoch, supplied >>
order == << status, consumed, lines, alloc, born >>
stockVars  == << stock, order, screen >>

None == [quantity |-> 0, epoch |-> 0]
Counted(p) == remaining[p] # Unlimited
Active == {"WAITING_CONFIRMATION", "CONFIRMED", "PREPARING"}

StockTypeOK ==
    /\ remaining \in [Products -> Nat \cup {Unlimited}]
    /\ version \in [Products -> Nat]
    /\ epoch \in [Products -> Nat]
    /\ status \in [Orders -> {"ABSENT", "BEGUN", "COMPLETED", "CANCELLED"} \cup Active]
    /\ consumed \in [Orders -> BOOLEAN]
    /\ lines \in [Orders -> [Products -> Nat]]
    /\ alloc \in [Orders -> [Products -> [quantity : Nat, epoch : Nat]]]
    /\ born \in [Orders -> [Products -> Nat]]
    /\ screen \in [Editors -> [Products ->
            [version : Nat, remaining : Nat \cup {Unlimited}]]]
    /\ supplied \in [Products -> Int]

StockInit ==
    /\ remaining = [p \in Products |-> Unlimited]
    /\ version = [p \in Products |-> 0]
    /\ epoch = [p \in Products |-> 0]
    /\ status = [o \in Orders |-> "ABSENT"]
    /\ consumed = [o \in Orders |-> FALSE]
    /\ lines = [o \in Orders |-> [p \in Products |-> 0]]
    /\ alloc = [o \in Orders |-> [p \in Products |-> None]]
    /\ born = [o \in Orders |-> [p \in Products |-> 0]]
    /\ screen = [m \in Editors |-> [p \in Products |-> [version |-> 0, remaining |-> Unlimited]]]
    /\ supplied = [p \in Products |-> 0]

-----------------------------------------------------------------------------
(* version_stall_stock, before every write of a product: SetRemaining      *)
(* gives all products their new value.                                     *)
BumpOnRestock(p, q) == remaining[p] = Unlimited \/ q = Unlimited \/ q > remaining[p]
Bumps(p, q) == q # remaining[p]

SetRemaining(new) ==
    /\ \A p \in Products : Bumps(p, new[p]) => version[p] < MaxVersion[p]
    /\ remaining' = new
    /\ version' = [p \in Products |-> IF Bumps(p, new[p]) THEN version[p] + 1 ELSE version[p]]
    /\ epoch' = [p \in Products |-> IF remaining[p] = Unlimited /\ new[p] # Unlimited
                                      THEN epoch[p] + 1 ELSE epoch[p]]

-----------------------------------------------------------------------------
(* reconcile_order_stock for an order whose new status, lines and          *)
(* consumption are s, l and c.                                             *)
SameEpoch(o, p) == alloc[o][p].epoch = epoch[p] /\ epoch[p] > 0

Previous(o, p) == IF SameEpoch(o, p) THEN alloc[o][p].quantity ELSE 0

\* Neither lines nor an allocation, or an order older than the counting.
Untouched(o, p, l) ==
    \/ l[p] = 0 /\ alloc[o][p] = None
    \/ ~ SameEpoch(o, p) /\ born[o][p] < epoch[p]

DesiredReturnsAll(o, p, s, l, c) ==
    CASE s = "CANCELLED" -> 0
      [] s # "CANCELLED" /\ c -> Max({Previous(o, p), l[p]})
      [] OTHER -> l[p]

DesiredKeepsCancelled(o, p, s, l, c) ==
    IF c THEN Max({Previous(o, p), l[p]}) ELSE l[p]

Desired(o, p, s, l, c) ==
    CASE s = "CANCELLED" -> IF c THEN Previous(o, p) ELSE 0
      [] s # "CANCELLED" /\ c -> Max({Previous(o, p), l[p]})
      [] OTHER -> l[p]

DeltaWhole(o, p, s, l, c) ==
    IF ~ Counted(p) \/ Untouched(o, p, l) THEN 0 ELSE Desired(o, p, s, l, c)

Delta(o, p, s, l, c) ==
    IF ~ Counted(p) \/ Untouched(o, p, l) THEN 0
    ELSE Desired(o, p, s, l, c) - Previous(o, p)

\* raise PRODUCT_STOCK_INSUFFICIENT
Sufficient(o, p, s, l, c) == Counted(p) => Delta(o, p, s, l, c) <= remaining[p]

\* The transaction fails as a whole when one product is short.
CommitOrder(o, s, l, c) ==
    /\ \A p \in Products : Sufficient(o, p, s, l, c)
    /\ SetRemaining([p \in Products |-> IF Counted(p) THEN remaining[p] - Delta(o, p, s, l, c)
                                                      ELSE Unlimited])
    /\ alloc' = [alloc EXCEPT ![o] = [p \in Products |->
           CASE ~ Counted(p) -> None
             [] Counted(p) /\ Untouched(o, p, l) -> alloc[o][p]
             [] OTHER -> [quantity |-> Desired(o, p, s, l, c), epoch |-> epoch[p]]]]
    /\ status' = [status EXCEPT ![o] = s]
    /\ lines' = [lines EXCEPT ![o] = l]
    /\ consumed' = [consumed EXCEPT ![o] = c]
    /\ UNCHANGED << born, supplied, screen >>

Baskets ==
    {l \in [Products -> UNION {0..MaxQuantity[p] : p \in Products}] :
        /\ \A p \in Products : l[p] <= MaxQuantity[p]
        /\ \E p \in Products : l[p] > 0}

\* The transaction that places an order starts, and later commits.
BeginOrder(o) ==
    /\ status[o] = "ABSENT"
    /\ status' = [status EXCEPT ![o] = "BEGUN"]
    /\ born' = [born EXCEPT ![o] = epoch]
    /\ UNCHANGED << stock, consumed, lines, alloc, screen >>

PlaceOrder(o) ==
    /\ status[o] = "BEGUN"
    /\ \E l \in Baskets, s \in {"WAITING_CONFIRMATION", "CONFIRMED"} : CommitOrder(o, s, l, FALSE)

\* editTrackedPublicOrder and editStaffOrderItems, before production.
AmendOrder(o) ==
    /\ status[o] \in {"WAITING_CONFIRMATION", "CONFIRMED"}
    /\ \E l \in Baskets \ {lines[o]} : CommitOrder(o, status[o], l, FALSE)

ConfirmOrder(o) ==
    /\ status[o] = "WAITING_CONFIRMATION"
    /\ CommitOrder(o, "CONFIRMED", lines[o], FALSE)

\* The first item, task or order in PREPARING or beyond: mark_order_stock_consumed.
StartProduction(o) ==
    /\ status[o] = "CONFIRMED"
    /\ CommitOrder(o, "PREPARING", lines[o], TRUE)

CompleteOrder(o) ==
    /\ status[o] \in {"CONFIRMED", "PREPARING"}
    /\ CommitOrder(o, "COMPLETED", lines[o], TRUE)

\* CANCELLED by staff or customer, EXPIRED by the timeout.
CancelOrder(o) ==
    /\ status[o] \in Active
    /\ CommitOrder(o, "CANCELLED", lines[o], consumed[o])

-----------------------------------------------------------------------------
(* The stock editor: it shows rows, and its command names their versions.  *)
OpenEditor(m) ==
    /\ screen' = [screen EXCEPT ![m] = [p \in Products |->
                    [version |-> version[p], remaining |-> remaining[p]]]]
    /\ UNCHANGED << stock, order >>

Fresh(m, p) == screen[m][p].version = version[p]

SaveStock(m, p) ==
    /\ Fresh(m, p)
    /\ \E n \in 0..MaxSupply :
         \E q \in {n, Unlimited} \cup (IF Counted(p) THEN {remaining[p] + n} ELSE {}) :
           /\ q # remaining[p]
           /\ SetRemaining([remaining EXCEPT ![p] = q])
           /\ supplied' = [supplied EXCEPT ![p] =
                 CASE q = Unlimited -> 0
                   [] q # Unlimited /\ ~ Counted(p) -> q
                   [] OTHER -> supplied[p] + q - remaining[p]]
    /\ UNCHANGED << order, screen >>

-----------------------------------------------------------------------------
StockNext ==
    \/ \E o \in Orders : \/ BeginOrder(o) \/ PlaceOrder(o) \/ AmendOrder(o) \/ ConfirmOrder(o)
                         \/ StartProduction(o) \/ CompleteOrder(o) \/ CancelOrder(o)
    \/ \E m \in Editors : OpenEditor(m) \/ \E p \in Products : SaveStock(m, p)

StockSpec == StockInit /\ [][StockNext]_stockVars

-----------------------------------------------------------------------------
(* Properties.                                                             *)

\* The portions of p that orders hold, numbered per order.
HeldPortions(p) == UNION {{o} \X (1..Previous(o, p)) : o \in Orders}
Held(p) == Cardinality(HeldPortions(p))

\* No portion is lost or sold twice: what the merchant put on sale since the
\* counting began is what is left plus what orders hold, through every order,
\* amendment, cancellation and restocking, and what is left is never negative.
PortionsConserved ==
    \A p \in Products : Counted(p) => remaining[p] >= 0 /\ remaining[p] + Held(p) = supplied[p]

\* An active order that was placed after the counting began holds a portion
\* for every portion on its lines; one that was cancelled before production
\* holds none.
OrdersHoldTheirLines ==
    \A o \in Orders, p \in Products : Counted(p) /\ born[o][p] = epoch[p] =>
        /\ status[o] \in Active => Previous(o, p) >= lines[o][p]
        /\ status[o] = "CANCELLED" /\ ~ consumed[o] => Previous(o, p) = 0

\* Portions that went into production never come back, whatever happens to
\* the order afterwards.
ConsumedIsGone ==
    [][\A o \in Orders, p \in Products :
        consumed[o] /\ SameEpoch(o, p) /\ remaining'[p] # Unlimited =>
            /\ consumed'[o]
            /\ alloc'[o][p].quantity >= alloc[o][p].quantity]_stockVars

\* An editor that shows the current version shows the current stock, so no
\* save undoes a sale it has not seen.
VersionIdentifiesStock ==
    \A m \in Editors, p \in Products :
        Fresh(m, p) => screen[m][p].remaining = remaining[p]
=============================================================================
