------------------------------ MODULE CartTable ------------------------------
(***************************************************************************)
(* The cart: one row per product in SQLite (ProductDataDB), written by the *)
(* menu, home and product screens and by the cart screen.  A tap changes   *)
(* the quantity on the screen at once and queues database operations; the  *)
(* operations run one at a time in the order they were issued, and what    *)
(* the code awaits goes on, with more operations, when its turn has come.  *)
(*                                                                         *)
(* The menu, home and product screens are one screen here, "menu": each    *)
(* has its own copy of the same functions.  Every visit to a screen makes  *)
(* a new one (the back buttons push), so a screen starts with nothing      *)
(* chosen and reads the table; what it left behind no longer shows.        *)
(***************************************************************************)
EXTENDS Naturals, Sequences, FiniteSets, FiniteSetsExt, SequencesExt

CONSTANTS
    Products,       \* what the vendors sell
    Vendors,
    VendorOf,       \* whose product it is
    Bogo,           \* products sold two for one (isBuy1Get1)
    Limit,          \* qtyLimit
    HurriedTaps,    \* the products, and "clear" for "Clear Cart", tapped while
                    \* operations are queued
    HurriedScreens, \* customers change screens while operations are queued
    Expires,        \* a session may expire (SessionExpiredDialog)
    Kills,          \* the app may be killed and started again
    MaxJobs         \* bound: the customer acts when fewer operations are queued

ASSUME CartAssumption ==
    /\ VendorOf \in [Products -> Vendors]
    /\ Bogo \subseteq Products
    /\ Limit \in Nat \ {0}
    /\ HurriedTaps \subseteq Products \union {"clear"}
    /\ HurriedScreens \in BOOLEAN
    /\ Expires \in BOOLEAN /\ Kills \in BOOLEAN
    /\ MaxJobs \in Nat

VARIABLES
    table,    \* the rows of ProductDataDB
    jobs,     \* the database operations issued and not yet run
    screen,   \* the screen on top
    vendor,   \* the vendor the customer has selected
    list,     \* the quantities the screen shows
    count     \* the menu's badge, cartItemCount

vars == <<table, jobs, screen, vendor, list, count>>

Screens == {"menu", "cart", "paid", "vendors"}
Most(p) == IF p \in Bogo THEN 2 * Limit ELSE Limit + 1
Rows    == [product: Products, vendor: Vendors, qty: Nat]
NoRow   == [product |-> "none"]
Ops     == {"find", "all", "insert", "evict", "update", "delete", "clear",
            "read", "count"}

(* An operation remembers the screen that issued it, and whether that      *)
(* screen is still the one shown.                                          *)
Job(op, row, from) == [op |-> op, row |-> row, from |-> from, live |-> TRUE]
Jobs == [op: Ops, row: Rows \union {NoRow}, from: {"menu", "cart", "none"},
         live: BOOLEAN]

Row(p, q)   == [product |-> p, vendor |-> vendor, qty |-> q]
Stored(p)   == {r \in table : r.product = p}
StoredQty(p) == IF Stored(p) = {} THEN 0 ELSE (CHOOSE r \in Stored(p) : TRUE).qty
Total       == MapThenSumSet(LAMBDA r : r.qty, table)

-----------------------------------------------------------------------------
(* What the data access object does to the table; the key is the product.  *)

(* mutant: no replacement of the row with the same key *)
InsertedTwice(row) == table \union {row}

Inserted(row) == (table \ Stored(row.product)) \union {row}
Updated(row)  == IF Stored(row.product) = {} THEN table ELSE Inserted(row)
Deleted(row)  == table \ Stored(row.product)

(* getCartData on the cart screen, getCartItemCountDB on the others: each  *)
(* write is followed by one of them.                                       *)
Refresh(from) == Job(IF from = "cart" THEN "read" ELSE "count", NoRow, from)

(* addProductInDb: look for the row first.  The listing counts at once.    *)
AddOnMenu(row) == <<Job("find", row, "menu"), Refresh("menu")>>
AddOnCart(row) == <<Job("find", row, "cart")>>

(* mutant: the quantity is not looked at *)
DropWhole(row) == <<Job("delete", row, "none"), Refresh("menu")>>

(* deleteCartProductInDb and, on the cart screen, deleteProductInDb.       *)
DropOnMenu(row) ==
    <<Job(IF row.qty = 0 THEN "delete" ELSE "update", row, "none"), Refresh("menu")>>
DropOnCart(row) ==
    <<Job(IF row.qty = 0 THEN "delete" ELSE "update", row, "none"), Refresh("cart")>>

Init ==
    /\ table = {}
    /\ vendor \in Vendors
    /\ screen = "menu"
    /\ list = [p \in {x \in Products : VendorOf[x] = vendor} |-> 0]
    /\ count = 0
    /\ jobs = <<Job("read", NoRow, "menu")>>

-----------------------------------------------------------------------------
(* The customer's taps.                                                    *)

MayTap(x) == IF x \in HurriedTaps THEN Len(jobs) < MaxJobs ELSE jobs = <<>>
MayGo     == IF HurriedScreens THEN Len(jobs) < MaxJobs ELSE jobs = <<>>

Tap(p, q, todo) ==
    /\ MayTap(p)
    /\ list' = [list EXCEPT ![p] = q]
    /\ jobs' = jobs \o todo
    /\ UNCHANGED <<table, screen, vendor, count>>

(* The listing sells the two-for-one products on the product screen only.  *)
MenuPlus(p) ==
    /\ screen = "menu" /\ p \in DOMAIN list \ Bogo
    /\ list[p] <= Limit
    /\ Tap(p, list[p] + 1, AddOnMenu(Row(p, list[p] + 1)))

MenuMinus(p) ==
    /\ screen = "menu" /\ p \in DOMAIN list \ Bogo
    /\ list[p] > 0
    /\ Tap(p, list[p] - 1, DropOnMenu(Row(p, list[p] - 1)))

(* The product screen: one more, or two more of a two-for-one product.     *)
DetailPlus(p) ==
    /\ screen = "menu" /\ p \in DOMAIN list
    /\ LET step == IF p \in Bogo THEN 2 ELSE 1
       IN  /\ list[p] < step * Limit
           /\ Tap(p, list[p] + step, AddOnMenu(Row(p, list[p] + step)))

DetailMinus(p) ==
    /\ screen = "menu" /\ p \in DOMAIN list
    /\ list[p] > 0
    /\ LET left == list[p] - (IF p \in Bogo THEN 2 ELSE 1)
       IN  Tap(p, left, DropOnMenu(Row(p, left)))

(* mutant: the limit test lets one more step through *)
CartPlusOneMore(p) ==
    /\ screen = "cart" /\ p \in DOMAIN list
    /\ LET step == IF p \in Bogo THEN 2 ELSE 1
       IN  /\ list[p] <= step * Limit + 1
           /\ Tap(p, list[p] + step, AddOnCart(Row(p, list[p] + step)))

CartPlus(p) ==
    /\ screen = "cart" /\ p \in DOMAIN list
    /\ LET step == IF p \in Bogo THEN 2 ELSE 1
       IN  /\ list[p] < step * Limit
           /\ Tap(p, list[p] + step, AddOnCart(Row(p, list[p] + step)))

(* A quantity above the limit, which the listing allows, cannot be lowered.*)
CartMinus(p) ==
    /\ screen = "cart" /\ p \in DOMAIN list
    /\ LET step == IF p \in Bogo THEN 2 ELSE 1
       IN  /\ list[p] <= step * Limit
           /\ list[p] >= step
           /\ Tap(p, list[p] - step, DropOnCart(Row(p, list[p] - step)))

CartRemove(p) ==
    /\ screen = "cart" /\ p \in DOMAIN list
    /\ list[p] > 0
    /\ Tap(p, 0, DropOnCart(Row(p, 0)))

(* "Clear Cart" *)
ClearCart ==
    /\ screen = "cart" /\ DOMAIN list # {}
    /\ MayTap("clear")
    /\ jobs' = jobs \o <<Job("clear", NoRow, "none"), Refresh("cart")>>
    /\ UNCHANGED <<table, screen, vendor, list, count>>

-----------------------------------------------------------------------------
(* Changing screens.                                                       *)

(* Operations go on when their screen is covered; nobody sees their result.*)
Left == [i \in DOMAIN jobs |-> [jobs[i] EXCEPT !.live = FALSE]]

(* A new menu screen of vendor v, none of its products chosen yet.         *)
ShowMenu(v, pending) ==
    /\ screen' = "menu"
    /\ vendor' = v
    /\ list' = [p \in {x \in Products : VendorOf[x] = v} |-> 0]
    /\ count' = 0
    /\ jobs' = Append(pending, Job("read", NoRow, "menu"))

(* A screen that shows no products.                                        *)
ShowOther(s, pending) ==
    /\ screen' = s
    /\ list' = <<>>
    /\ count' = 0
    /\ jobs' = pending
    /\ UNCHANGED vendor

OpenMenu ==
    /\ screen \in {"menu", "cart", "paid"} /\ MayGo
    /\ ShowMenu(vendor, Left)
    /\ UNCHANGED table

OpenCart ==
    /\ screen = "menu" /\ MayGo
    /\ ShowOther("cart", Append(Left, Job("read", NoRow, "cart")))
    /\ UNCHANGED table

(* An order was paid: the success screen clears the cart.                  *)
OrderPaid ==
    /\ screen = "cart" /\ DOMAIN list # {} /\ MayGo
    /\ ShowOther("paid", Append(Left, Job("clear", NoRow, "none")))
    /\ UNCHANGED table

(* mutant: the cart is not cleared *)
ChangeLocationKept ==
    /\ screen = "menu" /\ MayGo
    /\ ShowOther("vendors", Left)
    /\ UNCHANGED table

(* The customer taps the location on the home screen, or logs out.         *)
ChangeLocation ==
    /\ screen = "menu" /\ MayGo
    /\ ShowOther("vendors", Append(Left, Job("clear", NoRow, "none")))
    /\ UNCHANGED table

(* The session expired: log in again, choose a vendor again.               *)
SessionExpired ==
    /\ Expires
    /\ screen \in {"menu", "cart"} /\ MayGo
    /\ ShowOther("vendors", Left)
    /\ UNCHANGED table

PickVendor(v) ==
    /\ screen = "vendors" /\ MayGo
    /\ ShowMenu(v, Left)
    /\ UNCHANGED table

(* The app is killed and started again: what was queued never happens.     *)
Restart ==
    /\ Kills
    /\ IF screen = "vendors" THEN ShowOther("vendors", <<>>)
                             ELSE ShowMenu(vendor, <<>>)
    /\ UNCHANGED table

-----------------------------------------------------------------------------
(* The database runs the first operation.                                  *)

Runs(op) == jobs # <<>> /\ jobs[1].op = op

(* Issue todo after all that is queued already.                            *)
Then(todo) == jobs' = Tail(jobs) \o todo

Find ==
    /\ Runs("find")
    /\ LET job   == jobs[1]
           found == \E r \in Stored(job.row.product) : r.vendor = job.row.vendor
       IN  Then(<<[job EXCEPT !.op = IF found THEN "update" ELSE "all"]>>)
    /\ UNCHANGED <<table, screen, vendor, list, count>>

(* One insertion of getSpecificCartProduct; the listing first clears the   *)
(* table for a row of another vendor than the product added.               *)
InsertOf(row, job) ==
    [job EXCEPT !.row = row,
                !.op = IF job.from = "menu" /\ row.vendor # job.row.vendor
                         THEN "evict" ELSE "insert"]

(* Not found: issue the insertion of every row read and then of the new    *)
(* one, none awaited.  The cart screen does not refresh itself after it.   *)
All ==
    /\ Runs("all")
    /\ \E rows \in SetToSeqs(table) :
         LET job  == jobs[1]
             puts == [i \in 1..(Len(rows) + 1) |->
                        InsertOf(IF i <= Len(rows) THEN rows[i] ELSE job.row, job)]
         IN  Then(puts \o IF job.from = "menu"
                            THEN <<[Refresh("menu") EXCEPT !.live = job.live]>>
                            ELSE <<>>)
    /\ UNCHANGED <<table, screen, vendor, list, count>>

Insert ==
    /\ Runs("insert")
    /\ table' = Inserted(jobs[1].row)
    /\ Then(<<>>)
    /\ UNCHANGED <<screen, vendor, list, count>>

(* clearAllCartProduct, the insertion being next in the queue.             *)
Evict ==
    /\ Runs("evict")
    /\ table' = {}
    /\ jobs' = [jobs EXCEPT ![1].op = "insert"]
    /\ UNCHANGED <<screen, vendor, list, count>>

(* mutant: nothing is refreshed after the awaited update *)
UpdateUncounted ==
    /\ Runs("update")
    /\ table' = Updated(jobs[1].row)
    /\ Then(<<>>)
    /\ UNCHANGED <<screen, vendor, list, count>>

(* A found row is updated and the screen refreshed after it.               *)
Update ==
    /\ Runs("update")
    /\ table' = Updated(jobs[1].row)
    /\ Then(IF jobs[1].from = "none" THEN <<>>
            ELSE <<[Refresh(jobs[1].from) EXCEPT !.live = jobs[1].live]>>)
    /\ UNCHANGED <<screen, vendor, list, count>>

Delete ==
    /\ Runs("delete")
    /\ table' = Deleted(jobs[1].row)
    /\ Then(<<>>)
    /\ UNCHANGED <<screen, vendor, list, count>>

Clear ==
    /\ Runs("clear")
    /\ table' = {}
    /\ Then(<<>>)
    /\ UNCHANGED <<screen, vendor, list, count>>

(* getCartData on the cart screen: the list is the table.                  *)
ReadCart ==
    /\ Runs("read") /\ jobs[1].from = "cart"
    /\ list' = IF jobs[1].live
                 THEN [p \in {r.product : r \in table} |-> StoredQty(p)]
                 ELSE list
    /\ Then(<<>>)
    /\ UNCHANGED <<table, screen, vendor, count>>

(* getCartData and updateQuantity on the others: products that are not in  *)
(* the table keep the quantity they show.                                  *)
ReadMenu ==
    /\ Runs("read") /\ jobs[1].from = "menu"
    /\ list' = IF jobs[1].live
                 THEN [p \in DOMAIN list |->
                         IF Stored(p) = {} THEN list[p] ELSE StoredQty(p)]
                 ELSE list
    /\ Then(<<[jobs[1] EXCEPT !.op = "count"]>>)
    /\ UNCHANGED <<table, screen, vendor, count>>

(* getCartItemCountDB *)
Count ==
    /\ Runs("count")
    /\ count' = IF jobs[1].live THEN Total ELSE count
    /\ Then(<<>>)
    /\ UNCHANGED <<table, screen, vendor, list>>

-----------------------------------------------------------------------------
Taps ==
    \/ \E p \in Products :
         \/ MenuPlus(p) \/ MenuMinus(p)
         \/ DetailPlus(p) \/ DetailMinus(p)
         \/ CartPlus(p) \/ CartMinus(p) \/ CartRemove(p)
    \/ ClearCart

Moves ==
    \/ OpenMenu \/ OpenCart \/ OrderPaid
    \/ ChangeLocation \/ SessionExpired
    \/ \E v \in Vendors : PickVendor(v)
    \/ Restart

Operations ==
    \/ Find \/ All \/ Insert \/ Evict \/ Update \/ Delete \/ Clear
    \/ ReadCart \/ ReadMenu \/ Count

Next == Taps \/ Moves \/ Operations

Spec == Init /\ [][Next]_vars

-----------------------------------------------------------------------------
(* Properties.                                                             *)

(* One row per product, whose quantity is at least one, and the queue and  *)
(* the screen hold what they may.                                          *)
TypeOK ==
    /\ table \subseteq Rows
    /\ \A r \in table : Stored(r.product) = {r}
    /\ jobs \in Seq(Jobs)
    /\ screen \in Screens
    /\ vendor \in Vendors
    /\ DOMAIN list \subseteq Products
    /\ \A p \in DOMAIN list : list[p] \in Nat
    /\ count \in Nat

(* However fast the customer taps and wherever they go meanwhile, no row,  *)
(* no queued write and no screen holds more of a product than its limit    *)
(* allows (the listing allows one more, menuScreen.dart:439), and a        *)
(* two-for-one product is always held in pairs.  No row has quantity zero. *)
AllowedQty(p) == {q \in 0..Most(p) : p \in Bogo => q % 2 = 0}
QuantitiesAllowed ==
    /\ \A r \in table : r.qty \in AllowedQty(r.product) \ {0}
    /\ \A p \in DOMAIN list : list[p] \in AllowedQty(p)

(* The menu's badge is right as soon as nothing is queued, however fast    *)
(* the customer tapped: every chain of operations ends with a count.       *)
CountIsShown == (screen = "menu" /\ jobs = <<>>) => count = Total

(* What getSpecificCartProduct tells the customer (menuScreen.dart:1266):  *)
(* "Removed items from cart and added latest item because you can only     *)
(* order from one restaurant at once."                                     *)
OneVendor == \A r, s \in table : VendorOf[r.product] = VendorOf[s.product]

(* Once the queue is empty the screen shows the stored quantity of every   *)
(* product that is not tapped in a hurry, however hurriedly the others     *)
(* are: the cart screen of the rows, a listing of its vendor's products.   *)
ShownIsStored ==
    jobs = <<>> =>
        \A p \in Products \ HurriedTaps :
            /\ screen = "cart" => /\ p \in DOMAIN list <=> Stored(p) # {}
                                  /\ p \in DOMAIN list => list[p] = StoredQty(p)
            /\ screen = "menu" /\ p \in DOMAIN list => list[p] = StoredQty(p)
=============================================================================
