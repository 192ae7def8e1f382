-------------------------------- MODULE AddOns --------------------------------
(***************************************************************************)
(* The product screen (ProductDetailScreen): which add-ons a product is    *)
(* ordered with, and which of them its row of the cart is charged for.     *)
(*                                                                         *)
(* The screen offers addOnList, decoded from the addOn of the product it   *)
(* was opened with.  That is the menu's whole list when it was opened from *)
(* the menu, and the row's chosen part of it when it was opened from the   *)
(* cart.  Loading then reads the cart and the menu category and, twice or  *)
(* three times over, preselects add-ons and appends what other rows have.  *)
(* A plus saves what is selected, a minus saves addOn as it stands.        *)
(*                                                                         *)
(* The options of a list are numbered in the order they are listed, so the *)
(* first of them is the smallest.  Two-for-one products, vendors and the   *)
(* badge are left to CartTable.                                            *)
(***************************************************************************)
EXTENDS Naturals, Sequences, FiniteSets

CONSTANTS
    Products,   \* ids, in the order rows are read
    MenuOf,     \* the menu category of a product
    Listing,    \* the products of a menu category as getProductsAccToCategory lists them
    Offers,     \* the add-on categories of a product
    Limit,      \* qtyLimit
    Hurried,    \* products whose customer taps and leaves while operations are queued
    Careful,    \* products whose customer opens them only while nothing of their
                \* menu category is in the cart, and taps minus only while what
                \* it saves is stored
    MaxJobs,    \* bound: the customer acts when fewer operations are queued
    MaxVisits,  \* bound: how often the screen is opened
    MaxGroups   \* bound: the customer acts with at most so many categories shown

Menus == {MenuOf[p] : p \in Products}
Types == {"single", "multiple"}

ASSUME AddOnsAssumption ==
    /\ Products \subseteq Nat \ {0}
    /\ \A m \in Menus :
        Listing[m] \in Seq({p \in Products : MenuOf[p] = m})
    /\ Offers \in [Products -> Seq([type: Types, options: SUBSET (Nat \ {0})])]
    /\ Limit \in Nat /\ MaxJobs \in Nat /\ MaxVisits \in Nat /\ MaxGroups \in Nat

ASSUME CustomerAssumption ==
    Hurried \subseteq Products /\ Careful \subseteq Products \ Hurried

VARIABLES
    rows,       \* the cart's table: quantity and add-ons of each product
    jobs,       \* the database operations issued and not yet run
    open,       \* the product shown, or None
    data,       \* widget.data: its quantity and addOn
    groups,     \* addOnList: the categories offered, with what is selected
    details,    \* addOnDetails
    inCart,     \* cartDBList, the rows as last read
    menuItems,  \* the products of the menu category, once read
    due,        \* the menu items updateQuantity's loop has still to look at
    visits      \* how often the screen was opened

screen == <<data, groups, details, inCart, menuItems>>
vars == <<rows, jobs, open, screen, due, visits>>

None == 0
NoRow == [qty |-> 0, addOns |-> <<>>]
NoRows == [p \in Products |-> NoRow]

OptionsIn(m) ==
    UNION {UNION {Offers[p][i].options : i \in DOMAIN Offers[p]} : p \in {q \in Products : MenuOf[q] = m}}

AddOnLists(m) == Seq([type: Types, options: SUBSET OptionsIn(m)])
RowsFor(p) == [qty: Nat, addOns: AddOnLists(MenuOf[p])]

Job(op, what) == [op |-> op, what |-> what, live |-> TRUE]
One(p, row) == [q \in {p} |-> row]
Nothing == [q \in {} |-> NoRow]
Stored(p) == rows[p].qty > 0

Init ==
    /\ rows = NoRows
    /\ jobs = <<>>
    /\ open = None
    /\ data = NoRow
    /\ groups = <<>> /\ details = {} /\ inCart = NoRows /\ menuItems = <<>>
    /\ due = <<>>
    /\ visits = 0

-----------------------------------------------------------------------------
(* AddOnCategory and the JSON made of it.  What is selected is not written *)
(* to JSON: only the options are.                                          *)

First(options) == CHOOSE o \in options : \A x \in options : o <= x

Decoded(list) ==
    [i \in 1..Len(list) |->
        [type |-> list[i].type, options |-> list[i].options, marked |-> {}, chosen |-> None]]

(* jsonEncode(addOnList) *)
Whole(gs) == [i \in 1..Len(gs) |-> [type |-> gs[i].type, options |-> gs[i].options]]

(* mutant: a radio button that keeps what it was before *)
SelectedAll(g) == IF g.type = "multiple" THEN g.marked ELSE g.options

Selected(g) == IF g.type = "multiple" THEN g.marked ELSE g.options \cap {g.chosen}

(* addOnCategories, as a plus saves them *)
Selection(gs) == [i \in 1..Len(gs) |-> [type |-> gs[i].type, options |-> Selected(gs[i])]]

-----------------------------------------------------------------------------
(* The customer.                                                           *)

Idle == due = <<>>
MayTap ==
    /\ open # None /\ Idle
    /\ IF open \in Hurried THEN Len(jobs) < MaxJobs ELSE jobs = <<>>
    /\ Len(groups) <= MaxGroups

(* initState and initializeDatabase *)
Show(p, d) ==
    /\ visits < MaxVisits
    /\ visits' = visits + 1
    /\ open' = p
    /\ data' = d
    /\ groups' = Decoded(d.addOns)
    /\ jobs' = <<Job("cart", Nothing), Job("categories", Nothing)>>
    /\ UNCHANGED <<rows, details, inCart, menuItems, due>>

OpenFromMenu(p) ==
    /\ open = None /\ jobs = <<>>
    /\ p \in Careful => \A q \in Products : MenuOf[q] = MenuOf[p] => ~Stored(q)
    /\ Show(p, [qty |-> rows[p].qty, addOns |-> Offers[p]])

(* The cart opens the screen for a row with add-ons, to change it there.   *)
OpenFromCart(p) ==
    /\ open = None /\ jobs = <<>>
    /\ p \notin Careful /\ Stored(p) /\ rows[p].addOns # <<>>
    /\ Show(p, rows[p])

(* Every way back opens the menu anew; what the State awaits finds it      *)
(* disposed of, the operations it issued are still run.                    *)
Leave ==
    /\ open # None /\ Idle
    /\ open \notin Hurried => jobs = <<>>
    /\ open' = None
    /\ data' = NoRow
    /\ groups' = <<>> /\ details' = {} /\ inCart' = NoRows /\ menuItems' = <<>>
    /\ jobs' = [i \in 1..Len(jobs) |-> [jobs[i] EXCEPT !.live = FALSE]]
    /\ UNCHANGED <<rows, due, visits>>

Marked(g, o) == [g EXCEPT !.marked = (@ \ {o}) \union ({o} \ @)]
Picked(g, o) == [g EXCEPT !.chosen = o]

(* A check box or a radio button: addOn becomes the whole list.            *)
Choose(i, o) ==
    /\ MayTap
    /\ o \in groups[i].options
    /\ groups' = [groups EXCEPT ![i] = IF @.type = "multiple" THEN Marked(@, o) ELSE Picked(@, o)]
    /\ data' = [data EXCEPT !.addOns = Whole(groups)]
    /\ UNCHANGED <<rows, jobs, open, details, inCart, menuItems, due, visits>>

(* mutant: the limit is compared as the menu does *)
PlusBeyond ==
    /\ MayTap
    /\ data.qty <= Limit
    /\ data' = [qty |-> data.qty + 1, addOns |-> Selection(groups)]
    /\ jobs' = Append(jobs, Job("find", One(open, data')))
    /\ UNCHANGED <<rows, open, groups, details, inCart, menuItems, due, visits>>

(* The plus of the product screen *)
Plus ==
    /\ MayTap
    /\ data.qty < Limit
    /\ data' = [qty |-> data.qty + 1, addOns |-> Selection(groups)]
    /\ jobs' = Append(jobs, Job("find", One(open, data')))
    /\ UNCHANGED <<rows, open, groups, details, inCart, menuItems, due, visits>>

Minus ==
    /\ MayTap
    /\ open \in Careful => data.addOns = rows[open].addOns
    /\ data.qty > 0
    /\ data' = [data EXCEPT !.qty = @ - 1]
    /\ jobs' = Append(jobs, Job(IF data.qty = 1 THEN "delete" ELSE "update", One(open, data')))
    /\ UNCHANGED <<rows, open, groups, details, inCart, menuItems, due, visits>>

-----------------------------------------------------------------------------
(* getCartData: the add-ons of the last row, whatever product it is, say   *)
(* what is preselected.                                                    *)

InCart(cart) == {p \in Products : cart[p].qty > 0}

CartAddOns(cart) ==
    IF InCart(cart) = {} THEN <<>>
    ELSE cart[CHOOSE p \in InCart(cart) : \A q \in InCart(cart) : q <= p].addOns

(* `.first` of an empty list throws.  The first loop collects the options  *)
(* of the row's multiple-choice categories until then.                     *)
Throws(c) == c.type = "single" /\ c.options = {}
Collected(list) ==
    UNION {list[j].options : j \in {k \in DOMAIN list :
        list[k].type = "multiple" /\ \A n \in 1..k : ~Throws(list[n])}}

(* How many of the row's categories the second loop gets through.          *)
Usable(list) ==
    CHOOSE n \in 0..Len(list) :
        /\ \A k \in 1..n : list[k].options # {}
        /\ n < Len(list) => list[n + 1].options = {}

(* Every radio group gets the first option of the last category of that    *)
(* row, or of the first category on the screen.                            *)
Preselected(g, gs, list) ==
    LET first == IF list = <<>> THEN gs[1].options
                 ELSE IF Usable(list) = 0 THEN {} ELSE list[Usable(list)].options
    IN  IF first = {} THEN g ELSE Picked(g, First(first))

RadioThrows(gs, list) ==
    IF list = <<>> THEN gs[1].options = {} ELSE Usable(list) < Len(list)

(* "If no matches found or cart list is empty, select the first add-on"    *)
Premarked(g, list, known) ==
    LET matches == IF list = <<>> THEN {} ELSE g.options \cap known
    IN  IF g.options = {} THEN g
        ELSE [g EXCEPT !.marked = IF matches = {} THEN {First(g.options)} ELSE matches]

(* The radio group that throws is the last one the loop gets to.           *)
Reached(gs, list) ==
    {i \in DOMAIN gs : RadioThrows(gs, list) => \A k \in 1..(i - 1) : gs[k].type = "multiple"}

Configured(gs, list, known) ==
    [i \in 1..Len(gs) |->
        IF i \notin Reached(gs, list) THEN gs[i]
        ELSE IF gs[i].type = "multiple" THEN Premarked(gs[i], list, known)
        ELSE Preselected(gs[i], gs, list)]

CutShort(gs, list) ==
    \/ \E j \in DOMAIN list : Throws(list[j])
    \/ \E i \in DOMAIN gs : gs[i].type = "single" /\ RadioThrows(gs, list)

-----------------------------------------------------------------------------
(* The operations, and what awaits them.                                   *)

AtHead(op) == jobs # <<>> /\ Idle /\ Head(jobs).op = op
Runs(op) == AtHead(op) /\ jobs' = Tail(jobs)
Then(op, more) == AtHead(op) /\ jobs' = Tail(jobs) \o more
Live == jobs # <<>> /\ Head(jobs).live

Dropped(op) ==
    /\ ~Live /\ Runs(op)
    /\ UNCHANGED <<rows, open, screen, due, visits>>

(* mutant: the menu's products whatever their category *)
LookedAtAll(items) == IF items = <<>> THEN <<>> ELSE [i \in 1..Cardinality(Products) |-> i]

(* updateQuantity begins to look at the menu's products *)
LookedAt(items) == items

(* cartDBList is only replaced by a list with something in it.             *)
GetCartData ==
    /\ Live /\ Runs("cart")
    /\ inCart' = IF InCart(rows) = {} THEN inCart ELSE rows
    /\ LET list  == CartAddOns(inCart')
           threw == \E j \in DOMAIN list : Throws(list[j])
       IN  /\ details' = details \union Collected(list)
           /\ groups' = IF threw THEN groups ELSE Configured(groups, list, details')
           /\ due' = IF CutShort(groups, list) THEN <<>> ELSE LookedAt(menuItems)
    /\ UNCHANGED <<rows, open, data, menuItems, visits>>

(* The categories are stored; without them the menu is fetched first.      *)
GetCategoryDataDB ==
    /\ Live /\ Then("categories", <<Job("products", Nothing)>>)
    /\ UNCHANGED <<rows, open, screen, due, visits>>

(* The cart is read again, and updateQuantity does not wait for it.        *)
GetProductDataDB ==
    /\ Live
    /\ Then("products", <<Job("cart", Nothing)>>)
    /\ menuItems' = Listing[MenuOf[open]]
    /\ due' = LookedAt(menuItems')
    /\ UNCHANGED <<rows, open, data, groups, details, inCart, visits>>

(* The products of the category are not stored.                            *)
NoProducts ==
    /\ Live /\ Runs("products")
    /\ menuItems' = <<>>
    /\ UNCHANGED <<rows, open, data, groups, details, inCart, due, visits>>

(* What is appended for a product of the menu: what its row has, if any.   *)
Appended(p) == IF p \in InCart(inCart) THEN Decoded(inCart[p].addOns) ELSE <<>>

(* One round of updateQuantity's loop; nothing else runs meanwhile.        *)
UpdateQuantity ==
    /\ due # <<>>
    /\ due' = Tail(due)
    /\ groups' = groups \o Appended(Head(due))
    /\ UNCHANGED <<rows, jobs, open, data, details, inCart, menuItems, visits>>

(* getSpecificCartProduct *)
Product == CHOOSE p \in DOMAIN Head(jobs).what : TRUE

Find ==
    /\ jobs # <<>>
    /\ Then("find", <<[Head(jobs) EXCEPT !.op = IF Stored(Product) THEN "update" ELSE "all"]>>)
    /\ UNCHANGED <<rows, open, screen, due, visits>>

(* All the rows read are inserted again, and the new one last; not if the  *)
(* screen was left.                                                        *)
All ==
    /\ Live
    /\ LET found == InCart(rows) \union {Product}
       IN  Then("all", <<Job("insert", [p \in found |->
               IF p = Product THEN Head(jobs).what[p] ELSE rows[p]])>>)
    /\ UNCHANGED <<rows, open, screen, due, visits>>

Insert ==
    /\ Runs("insert")
    /\ rows' = [p \in Products |-> IF p \in DOMAIN Head(jobs).what THEN Head(jobs).what[p] ELSE rows[p]]
    /\ UNCHANGED <<open, screen, due, visits>>

Update ==
    /\ Runs("update")
    /\ rows' = [rows EXCEPT ![Product] = IF Stored(Product) THEN Head(jobs).what[Product] ELSE @]
    /\ UNCHANGED <<open, screen, due, visits>>

Delete ==
    /\ Runs("delete")
    /\ rows' = [rows EXCEPT ![Product] = NoRow]
    /\ UNCHANGED <<open, screen, due, visits>>

-----------------------------------------------------------------------------
Customer ==
    \/ \E p \in Products : OpenFromMenu(p) \/ OpenFromCart(p)
    \/ \E i \in DOMAIN groups : \E o \in groups[i].options : Choose(i, o)
    \/ Plus
    \/ Minus
    \/ Leave

Database ==
    \/ GetCartData
    \/ GetCategoryDataDB
    \/ GetProductDataDB
    \/ NoProducts
    \/ UpdateQuantity
    \/ Find
    \/ All
    \/ Insert
    \/ Update
    \/ Delete
    \/ \E op \in {"cart", "categories", "products", "all"} : Dropped(op)

Next == Customer \/ Database

Spec == Init /\ [][Next]_vars

-----------------------------------------------------------------------------
(* Properties.                                                             *)

Groups == [type: Types, options: SUBSET Nat, marked: SUBSET Nat, chosen: Nat]

(* Every variable has its type; an option is only marked where it is       *)
(* offered, and there is no more to look at than the menu has.             *)
TypeOK ==
    /\ rows \in [Products -> [qty: 0..Limit, addOns: Seq([type: Types, options: SUBSET Nat])]]
    /\ open \in Products \union {None}
    /\ data.qty \in 0..Limit
    /\ groups \in Seq(Groups)
    /\ \A i \in DOMAIN groups : groups[i].marked \subseteq groups[i].options
    /\ details \subseteq Nat
    /\ \A i \in DOMAIN due : due[i] \in Products

(* Of whatever row the preselection was taken, and whatever rows were      *)
(* appended to the screen, a row of the cart is never charged for an       *)
(* add-on that no product of its own menu category offers.                 *)
MenuAddOns == \A p \in Products : rows[p] \in RowsFor(p)

(* A product that was opened while nothing of its menu category was in the *)
(* cart, by a customer who waited for the screen to load, is charged for   *)
(* no add-on twice and, where the screen says "Select any 1 add on", for   *)
(* at most one: whatever row of another category the preselection is taken *)
(* from (product_detail_screen.dart:1784-1838), and whatever is done       *)
(* afterwards to the products beside it.  It is not so for a product whose *)
(* neighbour, or which itself, is in the cart when it is opened: the row's *)
(* add-ons are appended to its own (:1908-1920) and saved with them.       *)
ChargedOnce ==
    \A p \in Careful :
        LET list == rows[p].addOns
        IN  /\ \A i, j \in DOMAIN list : i # j => list[i].options \cap list[j].options = {}
            /\ \A i \in DOMAIN list : list[i].type = "single" => Cardinality(list[i].options) <= 1
===============================================================================
