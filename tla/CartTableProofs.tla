--------------------------- MODULE CartTableProofs ---------------------------
(***************************************************************************)
(* Theorems about CartTable for any products, vendors and limit.           *)
(* QuantitiesAllowed and TypeOK hold with customers who tap and change     *)
(* screens at any moment, and an app that is killed; CountIsShown when no  *)
(* screen is left while operations are queued, OneVendor when, besides, no *)
(* session expires and the app is not killed.                              *)
(*                                                                         *)
(* A quantity travels: from a screen into a queued operation, from there   *)
(* to the table, from the table into another queued operation (the rows    *)
(* getSpecificCartProduct reads and inserts again) or back to a screen.    *)
(* QInv bounds it in every place it may be.                                *)
(***************************************************************************)
EXTENDS CartTable, FiniteSetTheorems, SequenceTheorems,
        WellFoundedInduction, TLAPS

GoodRows == {r \in Rows : r.qty \in AllowedQty(r.product) \ {0}}

(* Operations that may bring their row into the table carry a good row.    *)
GoodJobs == {j \in Jobs :
               j.op \in {"find", "all", "insert", "evict", "update"}
                 => j.row \in GoodRows}

QInv ==
    /\ table \subseteq GoodRows
    /\ IsFiniteSet(table)
    /\ jobs \in Seq(GoodJobs)
    /\ vendor \in Vendors
    /\ DOMAIN list \subseteq Products
    /\ list = [p \in DOMAIN list |-> list[p]]
    /\ \A p \in DOMAIN list : list[p] \in AllowedQty(p)

-----------------------------------------------------------------------------
(* The quantity a tap asks for is allowed: one step up from below the      *)
(* limit (one above it on the listing), or one step down.                  *)
LEMMA Steps ==
    ASSUME CartAssumption, NEW p \in Products, NEW q \in AllowedQty(p)
    PROVE  /\ p \notin Bogo /\ q <= Limit => q + 1 \in AllowedQty(p)
           /\ p \notin Bogo /\ q > 0 => q - 1 \in AllowedQty(p)
           /\ p \in Bogo /\ q < 2 * Limit => q + 2 \in AllowedQty(p)
           /\ p \in Bogo /\ q > 0 => q - 2 \in AllowedQty(p)
           /\ 0 \in AllowedQty(p)
           /\ AllowedQty(p) \subseteq Nat
BY DEF CartAssumption, AllowedQty, Most

(* What the four operator families that queue a row may queue.             *)
LEMMA Queues ==
    ASSUME NEW row \in Rows, row.qty \in AllowedQty(row.product)
    PROVE  /\ row.qty # 0 => AddOnMenu(row) \in Seq(GoodJobs)
           /\ row.qty # 0 => AddOnCart(row) \in Seq(GoodJobs)
           /\ DropOnMenu(row) \in Seq(GoodJobs)
           /\ DropOnCart(row) \in Seq(GoodJobs)
<1>1. \A from \in {"menu", "cart"} : Refresh(from) \in GoodJobs
  BY DEF Refresh, Job, Jobs, Ops, GoodJobs
<1>2. row.qty # 0 => /\ Job("find", row, "menu") \in GoodJobs
                     /\ Job("find", row, "cart") \in GoodJobs
                     /\ Job("update", row, "none") \in GoodJobs
  BY DEF Job, Jobs, Ops, GoodJobs, GoodRows
<1>3. Job("delete", row, "none") \in GoodJobs
  BY DEF Job, Jobs, Ops, GoodJobs
<1>4. QED
  BY <1>1, <1>2, <1>3 DEF AddOnMenu, AddOnCart, DropOnMenu, DropOnCart

(* What a tap does: an allowed quantity on the screen, and one of the four *)
(* families of operations with that quantity in the queue.                 *)
TapsTo(p, q) ==
    /\ p \in DOMAIN list /\ q \in AllowedQty(p) /\ MayTap(p)
    /\ list' = [list EXCEPT ![p] = q]
    /\ \/ screen = "menu" /\ q # 0 /\ jobs' = jobs \o AddOnMenu(Row(p, q))
       \/ screen = "menu" /\ list[p] # 0 /\ jobs' = jobs \o DropOnMenu(Row(p, q))
       \/ screen = "cart" /\ q # 0 /\ jobs' = jobs \o AddOnCart(Row(p, q))
       \/ screen = "cart" /\ jobs' = jobs \o DropOnCart(Row(p, q))

LEMMA RowOf ==
    ASSUME CartAssumption, QInv, NEW p \in DOMAIN list, NEW q \in AllowedQty(p)
    PROVE  /\ p \in Products /\ q \in Nat
           /\ Row(p, q) \in Rows
           /\ Row(p, q).product = p /\ Row(p, q).qty = q /\ Row(p, q).vendor = vendor
BY DEF Row, Rows, QInv, AllowedQty

LEMMA TapQueues ==
    ASSUME CartAssumption, QInv, Taps
    PROVE  /\ UNCHANGED <<table, screen, vendor, count>>
           /\ ClearCart \/ \E p \in Products : \E q \in Nat : TapsTo(p, q)
<1>1. UNCHANGED <<table, screen, vendor, count>>
  BY DEF Taps, MenuPlus, MenuMinus, DetailPlus, DetailMinus,
         CartPlus, CartMinus, CartRemove, ClearCart, Tap
<1>2. ASSUME NEW p \in Products, NEW q \in AllowedQty(p), NEW todo, Tap(p, q, todo),
             p \in DOMAIN list,
             \/ screen = "menu" /\ q # 0 /\ todo = AddOnMenu(Row(p, q))
             \/ screen = "menu" /\ list[p] # 0 /\ todo = DropOnMenu(Row(p, q))
             \/ screen = "cart" /\ q # 0 /\ todo = AddOnCart(Row(p, q))
             \/ screen = "cart" /\ todo = DropOnCart(Row(p, q))
      PROVE  \E r \in Nat : TapsTo(p, r)
  <2>1. q \in Nat
    BY <1>2 DEF AllowedQty
  <2>2. TapsTo(p, q)
    BY <1>2 DEF TapsTo, Tap
  <2>3. QED
    BY <2>1, <2>2
<1>3. \A p \in DOMAIN list : list[p] \in AllowedQty(p) /\ list[p] \in Nat
  BY DEF QInv, AllowedQty
<1>4. ASSUME NEW p \in Products, NEW step, step = IF p \in Bogo THEN 2 ELSE 1,
             p \in DOMAIN list
      PROVE  /\ list[p] < step * Limit =>
                  list[p] + step \in AllowedQty(p) /\ list[p] + step # 0
             /\ list[p] > 0 => list[p] - step \in AllowedQty(p)
  <2>1. list[p] \in AllowedQty(p) /\ list[p] \in Nat
    BY <1>3, <1>4
  <2>2. CASE p \in Bogo
    BY <2>1, <2>2, <1>4, Steps DEF CartAssumption
  <2>3. CASE p \notin Bogo
    BY <2>1, <2>3, <1>4, Steps DEF CartAssumption
  <2>4. QED
    BY <2>2, <2>3
<1>5. ASSUME NEW p \in Products, MenuPlus(p) PROVE \E q \in Nat : TapsTo(p, q)
  <2>1. /\ screen = "menu" /\ p \in DOMAIN list /\ p \notin Bogo /\ list[p] <= Limit
        /\ Tap(p, list[p] + 1, AddOnMenu(Row(p, list[p] + 1)))
    BY <1>5 DEF MenuPlus
  <2>2. list[p] + 1 \in AllowedQty(p) /\ list[p] + 1 # 0
    BY <2>1, <1>3, Steps
  <2>3. QED
    BY <2>1, <2>2, <1>2
<1>6. ASSUME NEW p \in Products, MenuMinus(p) PROVE \E q \in Nat : TapsTo(p, q)
  <2>1. /\ screen = "menu" /\ p \in DOMAIN list /\ p \notin Bogo /\ list[p] > 0
        /\ Tap(p, list[p] - 1, DropOnMenu(Row(p, list[p] - 1)))
    BY <1>6 DEF MenuMinus
  <2>2. list[p] - 1 \in AllowedQty(p) /\ list[p] # 0
    BY <2>1, <1>3, Steps
  <2>3. QED
    BY <2>1, <2>2, <1>2
<1>7. ASSUME NEW p \in Products, DetailPlus(p) PROVE \E q \in Nat : TapsTo(p, q)
  <2> DEFINE step == IF p \in Bogo THEN 2 ELSE 1
  <2>1. /\ screen = "menu" /\ p \in DOMAIN list /\ list[p] < step * Limit
        /\ Tap(p, list[p] + step, AddOnMenu(Row(p, list[p] + step)))
    BY <1>7 DEF DetailPlus
  <2>2. list[p] + step \in AllowedQty(p) /\ list[p] + step # 0
    BY <2>1, <1>4
  <2> HIDE DEF step
  <2>3. QED
    BY <2>1, <2>2, <1>2
<1>8. ASSUME NEW p \in Products, DetailMinus(p) PROVE \E q \in Nat : TapsTo(p, q)
  <2> DEFINE step == IF p \in Bogo THEN 2 ELSE 1
  <2>1. /\ screen = "menu" /\ p \in DOMAIN list /\ list[p] > 0
        /\ Tap(p, list[p] - step, DropOnMenu(Row(p, list[p] - step)))
    BY <1>8 DEF DetailMinus
  <2>2. list[p] - step \in AllowedQty(p) /\ list[p] # 0
    BY <2>1, <1>3, <1>4
  <2> HIDE DEF step
  <2>3. QED
    BY <2>1, <2>2, <1>2
<1>9. ASSUME NEW p \in Products, CartPlus(p) PROVE \E q \in Nat : TapsTo(p, q)
  <2> DEFINE step == IF p \in Bogo THEN 2 ELSE 1
  <2>1. /\ screen = "cart" /\ p \in DOMAIN list /\ list[p] < step * Limit
        /\ Tap(p, list[p] + step, AddOnCart(Row(p, list[p] + step)))
    BY <1>9 DEF CartPlus
  <2>2. list[p] + step \in AllowedQty(p) /\ list[p] + step # 0
    BY <2>1, <1>4
  <2> HIDE DEF step
  <2>3. QED
    BY <2>1, <2>2, <1>2
<1>10. ASSUME NEW p \in Products, CartMinus(p) PROVE \E q \in Nat : TapsTo(p, q)
  <2> DEFINE step == IF p \in Bogo THEN 2 ELSE 1
  <2>1. /\ screen = "cart" /\ p \in DOMAIN list /\ list[p] >= step
        /\ Tap(p, list[p] - step, DropOnCart(Row(p, list[p] - step)))
    BY <1>10 DEF CartMinus
  <2>2. list[p] > 0
    BY <2>1, <1>3
  <2>3. list[p] - step \in AllowedQty(p)
    BY <2>1, <2>2, <1>4
  <2> HIDE DEF step
  <2>4. QED
    BY <2>1, <2>3, <1>2
<1>11. ASSUME NEW p \in Products, CartRemove(p) PROVE \E q \in Nat : TapsTo(p, q)
  <2>1. /\ screen = "cart" /\ p \in DOMAIN list
        /\ Tap(p, 0, DropOnCart(Row(p, 0)))
    BY <1>11 DEF CartRemove
  <2>2. 0 \in AllowedQty(p)
    BY <2>1, <1>3, Steps
  <2>3. QED
    BY <2>1, <2>2, <1>2
<1>12. QED
  BY <1>1, <1>5, <1>6, <1>7, <1>8, <1>9, <1>10, <1>11 DEF Taps

(* So any tap keeps QInv.                                                  *)
LEMMA TapsKeep ==
    ASSUME CartAssumption, QInv, Taps
    PROVE  QInv'
<1>1. UNCHANGED <<table, vendor>>
  BY TapQueues
<1>2. CASE ClearCart
  <2>1. Job("clear", NoRow, "none") \in GoodJobs /\ Refresh("cart") \in GoodJobs
    BY DEF Job, Jobs, Ops, GoodJobs, Refresh
  <2>2. QED
    BY <1>2, <2>1 DEF ClearCart, QInv
<1>3. ASSUME NEW p, NEW q, TapsTo(p, q) PROVE QInv'
  <2>1. /\ p \in DOMAIN list /\ q \in AllowedQty(p)
        /\ list' = [list EXCEPT ![p] = q]
    BY <1>3 DEF TapsTo
  <2>2. /\ Row(p, q) \in Rows /\ Row(p, q).qty \in AllowedQty(Row(p, q).product)
        /\ Row(p, q).qty = q
    BY <2>1, RowOf
  <2>3. PICK todo \in Seq(GoodJobs) : jobs' = jobs \o todo
    BY <1>3, <2>2, Queues DEF TapsTo
  <2>4. jobs' \in Seq(GoodJobs)
    BY <2>3, ConcatProperties DEF QInv
  <2>5. /\ DOMAIN list' = DOMAIN list
        /\ list' = [x \in DOMAIN list' |-> list'[x]]
        /\ \A x \in DOMAIN list' : list'[x] \in AllowedQty(x)
    BY <2>1 DEF QInv
  <2>6. QED
    BY <1>1, <2>4, <2>5 DEF QInv
<1>4. QED
  BY <1>2, <1>3, TapQueues

-----------------------------------------------------------------------------
(* Changing screens keeps the queue's rows and starts the quantities anew. *)
LEMMA JobChanges ==
    ASSUME NEW j \in GoodJobs
    PROVE  /\ \A b \in BOOLEAN : [j EXCEPT !.live = b] \in GoodJobs
           /\ [j EXCEPT !.op = "count"] \in GoodJobs
           /\ j.op = "find" => /\ [j EXCEPT !.op = "update"] \in GoodJobs
                              /\ [j EXCEPT !.op = "all"] \in GoodJobs
           /\ <<j>> \in Seq(GoodJobs)
BY DEF GoodJobs, Jobs, Ops

LEMMA LeftGood ==
    ASSUME jobs \in Seq(GoodJobs)
    PROVE  Left \in Seq(GoodJobs)
<1>1. ASSUME NEW i \in DOMAIN jobs
      PROVE  [jobs[i] EXCEPT !.live = FALSE] \in GoodJobs
  <2>1. jobs[i] \in GoodJobs
    OBVIOUS
  <2>2. QED
    BY <2>1, JobChanges
<1>2. QED
  BY <1>1 DEF Left

LEMMA ShowMenuStep ==
    ASSUME CartAssumption, QInv, NEW v \in Vendors,
           NEW pending \in Seq(GoodJobs), ShowMenu(v, pending), UNCHANGED table
    PROVE  QInv'
<1>1. Job("read", NoRow, "menu") \in GoodJobs
  BY DEF Job, Jobs, Ops, GoodJobs
<1>2. jobs' \in Seq(GoodJobs)
  BY <1>1 DEF ShowMenu
<1>3. /\ DOMAIN list' \subseteq Products
      /\ list' = [p \in DOMAIN list' |-> list'[p]]
      /\ \A p \in DOMAIN list' : list'[p] = 0
  BY DEF ShowMenu
<1>4. \A p \in DOMAIN list' : 0 \in AllowedQty(p)
  BY <1>3 DEF CartAssumption, AllowedQty, Most
<1>5. QED
  BY <1>2, <1>3, <1>4 DEF QInv, ShowMenu

LEMMA ShowOtherStep ==
    ASSUME QInv, NEW s, NEW pending \in Seq(GoodJobs),
           ShowOther(s, pending), UNCHANGED table
    PROVE  QInv'
<1>1. list' = << >> /\ DOMAIN list' = {}
  BY DEF ShowOther
<1>2. list' = [p \in DOMAIN list' |-> list'[p]]
  BY <1>1
<1>3. QED
  BY <1>1, <1>2 DEF QInv, ShowOther

LEMMA MovesKeep ==
    ASSUME CartAssumption, QInv, Moves
    PROVE  QInv'
<1>1. Left \in Seq(GoodJobs) /\ << >> \in Seq(GoodJobs)
  BY LeftGood DEF QInv
<1>2. /\ Job("clear", NoRow, "none") \in GoodJobs
      /\ Job("read", NoRow, "cart") \in GoodJobs
  BY DEF Job, Jobs, Ops, GoodJobs
<1>3. /\ Append(Left, Job("clear", NoRow, "none")) \in Seq(GoodJobs)
      /\ Append(Left, Job("read", NoRow, "cart")) \in Seq(GoodJobs)
  BY <1>1, <1>2
<1>4. CASE OpenMenu
  BY <1>1, <1>4, ShowMenuStep DEF OpenMenu, QInv
<1>5. CASE OpenCart
  BY <1>3, <1>5, ShowOtherStep DEF OpenCart
<1>6. CASE OrderPaid
  BY <1>3, <1>6, ShowOtherStep DEF OrderPaid
<1>7. CASE ChangeLocation
  BY <1>3, <1>7, ShowOtherStep DEF ChangeLocation
<1>8. CASE SessionExpired
  BY <1>1, <1>8, ShowOtherStep DEF SessionExpired
<1>9. CASE \E v \in Vendors : PickVendor(v)
  BY <1>1, <1>9, ShowMenuStep DEF PickVendor
<1>10. CASE Restart
  BY <1>1, <1>10, ShowMenuStep, ShowOtherStep DEF Restart, QInv
<1>11. QED
  BY <1>4, <1>5, <1>6, <1>7, <1>8, <1>9, <1>10 DEF Moves

-----------------------------------------------------------------------------
(* What a statement leaves in the table is finite and good.                *)
LEMMA Statements ==
    ASSUME table \subseteq GoodRows, IsFiniteSet(table), NEW row
    PROVE  /\ row \in GoodRows => Inserted(row) \subseteq GoodRows
           /\ IsFiniteSet(Inserted(row))
           /\ row \in GoodRows => Updated(row) \subseteq GoodRows
           /\ IsFiniteSet(Updated(row))
           /\ Deleted(row) \subseteq GoodRows
           /\ IsFiniteSet(Deleted(row))
<1>1. IsFiniteSet(table \ Stored(row.product))
  BY FS_Subset
<1>2. IsFiniteSet((table \ Stored(row.product)) \union {row})
  BY <1>1, FS_AddElement
<1>3. QED
  BY <1>1, <1>2 DEF Inserted, Updated, Deleted

(* A stored quantity shown again is an allowed one.                        *)
LEMMA StoredAllowed ==
    ASSUME table \subseteq GoodRows, NEW p, Stored(p) # {}
    PROVE  StoredQty(p) \in AllowedQty(p)
BY DEF StoredQty, Stored, GoodRows

(* The head of the queue, and what continues after it.                     *)
LEMMA HeadGood ==
    ASSUME jobs \in Seq(GoodJobs), jobs # << >>
    PROVE  jobs[1] \in GoodJobs /\ Tail(jobs) \in Seq(GoodJobs)
OBVIOUS

(* What "all" queues: insertions of the rows read, the new row's the last, *)
(* and on the menu a count.                                                *)
Puts == {InsertOf(r, jobs[1]) : r \in table \union {jobs[1].row}}
CountAfter(job) == IF job.from = "menu"
                     THEN <<[Refresh("menu") EXCEPT !.live = job.live]>> ELSE << >>

LEMMA AllQueues ==
    ASSUME QInv, All
    PROVE  \E puts \in Seq(Puts) :
             /\ puts # << >>
             /\ puts[Len(puts)] = InsertOf(jobs[1].row, jobs[1])
             /\ Then(puts \o CountAfter(jobs[1]))
<1> DEFINE Of(rows) == [i \in 1..(Len(rows) + 1) |->
                          InsertOf(IF i <= Len(rows) THEN rows[i] ELSE jobs[1].row, jobs[1])]
<1>1. PICK rows \in SetToSeqs(table) : Then(Of(rows) \o CountAfter(jobs[1]))
  BY DEF All, CountAfter
<1>2. rows \in [1..Cardinality(table) -> table] /\ Cardinality(table) \in Nat
  BY <1>1, FS_CardinalityType DEF SetToSeqs, QInv
<1>3. rows \in Seq(table) /\ Len(rows) \in Nat
  BY <1>2
<1>4. \A i \in 1..(Len(rows) + 1) :
        (IF i <= Len(rows) THEN rows[i] ELSE jobs[1].row) \in table \union {jobs[1].row}
  BY <1>3
<1>5. \A i \in 1..(Len(rows) + 1) : Of(rows)[i] \in Puts
  BY <1>4 DEF Puts
<1>6. Of(rows) \in Seq(Puts) /\ Len(Of(rows)) = Len(rows) + 1
  BY <1>3, <1>5
<1>7. Of(rows) # << >> /\ Of(rows)[Len(rows) + 1] = InsertOf(jobs[1].row, jobs[1])
  BY <1>3, <1>6
<1>8. QED
  BY <1>1, <1>6, <1>7

LEMMA OperationsKeep ==
    ASSUME CartAssumption, QInv, Operations
    PROVE  QInv'
<1>1. jobs # << >>
  BY DEF Operations, Find, All, Insert, Evict, Update, Delete, Clear,
         ReadCart, ReadMenu, Count, Runs
<1>2. jobs[1] \in GoodJobs /\ Tail(jobs) \in Seq(GoodJobs)
  BY <1>1, HeadGood DEF QInv
<1>3. ASSUME NEW todo \in Seq(GoodJobs), Then(todo)
      PROVE  jobs' \in Seq(GoodJobs)
  BY <1>2, <1>3 DEF Then
<1>3a. ASSUME NEW j \in GoodJobs, Then(<<j>>)
      PROVE  jobs' \in Seq(GoodJobs)
  BY <1>3, <1>3a, JobChanges
<1>4. << >> \in Seq(GoodJobs)
  OBVIOUS
<1>5. CASE Find
  <2>1. PICK found \in BOOLEAN :
          Then(<<[jobs[1] EXCEPT !.op = IF found THEN "update" ELSE "all"]>>)
    BY <1>5 DEF Find
  <2>a. jobs[1].op = "find"
    BY <1>5 DEF Find, Runs
  <2>b. [jobs[1] EXCEPT !.op = IF found THEN "update" ELSE "all"] \in GoodJobs
    <3>1. CASE found
      BY <3>1, <2>a, <1>2, JobChanges
    <3>2. CASE ~found
      BY <3>2, <2>a, <1>2, JobChanges
    <3>3. QED
      BY <3>1, <3>2
  <2>2. jobs' \in Seq(GoodJobs)
    BY <2>1, <2>b, <1>3a
  <2>3. QED
    BY <2>2, <1>5 DEF Find, QInv
<1>6. CASE All
  <2> DEFINE job == jobs[1]
  <2>1. job.row \in GoodRows /\ job \in GoodJobs
    BY <1>2, <1>6 DEF All, Runs, GoodJobs
  <2>2. \A row \in GoodRows : InsertOf(row, job) \in GoodJobs
    BY <2>1 DEF InsertOf, GoodJobs, GoodRows, Jobs, Ops
  <2>3. Puts \subseteq GoodJobs
    BY <2>1, <2>2 DEF Puts, QInv
  <2>4. [Refresh("menu") EXCEPT !.live = job.live] \in GoodJobs
    BY <2>1 DEF Refresh, Job, GoodJobs, Jobs, Ops
  <2>5. CountAfter(job) \in Seq(GoodJobs)
    BY <2>4, JobChanges DEF CountAfter
  <2>6. PICK puts \in Seq(Puts) : Then(puts \o CountAfter(job))
    BY <1>6, AllQueues
  <2>7. puts \in Seq(GoodJobs)
    BY <2>3, <2>6
  <2>8. puts \o CountAfter(job) \in Seq(GoodJobs)
    BY <2>5, <2>7, ConcatProperties
  <2>9. jobs' \in Seq(GoodJobs)
    BY <2>6, <2>8, <1>3
  <2>10. QED
    BY <2>9, <1>6 DEF All, QInv
<1>7. CASE Insert
  <2>1. jobs[1].row \in GoodRows
    BY <1>2, <1>7 DEF Insert, Runs, GoodJobs
  <2>2. table' \subseteq GoodRows /\ IsFiniteSet(table')
    BY <2>1, <1>7, Statements DEF Insert, QInv
  <2>3. QED
    BY <2>2, <1>3, <1>4, <1>7 DEF Insert, QInv
<1>8. CASE Evict
  <2>1. [jobs[1] EXCEPT !.op = "insert"] \in GoodJobs
    BY <1>2, <1>8 DEF Evict, Runs, GoodJobs, Jobs, Ops
  <2>2. jobs' \in Seq(GoodJobs)
    BY <2>1, <1>1, <1>8 DEF Evict, QInv
  <2>3. table' = {} /\ IsFiniteSet(table')
    BY <1>8, FS_EmptySet DEF Evict
  <2>4. QED
    BY <2>2, <2>3, <1>8 DEF Evict, QInv
<1>9. CASE Update
  <2>1. jobs[1].row \in GoodRows
    BY <1>2, <1>9 DEF Update, Runs, GoodJobs
  <2>2. table' \subseteq GoodRows /\ IsFiniteSet(table')
    BY <2>1, <1>9, Statements DEF Update, QInv
  <2>3. jobs[1].from # "none" =>
          [Refresh(jobs[1].from) EXCEPT !.live = jobs[1].live] \in GoodJobs
    BY <1>2 DEF Refresh, Job, GoodJobs, Jobs, Ops
  <2>4. jobs' \in Seq(GoodJobs)
    <3>1. CASE jobs[1].from = "none"
      BY <3>1, <1>3, <1>4, <1>9 DEF Update
    <3>2. CASE jobs[1].from # "none"
      <4>1. Then(<<[Refresh(jobs[1].from) EXCEPT !.live = jobs[1].live]>>)
        BY <3>2, <1>9 DEF Update
      <4>2. QED
        BY <4>1, <3>2, <2>3, <1>3a
    <3>3. QED
      BY <3>1, <3>2
  <2>5. QED
    BY <2>2, <2>4, <1>9 DEF Update, QInv
<1>10. CASE Delete
  <2>1. table' \subseteq GoodRows /\ IsFiniteSet(table')
    BY <1>10, Statements DEF Delete, QInv
  <2>2. QED
    BY <2>1, <1>3, <1>4, <1>10 DEF Delete, QInv
<1>11. CASE Clear
  <2>1. table' = {} /\ IsFiniteSet(table')
    BY <1>11, FS_EmptySet DEF Clear
  <2>2. QED
    BY <2>1, <1>3, <1>4, <1>11 DEF Clear, QInv
<1>12. CASE ReadCart
  <2>1. CASE jobs[1].live
    <3>1. list' = [p \in {r.product : r \in table} |-> StoredQty(p)]
      BY <1>12, <2>1 DEF ReadCart
    <3>2. \A p \in {r.product : r \in table} : p \in Products /\ Stored(p) # {}
      BY DEF QInv, GoodRows, Rows, Stored
    <3>3. \A p \in DOMAIN list' : p \in Products /\ list'[p] \in AllowedQty(p)
      BY <3>1, <3>2, StoredAllowed DEF QInv
    <3>4. QED
      BY <3>1, <3>3, <1>3, <1>4, <1>12 DEF ReadCart, QInv
  <2>2. CASE ~jobs[1].live
    BY <2>2, <1>3, <1>4, <1>12 DEF ReadCart, QInv
  <2>3. QED
    BY <2>1, <2>2
<1>13. CASE ReadMenu
  <2>1. [jobs[1] EXCEPT !.op = "count"] \in GoodJobs
    BY <1>2 DEF GoodJobs, Jobs, Ops
  <2>2. jobs' \in Seq(GoodJobs)
    BY <2>1, <1>3a, <1>13 DEF ReadMenu
  <2>3. CASE jobs[1].live
    <3>1. list' = [p \in DOMAIN list |->
                     IF Stored(p) = {} THEN list[p] ELSE StoredQty(p)]
      BY <1>13, <2>3 DEF ReadMenu
    <3>2. \A p \in DOMAIN list' : p \in Products /\ list'[p] \in AllowedQty(p)
      BY <3>1, StoredAllowed DEF QInv
    <3>3. QED
      BY <3>1, <3>2, <2>2, <1>13 DEF ReadMenu, QInv
  <2>4. CASE ~jobs[1].live
    BY <2>4, <2>2, <1>13 DEF ReadMenu, QInv
  <2>5. QED
    BY <2>3, <2>4
<1>14. CASE Count
  BY <1>3, <1>4, <1>14 DEF Count, QInv
<1>15. QED
  BY <1>5, <1>6, <1>7, <1>8, <1>9, <1>10, <1>11, <1>12, <1>13, <1>14 DEF Operations

-----------------------------------------------------------------------------
(* QInv holds in every state: what the other proofs about the cart rest on.*)
LEMMA QuantitiesBounded == Spec => []QInv
<1>1. Init => QInv
  <2> SUFFICES ASSUME Init PROVE QInv
    OBVIOUS
  <2>1. Job("read", NoRow, "menu") \in GoodJobs
    BY DEF Job, Jobs, Ops, GoodJobs
  <2>2. jobs \in Seq(GoodJobs)
    BY <2>1 DEF Init
  <2>3. table = {} /\ IsFiniteSet(table)
    BY FS_EmptySet DEF Init
  <2>4. /\ DOMAIN list \subseteq Products
        /\ list = [p \in DOMAIN list |-> list[p]]
        /\ \A p \in DOMAIN list : list[p] = 0
    BY DEF Init
  <2>5. \A p \in DOMAIN list : 0 \in AllowedQty(p)
    BY <2>4, CartAssumption DEF CartAssumption, AllowedQty, Most
  <2>6. QED
    BY <2>2, <2>3, <2>4, <2>5 DEF Init, QInv
<1>2. QInv /\ [Next]_vars => QInv'
  <2> SUFFICES ASSUME QInv, [Next]_vars PROVE QInv'
    OBVIOUS
  <2>1. CASE Taps
    BY <2>1, CartAssumption, TapsKeep
  <2>2. CASE Moves
    BY <2>2, CartAssumption, MovesKeep
  <2>3. CASE Operations
    BY <2>3, CartAssumption, OperationsKeep
  <2>4. CASE UNCHANGED vars
    BY <2>4 DEF QInv, vars
  <2>5. QED
    BY <2>1, <2>2, <2>3, <2>4 DEF Next
<1>3. QED
  BY <1>1, <1>2, PTL DEF Spec

(* QuantitiesAllowed: no row, no screen ever holds more of a product than  *)
(* its limit allows, and two-for-one products come in pairs, whatever the  *)
(* order of taps and database operations.                                  *)
THEOREM QuantitiesKept == Spec => []QuantitiesAllowed
<1>1. QInv => QuantitiesAllowed
  BY DEF QInv, QuantitiesAllowed, GoodRows
<1>2. QED
  BY <1>1, QuantitiesBounded, PTL

-----------------------------------------------------------------------------
(* The badge counts with a fold over the rows (getCartItemCountDB adds the *)
(* quantities up).  Its recursion is shown to have a solution, and every   *)
(* solution to be a natural number, from the least size of a set of rows   *)
(* for which that would fail.                                              *)
Pick(s) == CHOOSE r \in s : TRUE
SumOf(iter, s) == IF s = {} THEN 0 ELSE Pick(s).qty + iter[s \ {Pick(s)}]

LEMMA Least ==
    ASSUME NEW T \in SUBSET Nat, T # {}
    PROVE  \E n \in T : \A m \in T : n <= m
<1>1. PICK n \in T : \A m \in T : <<m, n>> \notin OpToRel(<, Nat)
  BY NatLessThanWellFounded, WFMin
<1>2. \A m \in T : ~(m < n)
  BY <1>1 DEF OpToRel
<1>3. QED
  BY <1>2

LEMMA Picked ==
    ASSUME NEW s, s # {}, IsFiniteSet(s)
    PROVE  /\ Pick(s) \in s
           /\ IsFiniteSet(s \ {Pick(s)})
           /\ Cardinality(s) \in Nat
           /\ Cardinality(s \ {Pick(s)}) \in Nat
           /\ Cardinality(s \ {Pick(s)}) = Cardinality(s) - 1
<1>1. Pick(s) \in s
  BY DEF Pick
<1>2. QED
  BY <1>1, FS_RemoveElement, FS_CardinalityType

LEMMA SumExists ==
    ASSUME NEW S, IsFiniteSet(S), \A r \in S : r.qty \in Nat
    PROVE  \E iter : iter = [s \in SUBSET S |-> SumOf(iter, s)]
<1> DEFINE Level(n) == {s \in SUBSET S : Cardinality(s) <= n}
           Good(n)  == \E f : f = [s \in Level(n) |-> SumOf(f, s)]
           Bad      == {n \in Nat : ~Good(n)}
<1>0. \A s \in SUBSET S : IsFiniteSet(s) /\ Cardinality(s) \in Nat
  BY FS_Subset, FS_CardinalityType
<1>1. Bad = {}
  <2> SUFFICES ASSUME Bad # {} PROVE FALSE
    OBVIOUS
  <2>1. PICK n \in Bad : \A m \in Bad : n <= m
    <3> HIDE DEF Bad
    <3>1. Bad \in SUBSET Nat
      BY DEF Bad
    <3>2. QED
      BY <3>1, Least
  <2>2. CASE n = 0
    <3> DEFINE f == [s \in Level(n) |-> 0]
    <3>1. \A s \in Level(n) : s = {}
      BY <2>2, <1>0, FS_EmptySet
    <3>2. \A s \in Level(n) : SumOf(f, s) = 0
      BY <3>1 DEF SumOf
    <3>3. f = [s \in Level(n) |-> SumOf(f, s)]
      BY <3>2
    <3>4. Good(n)
      BY <3>3
    <3>5. QED
      BY <3>4
  <2>3. CASE n # 0
    <3>1. n - 1 \in Nat /\ n - 1 \notin Bad
      BY <2>1, <2>3
    <3>2. PICK g : g = [s \in Level(n - 1) |-> SumOf(g, s)]
      BY <3>1
    <3> DEFINE f == [s \in Level(n) |-> SumOf(g, s)]
    <3>3. \A s \in Level(n - 1) : s \in Level(n) /\ f[s] = g[s]
      BY <3>2, <1>0
    <3>4. ASSUME NEW s \in Level(n), s # {} PROVE s \ {Pick(s)} \in Level(n - 1)
      BY <3>4, <1>0, Picked
    <3>5. \A s \in Level(n) : SumOf(g, s) = SumOf(f, s)
      BY <3>3, <3>4 DEF SumOf
    <3>6. f = [s \in Level(n) |-> SumOf(f, s)]
      BY <3>5
    <3>7. Good(n)
      BY <3>6
    <3>8. QED
      BY <3>7
  <2>4. QED
    BY <2>2, <2>3
<1>2. Cardinality(S) \in Nat /\ Level(Cardinality(S)) = SUBSET S
  BY FS_Subset, FS_CardinalityType
<1>3. Good(Cardinality(S))
  BY <1>1, <1>2
<1> HIDE DEF Level
<1>4. QED
  BY <1>2, <1>3

LEMMA SumNatural ==
    ASSUME NEW S, IsFiniteSet(S), \A r \in S : r.qty \in Nat,
           NEW iter, iter = [s \in SUBSET S |-> SumOf(iter, s)]
    PROVE  iter[S] \in Nat
<1> DEFINE Bad   == {s \in SUBSET S : iter[s] \notin Nat}
           Sizes == {Cardinality(s) : s \in Bad}
<1>0. \A s \in SUBSET S : IsFiniteSet(s) /\ Cardinality(s) \in Nat
  BY FS_Subset, FS_CardinalityType
<1>1. Bad = {}
  <2> SUFFICES ASSUME Bad # {} PROVE FALSE
    OBVIOUS
  <2>1. Sizes \in SUBSET Nat /\ Sizes # {}
    BY <1>0
  <2>2. PICK n \in Sizes : \A m \in Sizes : n <= m
    <3> HIDE DEF Sizes
    <3> QED BY <2>1, Least
  <2>3. PICK s \in Bad : Cardinality(s) = n
    BY <2>2
  <2>4. iter[s] = SumOf(iter, s)
    OBVIOUS
  <2>5. CASE s = {}
    BY <2>3, <2>4, <2>5 DEF SumOf
  <2>6. CASE s # {}
    <3>1. /\ Pick(s) \in s /\ Cardinality(s) \in Nat
          /\ Cardinality(s \ {Pick(s)}) = Cardinality(s) - 1
      BY <2>6, <1>0, Picked
    <3>2. s \ {Pick(s)} \in SUBSET S /\ s \ {Pick(s)} \notin Bad
      BY <3>1, <2>2, <2>3
    <3>3. iter[s \ {Pick(s)}] \in Nat /\ Pick(s).qty \in Nat
      BY <3>1, <3>2
    <3>4. iter[s] \in Nat
      BY <3>3, <2>4, <2>6 DEF SumOf
    <3>5. QED
      BY <3>4
  <2>7. QED
    BY <2>5, <2>6
<1>2. QED
  BY <1>1

LEMMA TotalNatural ==
    ASSUME IsFiniteSet(table), table \subseteq GoodRows
    PROVE  Total \in Nat
<1>1. \A r \in table : r.qty \in Nat
  BY DEF GoodRows, Rows
<1> DEFINE sum == CHOOSE iter : iter = [s \in SUBSET table |-> SumOf(iter, s)]
<1>2. sum = [s \in SUBSET table |-> SumOf(sum, s)]
  BY <1>1, SumExists
<1>3. Total = sum[table]
  BY DEF Total, MapThenSumSet, MapThenFoldSet, SumOf, Pick
<1> HIDE DEF sum
<1>4. QED
  BY <1>1, <1>2, <1>3, SumNatural

-----------------------------------------------------------------------------
(* TypeOK: one row per product, whose key is the product, however the      *)
(* insertions, updates and removals of several chains of operations        *)
(* interleave; and everything of its type, the badge's sum included.       *)
OneRowEach == \A r \in table : Stored(r.product) = {r}

LEMMA StatementsKeepKeys ==
    ASSUME table \subseteq Rows, OneRowEach, NEW row \in Rows,
           \/ table' = Inserted(row)
           \/ table' = Updated(row)
           \/ table' = Deleted(row)
    PROVE  OneRowEach'
<1>1. CASE table' = (table \ Stored(row.product)) \union {row}
  BY <1>1 DEF OneRowEach, Stored
<1>2. CASE table' = table
  BY <1>2 DEF OneRowEach, Stored
<1>3. CASE table' = table \ Stored(row.product)
  BY <1>3 DEF OneRowEach, Stored
<1>4. QED
  BY <1>1, <1>2, <1>3 DEF Inserted, Updated, Deleted

THEOREM TypeCorrect == Spec => []TypeOK
<1> DEFINE Rest == screen \in Screens /\ OneRowEach /\ count \in Nat
<1>1. Init => Rest
  BY DEF Init, Screens, OneRowEach
<1>2. QInv /\ Rest /\ [Next]_vars => Rest'
  <2> SUFFICES ASSUME QInv, Rest, [Next]_vars PROVE Rest'
    OBVIOUS
  <2>0. /\ screen \in Screens /\ OneRowEach /\ count \in Nat
        /\ table \subseteq Rows
    BY DEF QInv, GoodRows
  <2> HIDE DEF Rest
  <2>1. CASE UNCHANGED <<table, screen, count>>
    BY <2>0, <2>1 DEF Rest, OneRowEach, Stored
  <2>2. CASE UNCHANGED table /\ screen' \in Screens /\ count' = 0
    BY <2>0, <2>2 DEF Rest, OneRowEach, Stored
  <2>3. CASE Taps
    BY <2>3, <2>1 DEF Taps, MenuPlus, MenuMinus, DetailPlus, DetailMinus,
                      CartPlus, CartMinus, CartRemove, ClearCart, Tap
  <2>4. CASE Moves
    BY <2>4, <2>2 DEF Moves, OpenMenu, OpenCart, OrderPaid, ChangeLocation,
                      SessionExpired, PickVendor, Restart, ShowMenu, ShowOther, Screens
  <2>5. CASE Operations
    <3>0. jobs # << >> /\ jobs[1] \in GoodJobs
      BY <2>5, HeadGood DEF QInv, Operations, Find, All, Insert, Evict, Update,
         Delete, Clear, ReadCart, ReadMenu, Count, Runs
    <3>1. CASE Find \/ All \/ ReadCart \/ ReadMenu
      BY <3>1, <2>1 DEF Find, All, ReadCart, ReadMenu
    <3>2. CASE Insert \/ Update
      <4>1. jobs[1].row \in Rows
        BY <3>0, <3>2 DEF GoodJobs, GoodRows, Insert, Update, Runs
      <4>2. /\ table' = Inserted(jobs[1].row) \/ table' = Updated(jobs[1].row)
            /\ UNCHANGED <<screen, count>>
        BY <3>2 DEF Insert, Update
      <4>3. OneRowEach'
        BY <4>1, <4>2, <2>0, StatementsKeepKeys
      <4>4. QED
        BY <4>2, <4>3, <2>0 DEF Rest
    <3>3. CASE Delete
      <4>1. table' = Deleted(jobs[1].row) /\ UNCHANGED <<screen, count>>
        BY <3>3 DEF Delete
      <4>2. OneRowEach'
        BY <4>1, <2>0 DEF Deleted, OneRowEach, Stored
      <4>3. QED
        BY <4>1, <4>2, <2>0 DEF Rest
    <3>4. CASE Clear \/ Evict
      BY <3>4, <2>0 DEF Clear, Evict, Rest, OneRowEach
    <3>5. CASE Count
      <4>1. Total \in Nat
        BY TotalNatural DEF QInv
      <4>2. count' \in Nat /\ UNCHANGED <<screen, table>>
        BY <4>1, <3>5, <2>0 DEF Count
      <4>3. QED
        BY <4>2, <2>0 DEF Rest, OneRowEach, Stored
    <3>6. QED
      BY <2>5, <3>1, <3>2, <3>3, <3>4, <3>5 DEF Operations
  <2>6. CASE UNCHANGED vars
    BY <2>6, <2>1 DEF vars
  <2>7. QED
    BY <2>3, <2>4, <2>5, <2>6 DEF Next
<1>3. QInv /\ Rest => TypeOK
  <2> SUFFICES ASSUME QInv, Rest PROVE TypeOK
    OBVIOUS
  <2>1. table \subseteq Rows
    BY DEF QInv, GoodRows
  <2>2. jobs \in Seq(Jobs)
    BY DEF QInv, GoodJobs
  <2>3. \A p \in DOMAIN list : list[p] \in Nat
    BY DEF QInv, AllowedQty
  <2>4. QED
    BY <2>1, <2>2, <2>3 DEF QInv, TypeOK, OneRowEach
<1> HIDE DEF Rest
<1>4. QED
  BY <1>1, <1>2, <1>3, QuantitiesBounded, PTL DEF Spec

-----------------------------------------------------------------------------
(* CountIsShown.  On the menu the last operation queued is always one that *)
(* counts or leads to one that does: counting after it is what every chain *)
(* of operations ends with, and no screen is left while one is queued.     *)
MenuJobs == {j \in Jobs : /\ j.live /\ j.from # "cart"
                          /\ j.op \in {"find", "all"} => j.from = "menu"}
Counting(j) ==
    j.op = "count" \/ (j.op \in {"read", "find", "all", "update"} /\ j.from = "menu")
Ends(q) == q # << >> /\ Counting(q[Len(q)])

CountInv ==
    screen = "menu" =>
      /\ jobs \in Seq(MenuJobs)
      /\ jobs = << >> => count = Total
      /\ jobs # << >> => Ends(jobs)

(* Taking the head off a queue.                                            *)
LEMMA Tails ==
    ASSUME NEW S, NEW q \in Seq(S), q # << >>
    PROVE  /\ Len(q) \in Nat \ {0}
           /\ q[1] \in S
           /\ Tail(q) \in Seq(S)
           /\ Len(Tail(q)) = Len(q) - 1
           /\ \A i \in 1..(Len(q) - 1) : Tail(q)[i] = q[i + 1]
           /\ Tail(q) = << >> <=> Len(q) = 1
           /\ Tail(q) \o << >> = Tail(q)
<1>1. /\ Len(q) \in Nat \ {0} /\ q[1] \in S /\ Tail(q) \in Seq(S)
      /\ Len(Tail(q)) = Len(q) - 1
      /\ \A i \in 1..(Len(q) - 1) : Tail(q)[i] = q[i + 1]
  OBVIOUS
<1>2. Tail(q) = << >> <=> Len(Tail(q)) = 0
  BY <1>1, EmptySeq
<1>3. Tail(q) \o << >> = Tail(q)
  BY <1>1
<1>4. QED
  BY <1>1, <1>2, <1>3

LEMMA EndsWith ==
    ASSUME NEW S, NEW q \in Seq(S), NEW r \in Seq(S), Ends(r)
    PROVE  Ends(q \o r)
<1>1. /\ Len(q) \in Nat /\ Len(r) \in Nat \ {0}
      /\ Len(q \o r) = Len(q) + Len(r)
      /\ (q \o r)[Len(q) + Len(r)] = r[Len(r)]
  BY DEF Ends
<1>2. q \o r # << >>
  BY <1>1
<1>3. QED
  BY <1>1, <1>2 DEF Ends

LEMMA EndsAfterTap ==
    ASSUME NEW row \in Rows
    PROVE  /\ AddOnMenu(row) \in Seq(MenuJobs) /\ Ends(AddOnMenu(row))
           /\ DropOnMenu(row) \in Seq(MenuJobs) /\ Ends(DropOnMenu(row))
<1>1. /\ Job("find", row, "menu") \in MenuJobs
      /\ Job("delete", row, "none") \in MenuJobs
      /\ Job("update", row, "none") \in MenuJobs
      /\ Refresh("menu") \in MenuJobs /\ Counting(Refresh("menu"))
  BY DEF Job, Jobs, Ops, MenuJobs, Refresh, Counting
<1>2. QED
  BY <1>1 DEF AddOnMenu, DropOnMenu, Ends

(* An operation that queues nothing is not the last one, unless it counts. *)
LEMMA EndsAfterOperation ==
    ASSUME jobs \in Seq(MenuJobs), Ends(jobs), NEW todo \in Seq(MenuJobs),
           Then(todo),
           todo = << >> => ~Counting(jobs[1]),
           todo # << >> => Ends(todo)
    PROVE  jobs' \in Seq(MenuJobs) /\ Ends(jobs')
<1>1. jobs # << >> /\ Tail(jobs) \in Seq(MenuJobs)
  BY DEF Ends
<1>2. CASE todo = << >>
  <2>1. jobs' = Tail(jobs)
    BY <1>1, <1>2 DEF Then
  <2>2. Len(jobs) # 1
    BY <1>2 DEF Ends
  <2>3. Len(jobs) \in Nat /\ Len(jobs) > 1
    BY <1>1, <2>2
  <2>4. /\ Len(Tail(jobs)) = Len(jobs) - 1
        /\ Tail(jobs)[Len(jobs) - 1] = jobs[Len(jobs)]
    BY <1>1, <2>3
  <2>5. Tail(jobs) # << >>
    BY <2>3, <2>4
  <2>6. Counting(Tail(jobs)[Len(Tail(jobs))])
    BY <2>4 DEF Ends
  <2>7. Ends(Tail(jobs))
    BY <2>5, <2>6 DEF Ends
  <2>8. QED
    BY <1>1, <2>1, <2>7 DEF Ends, Counting
<1>3. CASE todo # << >>
  <2>1. Ends(Tail(jobs) \o todo)
    BY <1>1, <1>3, EndsWith
  <2>2. Tail(jobs) \o todo \in Seq(MenuJobs)
    BY <1>1, ConcatProperties
  <2>3. QED
    BY <2>1, <2>2 DEF Then
<1>4. QED
  BY <1>2, <1>3

(* A tap on the menu: what it queues ends with a count.                    *)
LEMMA TapsKeepCount ==
    ASSUME CartAssumption, QInv, CountInv, Taps
    PROVE  CountInv'
<1> SUFFICES ASSUME screen' = "menu" PROVE CountInv'
  BY DEF CountInv
<1>1. screen = "menu" /\ ~ClearCart
  BY TapQueues DEF ClearCart
<1>2. jobs \in Seq(MenuJobs)
  BY <1>1 DEF CountInv
<1>3. PICK p \in Products, q \in Nat : TapsTo(p, q)
  BY <1>1, TapQueues
<1>4. Row(p, q) \in Rows
  BY <1>3, RowOf DEF TapsTo
<1>5. PICK todo \in Seq(MenuJobs) : jobs' = jobs \o todo /\ Ends(todo)
  BY <1>1, <1>3, <1>4, EndsAfterTap DEF TapsTo
<1>6. jobs' \in Seq(MenuJobs) /\ Ends(jobs')
  BY <1>2, <1>5, EndsWith
<1>7. QED
  BY <1>6 DEF CountInv, Ends

(* A menu is opened with nothing left in the queue, and reads first.       *)
LEMMA MovesKeepCount ==
    ASSUME ~HurriedScreens, Moves
    PROVE  CountInv'
<1> SUFFICES ASSUME screen' = "menu" PROVE CountInv'
  BY DEF CountInv
<1>1. jobs = << >> => Left = << >>
  BY DEF Left
<1>2. \E v \in Vendors \union {vendor} : ShowMenu(v, << >>)
  BY <1>1 DEF Moves, OpenMenu, OpenCart, OrderPaid, ChangeLocation,
              SessionExpired, PickVendor, Restart, ShowOther, MayGo
<1>3. jobs' = <<Job("read", NoRow, "menu")>>
  BY <1>2 DEF ShowMenu
<1>4. Job("read", NoRow, "menu") \in MenuJobs /\ Counting(Job("read", NoRow, "menu"))
  BY DEF Job, Jobs, Ops, MenuJobs, Counting
<1>5. jobs' \in Seq(MenuJobs) /\ Ends(jobs')
  BY <1>3, <1>4 DEF Ends
<1>6. QED
  BY <1>5 DEF CountInv, Ends

LEMMA SameTotal ==
    ASSUME UNCHANGED table
    PROVE  Total' = Total
<1> DEFINE Sum(T) == CHOOSE iter : iter = [s \in SUBSET T |-> SumOf(iter, s)]
<1>1. Total = Sum(table)[table] /\ Total' = Sum(table')[table']
  BY DEF Total, MapThenSumSet, MapThenFoldSet, SumOf, Pick
<1> HIDE DEF Sum
<1>2. QED
  BY <1>1

LEMMA OperationsKeepCount ==
    ASSUME QInv, CountInv, Operations
    PROVE  CountInv'
<1> SUFFICES ASSUME screen' = "menu" PROVE CountInv'
  BY DEF CountInv
<1> DEFINE job == jobs[1]
<1>1. jobs # << >> /\ screen = "menu"
  BY DEF Operations, Find, All, Insert, Evict, Update, Delete, Clear,
         ReadCart, ReadMenu, Count, Runs
<1>0. jobs \in Seq(MenuJobs) /\ Ends(jobs)
  BY <1>1 DEF CountInv
<1>2. job \in MenuJobs
  BY <1>0, <1>1
<1>3. ASSUME NEW j \in MenuJobs, Counting(j), Then(<<j>>) PROVE CountInv'
  <2>1. <<j>> \in Seq(MenuJobs) /\ Ends(<<j>>) /\ <<j>> # << >>
    BY <1>3 DEF Ends
  <2>2. jobs' \in Seq(MenuJobs) /\ Ends(jobs')
    BY <1>0, <1>3, <2>1, EndsAfterOperation
  <2>3. QED
    BY <2>2 DEF CountInv, Ends
<1>4. ASSUME Then(<< >>), ~Counting(job) PROVE CountInv'
  <2>1. jobs' \in Seq(MenuJobs) /\ Ends(jobs')
    <3>1. << >> \in Seq(MenuJobs)
      OBVIOUS
    <3>2. QED
      BY <1>0, <1>4, <3>1, EndsAfterOperation
  <2>2. QED
    BY <2>1 DEF CountInv, Ends
<1>5. CASE Find
  <2>1. PICK found \in BOOLEAN :
          Then(<<[job EXCEPT !.op = IF found THEN "update" ELSE "all"]>>)
    BY <1>5 DEF Find
  <2>2. job.op = "find" /\ job.from = "menu"
    BY <1>2, <1>5 DEF Find, Runs, MenuJobs
  <2>3. /\ [job EXCEPT !.op = IF found THEN "update" ELSE "all"] \in MenuJobs
        /\ Counting([job EXCEPT !.op = IF found THEN "update" ELSE "all"])
    BY <1>2, <2>2 DEF MenuJobs, Jobs, Ops, Counting
  <2>4. QED
    BY <2>1, <2>3, <1>3
<1>6. CASE All
  <2>1. job.op = "all" /\ job.from = "menu" /\ job.live
    BY <1>2, <1>6 DEF All, Runs, MenuJobs
  <2>2. job.row \in Rows /\ table \subseteq Rows
    <3>1. job \in GoodJobs
      BY <1>1, HeadGood DEF QInv
    <3>2. QED
      BY <2>1, <3>1 DEF QInv, GoodJobs, GoodRows
  <2>3. Puts \subseteq MenuJobs
    <3>1. \A r \in Rows : InsertOf(r, job) \in MenuJobs
      BY <1>2, <2>1 DEF InsertOf, MenuJobs, Jobs, Ops
    <3>2. QED
      BY <2>2, <3>1 DEF Puts
  <2>4. PICK puts \in Seq(Puts) : Then(puts \o CountAfter(job))
    BY <1>6, AllQueues
  <2>5. puts \in Seq(MenuJobs)
    BY <2>3, <2>4
  <2>6. CountAfter(job) \in Seq(MenuJobs) /\ Ends(CountAfter(job))
    <3>1. /\ [Refresh("menu") EXCEPT !.live = job.live] \in MenuJobs
          /\ Counting([Refresh("menu") EXCEPT !.live = job.live])
      BY <2>1 DEF Refresh, Job, MenuJobs, Jobs, Ops, Counting
    <3>2. QED
      BY <2>1, <3>1 DEF CountAfter, Ends
  <2>7. Ends(puts \o CountAfter(job))
    BY <2>5, <2>6, EndsWith
  <2>8. puts \o CountAfter(job) \in Seq(MenuJobs)
    BY <2>5, <2>6, ConcatProperties
  <2>9. puts \o CountAfter(job) # << >>
    BY <2>7 DEF Ends
  <2>10. QED
    BY <1>0, <2>4, <2>7, <2>8, <2>9, EndsAfterOperation DEF CountInv, Ends
<1>7. CASE Insert
  BY <1>7, <1>4 DEF Insert, Runs, Counting
<1>8. CASE Evict
  <2>1. jobs' = [jobs EXCEPT ![1].op = "insert"] /\ ~Counting(job)
    BY <1>8 DEF Evict, Runs, Counting
  <2>2. [job EXCEPT !.op = "insert"] \in MenuJobs
    BY <1>2, <1>8 DEF Evict, Runs, MenuJobs, Jobs, Ops
  <2>3. jobs' \in Seq(MenuJobs) /\ Len(jobs') = Len(jobs) /\ jobs' # << >>
    BY <1>0, <1>1, <2>1, <2>2
  <2>4. Len(jobs) # 1 /\ Len(jobs) \in Nat \ {0}
    BY <1>0, <1>1, <2>1 DEF Ends
  <2>5. jobs'[Len(jobs)] = jobs[Len(jobs)]
    BY <1>0, <2>1, <2>4
  <2>6. QED
    BY <1>0, <2>3, <2>5 DEF CountInv, Ends
<1>9. CASE Update
  <2>1. CASE job.from = "none"
    <3>1. Then(<< >>) /\ ~Counting(job)
      BY <2>1, <1>9 DEF Update, Runs, Counting
    <3>2. QED
      BY <3>1, <1>4
  <2>2. CASE job.from # "none"
    <3>1. job.from = "menu" /\ job.live
      BY <2>2, <1>2 DEF MenuJobs, Jobs
    <3>2. Then(<<[Refresh("menu") EXCEPT !.live = job.live]>>)
      BY <3>1, <1>9 DEF Update
    <3>3. /\ [Refresh("menu") EXCEPT !.live = job.live] \in MenuJobs
          /\ Counting([Refresh("menu") EXCEPT !.live = job.live])
      BY <3>1 DEF Refresh, Job, MenuJobs, Jobs, Ops, Counting
    <3>4. QED
      BY <3>2, <3>3, <1>3
  <2>3. QED
    BY <2>1, <2>2
<1>10. CASE Delete
  BY <1>10, <1>4 DEF Delete, Runs, Counting
<1>11. CASE Clear
  BY <1>11, <1>4 DEF Clear, Runs, Counting
<1>12. CASE ReadCart
  BY <1>12, <1>2 DEF ReadCart, MenuJobs
<1>13. CASE ReadMenu
  <2>1. job.from = "menu" /\ Then(<<[job EXCEPT !.op = "count"]>>)
    BY <1>13 DEF ReadMenu
  <2>2. /\ [job EXCEPT !.op = "count"] \in MenuJobs
        /\ Counting([job EXCEPT !.op = "count"])
    BY <1>2 DEF MenuJobs, Jobs, Ops, Counting
  <2>3. QED
    BY <2>1, <2>2, <1>3
<1>14. CASE Count
  <2>1. /\ count' = Total /\ UNCHANGED table /\ jobs' = Tail(jobs)
    <3>1. job.live /\ Then(<< >>)
      BY <1>14, <1>2 DEF Count, MenuJobs
    <3>2. Tail(jobs) \o << >> = Tail(jobs)
      BY <1>0, <1>1, Tails
    <3>3. QED
      BY <1>14, <3>1, <3>2 DEF Count, Then
  <2>2. Total' = Total
    BY <2>1, SameTotal
  <2>3. CASE Len(jobs) = 1
    <3>1. jobs' = << >> /\ << >> \in Seq(MenuJobs)
      BY <1>0, <1>1, <2>1, <2>3, Tails
    <3>2. QED
      BY <2>1, <2>2, <3>1 DEF CountInv
  <2>4. CASE Len(jobs) # 1
    <3>1. /\ Tail(jobs) \in Seq(MenuJobs) /\ Tail(jobs) # << >>
          /\ Len(jobs) \in Nat /\ Len(jobs) > 1
          /\ Len(Tail(jobs)) = Len(jobs) - 1
          /\ \A i \in 1..(Len(jobs) - 1) : Tail(jobs)[i] = jobs[i + 1]
      BY <1>0, <1>1, <2>4, Tails
    <3>2. Tail(jobs)[Len(Tail(jobs))] = jobs[Len(jobs)]
      BY <3>1
    <3>3. Ends(Tail(jobs))
      BY <1>0, <3>1, <3>2 DEF Ends
    <3>4. QED
      BY <2>1, <3>1, <3>3 DEF CountInv, Ends
  <2>5. QED
    BY <2>3, <2>4
<1>15. QED
  BY <1>5, <1>6, <1>7, <1>8, <1>9, <1>10, <1>11, <1>12, <1>13, <1>14 DEF Operations

(* CountIsShown: once nothing is queued, the menu's badge is the sum of    *)
(* the stored quantities, however fast the customer tapped, and if the     *)
(* session expires or the app is killed, as long as no screen is left      *)
(* while operations are queued.                                            *)
THEOREM CountKept == ~HurriedScreens => (Spec => []CountIsShown)
<1> SUFFICES ASSUME ~HurriedScreens PROVE Spec => []CountIsShown
  OBVIOUS
<1>1. Init => CountInv
  <2> SUFFICES ASSUME Init PROVE CountInv
    OBVIOUS
  <2>1. Job("read", NoRow, "menu") \in MenuJobs /\ Counting(Job("read", NoRow, "menu"))
    BY DEF Job, Jobs, Ops, MenuJobs, Counting
  <2>2. jobs \in Seq(MenuJobs) /\ Ends(jobs) /\ jobs # << >>
    BY <2>1 DEF Init, Ends
  <2>3. QED
    BY <2>2 DEF CountInv
<1>2. QInv /\ CountInv /\ [Next]_vars => CountInv'
  <2> SUFFICES ASSUME QInv, CountInv, [Next]_vars PROVE CountInv'
    OBVIOUS
  <2>1. CASE Taps
    BY <2>1, CartAssumption, TapsKeepCount
  <2>2. CASE Moves
    BY <2>2, MovesKeepCount
  <2>3. CASE Operations
    BY <2>3, OperationsKeepCount
  <2>4. CASE UNCHANGED vars
    <3>1. UNCHANGED <<screen, jobs, count>> /\ Total' = Total
      BY <2>4, SameTotal DEF vars
    <3>2. QED
      BY <3>1 DEF CountInv, Ends, Counting
  <2>5. QED
    BY <2>1, <2>2, <2>3, <2>4 DEF Next
<1>3. CountInv => CountIsShown
  BY DEF CountInv, CountIsShown
<1>4. QED
  BY <1>1, <1>2, <1>3, QuantitiesBounded, PTL DEF Spec

-----------------------------------------------------------------------------
(* OneVendor.  The table, the rows in the queue and the screen are all of  *)
(* the selected vendor; another one is selected only where the table has   *)
(* been cleared.  Then no row is ever one of another vendor's, and nothing *)
(* is evicted.                                                             *)
RowJobs  == {"find", "all", "insert", "evict", "update", "delete"}
Of(v)    == {r \in Rows : r.vendor = v /\ VendorOf[r.product] = v}
JobsOf(v) == {j \in Jobs : j.op \in RowJobs => j.row \in Of(v) /\ j.op # "evict"}

VendorInv ==
    /\ table \subseteq Of(vendor)
    /\ jobs \in Seq(JobsOf(vendor))
    /\ \A p \in DOMAIN list : VendorOf[p] = vendor
    /\ screen = "vendors" => \/ jobs = <<Job("clear", NoRow, "none")>>
                             \/ jobs = << >> /\ table = {}

(* As long as no screen is left while operations are queued, sessions do   *)
(* not expire and the app is not killed.                                   *)
Unhurried == ~HurriedScreens /\ ~Expires /\ ~Kills

LEMMA QueuesOf ==
    ASSUME NEW v, NEW row \in Of(v)
    PROVE  /\ AddOnMenu(row) \in Seq(JobsOf(v)) /\ DropOnMenu(row) \in Seq(JobsOf(v))
           /\ AddOnCart(row) \in Seq(JobsOf(v)) /\ DropOnCart(row) \in Seq(JobsOf(v))
<1>1. /\ \A op \in {"find", "update", "delete"}, from \in {"menu", "cart", "none"} :
           Job(op, row, from) \in JobsOf(v)
      /\ Refresh("menu") \in JobsOf(v) /\ Refresh("cart") \in JobsOf(v)
  BY DEF Job, Jobs, Ops, JobsOf, RowJobs, Refresh, Of
<1>2. QED
  BY <1>1 DEF AddOnMenu, DropOnMenu, AddOnCart, DropOnCart

LEMMA TapsKeepVendor ==
    ASSUME CartAssumption, QInv, VendorInv, Taps
    PROVE  VendorInv'
<1>1. UNCHANGED <<table, screen, vendor>> /\ screen # "vendors"
  BY TapQueues DEF TapsTo, ClearCart
<1>2. CASE ClearCart
  <2>1. /\ Job("clear", NoRow, "none") \in JobsOf(vendor)
        /\ Refresh("cart") \in JobsOf(vendor)
    BY DEF Job, Jobs, Ops, JobsOf, RowJobs, Refresh
  <2>2. jobs' \in Seq(JobsOf(vendor))
    BY <1>2, <2>1 DEF ClearCart, VendorInv
  <2>3. QED
    BY <1>1, <1>2, <2>2 DEF ClearCart, VendorInv, JobsOf, Of
<1>3. ASSUME NEW p, NEW q, TapsTo(p, q) PROVE VendorInv'
  <2>1. p \in DOMAIN list /\ q \in AllowedQty(p) /\ list' = [list EXCEPT ![p] = q]
    BY <1>3 DEF TapsTo
  <2>2. Row(p, q) \in Of(vendor)
    BY <2>1, RowOf DEF VendorInv, Of
  <2>3. PICK todo \in Seq(JobsOf(vendor)) : jobs' = jobs \o todo
    BY <1>3, <2>2, QueuesOf DEF TapsTo
  <2>4. jobs' \in Seq(JobsOf(vendor))
    BY <2>3, ConcatProperties DEF VendorInv
  <2>5. DOMAIN list' = DOMAIN list
    BY <2>1
  <2>6. QED
    BY <1>1, <2>4, <2>5 DEF VendorInv, JobsOf, Of
<1>4. QED
  BY <1>2, <1>3, TapQueues

LEMMA MovesKeepVendor ==
    ASSUME Unhurried, VendorInv, Moves
    PROVE  VendorInv'
<1>0. jobs = << >> /\ Left = << >> /\ UNCHANGED table
  BY DEF Unhurried, Moves, OpenMenu, OpenCart, OrderPaid, ChangeLocation,
         SessionExpired, PickVendor, Restart, MayGo, Left
<1>1. ASSUME NEW v, ShowMenu(v, << >>), table \subseteq Of(v) PROVE VendorInv'
  <2>1. Job("read", NoRow, "menu") \in JobsOf(v)
    BY DEF Job, Jobs, Ops, JobsOf, RowJobs
  <2>2. /\ jobs' \in Seq(JobsOf(v)) /\ screen' = "menu" /\ vendor' = v
        /\ \A p \in DOMAIN list' : VendorOf[p] = v
    BY <1>1, <2>1 DEF ShowMenu
  <2>3. QED
    BY <1>0, <1>1, <2>2 DEF VendorInv
<1>2. ASSUME NEW s, NEW job \in {Job("read", NoRow, "cart"), Job("clear", NoRow, "none")},
             ShowOther(s, <<job>>), s = "vendors" => job = Job("clear", NoRow, "none")
      PROVE  VendorInv'
  <2>0. /\ Job("read", NoRow, "cart") \in JobsOf(vendor)
        /\ Job("clear", NoRow, "none") \in JobsOf(vendor)
    BY DEF Job, Jobs, Ops, JobsOf, RowJobs
  <2>1. job \in JobsOf(vendor)
    BY <1>2, <2>0
  <2>2. /\ jobs' = <<job>> /\ jobs' \in Seq(JobsOf(vendor))
        /\ screen' = s /\ vendor' = vendor /\ DOMAIN list' = {}
    BY <1>2, <2>1 DEF ShowOther
  <2>3. QED
    BY <1>0, <1>2, <2>2 DEF VendorInv
<1>3. CASE OpenMenu
  BY <1>0, <1>1, <1>3 DEF OpenMenu, VendorInv
<1>4. CASE OpenCart
  <2>1. ShowOther("cart", <<Job("read", NoRow, "cart")>>)
    BY <1>0, <1>4 DEF OpenCart
  <2>2. QED
    BY <1>2, <2>1
<1>5. CASE OrderPaid
  <2>1. ShowOther("paid", <<Job("clear", NoRow, "none")>>)
    BY <1>0, <1>5 DEF OrderPaid
  <2>2. QED
    BY <1>2, <2>1
<1>6. CASE ChangeLocation
  <2>1. ShowOther("vendors", <<Job("clear", NoRow, "none")>>)
    BY <1>0, <1>6 DEF ChangeLocation
  <2>2. QED
    BY <1>2, <2>1
<1>7. CASE \E v \in Vendors : PickVendor(v)
  <2>1. table = {}
    BY <1>0, <1>7 DEF PickVendor, VendorInv
  <2>2. QED
    BY <1>0, <1>1, <1>7, <2>1 DEF PickVendor
<1>8. QED
  BY <1>3, <1>4, <1>5, <1>6, <1>7 DEF Moves, Unhurried, SessionExpired, Restart

LEMMA OperationsKeepVendor ==
    ASSUME QInv, VendorInv, Operations
    PROVE  VendorInv'
<1> DEFINE job == jobs[1]
           S   == JobsOf(vendor)
<1>1. jobs # << >> /\ UNCHANGED <<screen, vendor>>
  BY DEF Operations, Find, All, Insert, Evict, Update, Delete, Clear,
         ReadCart, ReadMenu, Count, Runs
<1>2. jobs \in Seq(S) /\ table \subseteq Of(vendor)
  BY DEF VendorInv
<1> HIDE DEF S
<1>3. job \in S /\ Tail(jobs) \in Seq(S)
  BY <1>1, <1>2, Tails
<1>4. ASSUME NEW todo \in Seq(S), Then(todo) PROVE jobs' \in Seq(S)
  BY <1>3, <1>4, ConcatProperties DEF Then
<1>5. ASSUME NEW j \in S, Then(<<j>>) PROVE jobs' \in Seq(S)
  <2>1. <<j>> \in Seq(S)
    BY <1>5
  <2>2. QED
    BY <1>4, <1>5, <2>1
<1>6. << >> \in Seq(S)
  OBVIOUS
<1>7. job.op \in RowJobs => job.row \in Of(vendor)
  BY <1>3 DEF S, JobsOf
<1>8. ASSUME NEW from \in {"menu", "cart", "none"}
      PROVE  [Refresh(from) EXCEPT !.live = job.live] \in S
  <2>1. job.live \in BOOLEAN
    BY <1>3 DEF S, JobsOf, Jobs
  <2>2. QED
    BY <2>1 DEF Refresh, Job, S, JobsOf, Jobs, Ops, RowJobs
(* The screen of the vendors: only the clearing is ever queued.            *)
<1>9. ASSUME jobs' \in Seq(S), table' \subseteq Of(vendor),
             \A p \in DOMAIN list' : VendorOf[p] = vendor,
             screen = "vendors" => Clear
      PROVE  VendorInv'
  <2>1. screen = "vendors" => jobs' = << >> /\ table' = {}
    <3>1. SUFFICES ASSUME screen = "vendors" PROVE jobs' = << >> /\ table' = {}
      OBVIOUS
    <3>2. jobs = <<Job("clear", NoRow, "none")>>
      BY <1>1, <3>1 DEF VendorInv
    <3>3. Tail(jobs) \o << >> = << >>
      BY <3>2
    <3>4. QED
      BY <3>1, <3>3, <1>9 DEF Clear, Then
  <2>2. QED
    BY <1>1, <1>9, <2>1 DEF VendorInv, S
<1>10. screen = "vendors" => job.op = "clear"
  BY <1>1 DEF VendorInv, Job
<1>11. CASE Find
  <2>1. PICK found \in BOOLEAN :
          Then(<<[job EXCEPT !.op = IF found THEN "update" ELSE "all"]>>)
    BY <1>11 DEF Find
  <2>2. job.op = "find"
    BY <1>11 DEF Find, Runs
  <2>3. [job EXCEPT !.op = IF found THEN "update" ELSE "all"] \in S
    BY <1>3, <2>2 DEF S, JobsOf, Jobs, Ops, RowJobs
  <2>4. jobs' \in Seq(S)
    BY <1>5, <2>1, <2>3
  <2>5. QED
    BY <1>2, <1>9, <1>10, <1>11, <2>2, <2>4 DEF Find, VendorInv
<1>12. CASE All
  <2>1. job.op = "all" /\ job.row \in Of(vendor)
    BY <1>7, <1>12 DEF All, Runs, RowJobs
  <2>2. ASSUME NEW r \in Of(vendor) PROVE InsertOf(r, job) \in S
    BY <1>3, <2>1 DEF InsertOf, S, JobsOf, Jobs, Ops, RowJobs, Of
  <2>3. Puts \subseteq S
    BY <1>2, <2>1, <2>2 DEF Puts
  <2>4. PICK puts \in Seq(Puts) : Then(puts \o CountAfter(job))
    BY <1>12, AllQueues
  <2>5. puts \in Seq(S)
    BY <2>3, <2>4
  <2>6. CountAfter(job) \in Seq(S)
    BY <1>6, <1>8 DEF CountAfter
  <2>7. puts \o CountAfter(job) \in Seq(S)
    BY <2>5, <2>6, ConcatProperties
  <2>8. jobs' \in Seq(S)
    BY <1>4, <2>4, <2>7
  <2>9. QED
    BY <1>2, <1>9, <1>10, <1>12, <2>1, <2>8 DEF All, VendorInv
<1>13. CASE Insert \/ Update
  <2>1. /\ job.op \in {"insert", "update"}
        /\ job.row \in Of(vendor)
    BY <1>7, <1>13 DEF Insert, Update, Runs, RowJobs
  <2>2. table' \subseteq Of(vendor)
    BY <1>2, <1>13, <2>1 DEF Insert, Update, Inserted, Updated
  <2>3. job.from \in {"menu", "cart", "none"}
    BY <1>3 DEF S, JobsOf, Jobs
  <2>4. jobs' \in Seq(S)
    BY <1>4, <1>5, <1>6, <1>8, <1>13, <2>3 DEF Insert, Update
  <2>5. QED
    BY <1>9, <1>10, <1>13, <2>1, <2>2, <2>4 DEF Insert, Update, VendorInv
<1>14. CASE Evict
  BY <1>3, <1>14 DEF Evict, Runs, S, JobsOf, RowJobs
<1>15. CASE Delete
  <2>1. table' \subseteq Of(vendor) /\ jobs' \in Seq(S)
    BY <1>2, <1>4, <1>6, <1>15 DEF Delete, Deleted
  <2>2. QED
    BY <1>9, <1>10, <1>15, <2>1 DEF Delete, Runs, VendorInv
<1>16. CASE Clear
  <2>1. table' = {} /\ jobs' \in Seq(S)
    BY <1>4, <1>6, <1>16 DEF Clear
  <2>2. QED
    BY <1>9, <1>16, <2>1 DEF Clear, VendorInv
<1>17. CASE ReadCart
  <2>1. jobs' \in Seq(S)
    BY <1>4, <1>6, <1>17 DEF ReadCart
  <2>2. \A p \in DOMAIN list' : VendorOf[p] = vendor
    BY <1>2, <1>17 DEF ReadCart, VendorInv, Of
  <2>3. QED
    BY <1>2, <1>9, <1>10, <1>17, <2>1, <2>2 DEF ReadCart, Runs
<1>18. CASE ReadMenu
  <2>1. [job EXCEPT !.op = "count"] \in S
    BY <1>3 DEF S, JobsOf, Jobs, Ops, RowJobs
  <2>2. jobs' \in Seq(S)
    BY <1>5, <1>18, <2>1 DEF ReadMenu
  <2>3. \A p \in DOMAIN list' : VendorOf[p] = vendor
    BY <1>18 DEF ReadMenu, VendorInv
  <2>4. QED
    BY <1>2, <1>9, <1>10, <1>18, <2>2, <2>3 DEF ReadMenu, Runs
<1>19. CASE Count
  <2>1. jobs' \in Seq(S)
    BY <1>4, <1>6, <1>19 DEF Count
  <2>2. QED
    BY <1>2, <1>9, <1>10, <1>19, <2>1 DEF Count, Runs, VendorInv
<1>20. QED
  BY <1>11, <1>12, <1>13, <1>14, <1>15, <1>16, <1>17, <1>18, <1>19 DEF Operations

LEMMA VendorKept == Unhurried => (Spec => []VendorInv)
<1> SUFFICES ASSUME Unhurried PROVE Spec => []VendorInv
  OBVIOUS
<1>1. Init => VendorInv
  <2> SUFFICES ASSUME Init PROVE VendorInv
    OBVIOUS
  <2>1. Job("read", NoRow, "menu") \in JobsOf(vendor)
    BY DEF Job, Jobs, Ops, JobsOf, RowJobs
  <2>2. QED
    BY <2>1 DEF Init, VendorInv
<1>2. QInv /\ VendorInv /\ [Next]_vars => VendorInv'
  <2> SUFFICES ASSUME QInv, VendorInv, [Next]_vars PROVE VendorInv'
    OBVIOUS
  <2>1. CASE Taps
    BY <2>1, CartAssumption, TapsKeepVendor
  <2>2. CASE Moves
    BY <2>2, MovesKeepVendor
  <2>3. CASE Operations
    BY <2>3, OperationsKeepVendor
  <2>4. CASE UNCHANGED vars
    BY <2>4 DEF VendorInv, vars
  <2>5. QED
    BY <2>1, <2>2, <2>3, <2>4 DEF Next
<1>3. QED
  BY <1>1, <1>2, QuantitiesBounded, PTL DEF Spec

(* OneVendor: the cart holds one vendor's products, whatever is tapped in  *)
(* a hurry, if screens are not left while operations are queued, sessions  *)
(* do not expire and the app is not killed (the run cart_vendors shows     *)
(* that an expired session breaks it).                                     *)
THEOREM OneVendorKept == Unhurried => (Spec => []OneVendor)
<1>1. VendorInv => OneVendor
  BY DEF VendorInv, OneVendor, Of
<1>2. QED
  BY <1>1, VendorKept, PTL
=============================================================================
