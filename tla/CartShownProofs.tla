---------------------------- MODULE CartShownProofs ----------------------------
(***************************************************************************)
(* ShownIsStored: once nothing is queued the screen shows what the table   *)
(* stores of every product that is tapped with care, however hurriedly the *)
(* others are tapped.                                                      *)
(*                                                                         *)
(* The chains of operations of the other products put the careful one's    *)
(* row back into the table (getSpecificCartProduct inserts every row it    *)
(* read), so the order in the queue matters: a chain that began after the  *)
(* careful product's own reads the table after it has been written.        *)
(* ShownInv says where in its chain a careful product is.                  *)
(***************************************************************************)
EXTENDS CartTableProofs

-----------------------------------------------------------------------------
(* What is where in a queue after operations were added to its end, and    *)
(* after its head was taken off.                                           *)
LEMMA Pushed ==
    ASSUME NEW S, NEW T, NEW q \in Seq(S), NEW t \in Seq(T), NEW r, r = q \o t
    PROVE  /\ Len(q) \in Nat /\ Len(t) \in Nat /\ Len(r) = Len(q) + Len(t)
           /\ \A i \in 1..Len(q) : i \in 1..Len(r) /\ r[i] = q[i]
           /\ \A i \in 1..Len(r) : \/ i \in 1..Len(q) /\ r[i] = q[i]
                                   \/ i > Len(q) /\ r[i] \in T
           /\ \A m \in 1..Len(t) : Len(q) + m \in 1..Len(r) /\ r[Len(q) + m] = t[m]
<1>1. /\ Len(q) \in Nat /\ Len(t) \in Nat /\ Len(r) = Len(q) + Len(t)
      /\ \A i \in 1..Len(q) : r[i] = q[i]
      /\ \A m \in 1..Len(t) : r[Len(q) + m] = t[m] /\ t[m] \in T
  OBVIOUS
<1>2. \A i \in 1..Len(r) : i > Len(q) => i - Len(q) \in 1..Len(t) /\ Len(q) + (i - Len(q)) = i
  BY <1>1
<1>3. \A i \in 1..Len(r) : i > Len(q) => r[i] \in T
  BY <1>1, <1>2
<1>4. \A i \in 1..Len(r) : i \in 1..Len(q) \/ i > Len(q)
  BY <1>1
<1>5. /\ \A i \in 1..Len(q) : i \in 1..Len(r)
      /\ \A m \in 1..Len(t) : Len(q) + m \in 1..Len(r)
  BY <1>1
<1>6. QED
  BY <1>1, <1>3, <1>4, <1>5

LEMMA Popped ==
    ASSUME NEW S, NEW T, NEW q \in Seq(S), q # << >>, NEW t \in Seq(T), NEW r,
           r = Tail(q) \o t
    PROVE  /\ Len(q) \in Nat \ {0} /\ Len(t) \in Nat /\ Len(r) = Len(q) - 1 + Len(t)
           /\ \A i \in 2..Len(q) : i - 1 \in 1..Len(r) /\ r[i - 1] = q[i]
           /\ \A i \in 1..Len(r) : \/ i + 1 \in 2..Len(q) /\ r[i] = q[i + 1]
                                   \/ i >= Len(q) /\ r[i] \in T
           /\ \A m \in 1..Len(t) : /\ Len(q) - 1 + m \in 1..Len(r)
                                   /\ r[Len(q) - 1 + m] = t[m]
<1>1. /\ Len(q) \in Nat \ {0} /\ Tail(q) \in Seq(S) /\ Len(Tail(q)) = Len(q) - 1
      /\ \A i \in 1..(Len(q) - 1) : Tail(q)[i] = q[i + 1]
  BY Tails
<1> DEFINE u == Tail(q)
<1>2. u \in Seq(S) /\ Len(u) = Len(q) - 1 /\ r = u \o t
      /\ \A i \in 1..(Len(q) - 1) : u[i] = q[i + 1]
  BY <1>1
<1> HIDE DEF u
<1>3. /\ Len(t) \in Nat /\ Len(r) = Len(u) + Len(t)
      /\ \A i \in 1..Len(u) : i \in 1..Len(r) /\ r[i] = u[i]
      /\ \A i \in 1..Len(r) : \/ i \in 1..Len(u) /\ r[i] = u[i]
                              \/ i > Len(u) /\ r[i] \in T
      /\ \A m \in 1..Len(t) : Len(u) + m \in 1..Len(r) /\ r[Len(u) + m] = t[m]
  <2>1. /\ Len(u) \in Nat /\ Len(t) \in Nat /\ Len(r) = Len(u) + Len(t)
        /\ \A i \in 1..Len(u) : r[i] = u[i]
        /\ \A m \in 1..Len(t) : r[Len(u) + m] = t[m] /\ t[m] \in T
    BY <1>2
  <2>2. \A i \in 1..Len(r) : \/ i \in 1..Len(u)
                             \/ /\ i > Len(u) /\ i - Len(u) \in 1..Len(t)
                                /\ Len(u) + (i - Len(u)) = i
    BY <2>1
  <2>3. \A i \in 1..Len(r) : i > Len(u) => r[i] \in T
    BY <2>1, <2>2
  <2>4. /\ \A i \in 1..Len(u) : i \in 1..Len(r)
        /\ \A m \in 1..Len(t) : Len(u) + m \in 1..Len(r)
    BY <2>1
  <2>5. \A i \in 1..Len(r) : \/ i \in 1..Len(u) /\ r[i] = u[i]
                             \/ i > Len(u) /\ r[i] \in T
    BY <2>1, <2>2, <2>3
  <2>6. QED
    BY <2>1, <2>4, <2>5
<1>4. \A i \in 2..Len(q) : i - 1 \in 1..(Len(q) - 1) /\ (i - 1) + 1 = i
  BY <1>1
<1>5. \A i \in 2..Len(q) : i - 1 \in 1..Len(r) /\ r[i - 1] = q[i]
  BY <1>2, <1>3, <1>4
<1>6. \A i \in 1..(Len(q) - 1) : i + 1 \in 2..Len(q)
  BY <1>1
<1>7. \A i \in 1..Len(r) : i > Len(q) - 1 => i >= Len(q)
  BY <1>1, <1>2, <1>3
<1>8. QED
  BY <1>1, <1>2, <1>3, <1>5, <1>6, <1>7

-----------------------------------------------------------------------------
(* Operations are queued by the screen shown, or by nobody in particular.  *)
ScreenJobs(s) == {j \in Jobs : /\ j.live /\ j.from \in {s, "none"}
                               /\ j.op \in {"find", "all", "read", "count"} => j.from = s
                               /\ s = "menu" => j.op # "clear"
                               /\ j.op = "delete" => j.row.qty = 0}
ScreenInv == screen \in {"menu", "cart"} => jobs \in Seq(ScreenJobs(screen))

LEMMA QueuesOnScreen ==
    ASSUME NEW row \in Rows
    PROVE  /\ AddOnMenu(row) \in Seq(ScreenJobs("menu"))
           /\ DropOnMenu(row) \in Seq(ScreenJobs("menu"))
           /\ AddOnCart(row) \in Seq(ScreenJobs("cart"))
           /\ DropOnCart(row) \in Seq(ScreenJobs("cart"))
<1>1. /\ \A s \in {"menu", "cart"} :
           /\ Job("find", row, s) \in ScreenJobs(s)
           /\ Job("update", row, "none") \in ScreenJobs(s)
           /\ row.qty = 0 => Job("delete", row, "none") \in ScreenJobs(s)
           /\ Refresh(s) \in ScreenJobs(s)
  BY DEF Job, Jobs, Ops, ScreenJobs, Refresh
<1>2. QED
  BY <1>1 DEF AddOnMenu, DropOnMenu, AddOnCart, DropOnCart

LEMMA TapsKeepScreen ==
    ASSUME CartAssumption, QInv, ScreenInv, Taps
    PROVE  ScreenInv'
<1>1. UNCHANGED screen
  BY TapQueues
<1>2. CASE ClearCart
  <2>1. /\ Job("clear", NoRow, "none") \in ScreenJobs("cart")
        /\ Refresh("cart") \in ScreenJobs("cart")
    BY DEF Job, Jobs, Ops, ScreenJobs, Refresh
  <2>2. /\ screen = "cart"
        /\ jobs' = jobs \o <<Job("clear", NoRow, "none"), Refresh("cart")>>
        /\ <<Job("clear", NoRow, "none"), Refresh("cart")>> \in Seq(ScreenJobs("cart"))
    BY <1>2, <2>1 DEF ClearCart
  <2>3. QED
    BY <1>1, <2>2, ConcatProperties DEF ScreenInv
<1>3. ASSUME NEW p, NEW q, TapsTo(p, q) PROVE ScreenInv'
  <2>1. Row(p, q) \in Rows
    BY <1>3, RowOf DEF TapsTo
  <2>2. screen \in {"menu", "cart"}
    BY <1>3 DEF TapsTo
  <2>3. PICK todo \in Seq(ScreenJobs(screen)) : jobs' = jobs \o todo
    BY <1>3, <2>1, QueuesOnScreen DEF TapsTo
  <2>4. jobs' \in Seq(ScreenJobs(screen))
    BY <2>2, <2>3, ConcatProperties DEF ScreenInv
  <2>5. QED
    BY <1>1, <2>4 DEF ScreenInv
<1>4. QED
  BY <1>2, <1>3, TapQueues

LEMMA MovesKeepScreen ==
    ASSUME Unhurried, Moves
    PROVE  ScreenInv'
<1>1. jobs = << >> /\ Left = << >>
  BY DEF Unhurried, Moves, OpenMenu, OpenCart, OrderPaid, ChangeLocation,
         SessionExpired, PickVendor, Restart, MayGo, Left
<1>2. \A s \in {"menu", "cart"} : <<Job("read", NoRow, s)>> \in Seq(ScreenJobs(s))
  <2>1. \A s \in {"menu", "cart"} : Job("read", NoRow, s) \in ScreenJobs(s)
    BY DEF Job, Jobs, Ops, ScreenJobs
  <2>2. QED
    BY <2>1
<1>3. CASE OpenMenu \/ \E v \in Vendors : PickVendor(v)
  <2>1. PICK v : ShowMenu(v, << >>)
    BY <1>1, <1>3 DEF OpenMenu, PickVendor
  <2>2. Append(<< >>, Job("read", NoRow, "menu")) = <<Job("read", NoRow, "menu")>>
    OBVIOUS
  <2>3. screen' = "menu" /\ jobs' = <<Job("read", NoRow, "menu")>>
    BY <2>1, <2>2 DEF ShowMenu
  <2>4. QED
    BY <1>2, <2>3 DEF ScreenInv
<1>4. CASE OpenCart
  <2>1. screen' = "cart" /\ jobs' = <<Job("read", NoRow, "cart")>>
    BY <1>1, <1>4 DEF OpenCart, ShowOther
  <2>2. QED
    BY <1>2, <2>1 DEF ScreenInv
<1>5. CASE OrderPaid \/ ChangeLocation
  BY <1>5 DEF OrderPaid, ChangeLocation, ShowOther, ScreenInv
<1>6. QED
  BY <1>3, <1>4, <1>5 DEF Moves, Unhurried, SessionExpired, Restart

LEMMA OperationsKeepScreen ==
    ASSUME QInv, VendorInv, ScreenInv, Operations
    PROVE  ScreenInv'
<1> SUFFICES ASSUME screen' \in {"menu", "cart"} PROVE ScreenInv'
  BY DEF ScreenInv
<1> DEFINE job == jobs[1]
           S   == ScreenJobs(screen)
<1>1. jobs # << >> /\ UNCHANGED screen
  BY DEF Operations, Find, All, Insert, Evict, Update, Delete, Clear,
         ReadCart, ReadMenu, Count, Runs
<1>2. jobs \in Seq(S)
  BY <1>1 DEF ScreenInv
<1> HIDE DEF S
<1>3. job \in S /\ Tail(jobs) \in Seq(S)
  BY <1>1, <1>2, Tails
<1>4. ASSUME NEW todo \in Seq(S), Then(todo) PROVE ScreenInv'
  <2>1. jobs' \in Seq(S)
    BY <1>3, <1>4, ConcatProperties DEF Then
  <2>2. QED
    BY <1>1, <2>1 DEF ScreenInv, S
<1>5. ASSUME NEW j \in S, Then(<<j>>) PROVE ScreenInv'
  <2>1. <<j>> \in Seq(S)
    BY <1>5
  <2>2. QED
    BY <1>4, <1>5, <2>1
<1>6. << >> \in Seq(S)
  OBVIOUS
<1>7. job.live /\ job.from \in {screen, "none"} /\ screen \in {"menu", "cart"}
  BY <1>1, <1>3 DEF S, ScreenJobs
<1>8. [Refresh(screen) EXCEPT !.live = job.live] \in S
  BY <1>7 DEF Refresh, Job, S, ScreenJobs, Jobs, Ops
<1>9. CASE Find
  <2>1. PICK found \in BOOLEAN :
          Then(<<[job EXCEPT !.op = IF found THEN "update" ELSE "all"]>>)
    BY <1>9 DEF Find
  <2>2. job.op = "find"
    BY <1>9 DEF Find, Runs
  <2>3. [job EXCEPT !.op = IF found THEN "update" ELSE "all"] \in S
    BY <1>3, <2>2 DEF S, ScreenJobs, Jobs, Ops
  <2>4. QED
    BY <1>5, <2>1, <2>3
<1>10. CASE All
  <2>1. job.op = "all" /\ job.from = screen
    BY <1>3, <1>10 DEF All, Runs, S, ScreenJobs
  <2>2. job \in JobsOf(vendor)
    BY <1>1, Tails DEF VendorInv
  <2>3. job.row \in Of(vendor) /\ job.row \in Rows /\ table \subseteq Rows
    BY <2>1, <2>2 DEF VendorInv, JobsOf, RowJobs, Of
  <2>4. ASSUME NEW r \in Rows PROVE InsertOf(r, job) \in S
    BY <1>3, <2>1 DEF InsertOf, S, ScreenJobs, Jobs, Ops
  <2>5. Puts \subseteq S
    BY <2>3, <2>4 DEF Puts
  <2>6. PICK puts \in Seq(Puts) : Then(puts \o CountAfter(job))
    BY <1>10, AllQueues
  <2>7. puts \in Seq(S)
    BY <2>5, <2>6
  <2>8. CountAfter(job) \in Seq(S)
    <3>1. CASE job.from = "menu"
      <4>1. CountAfter(job) = <<[Refresh(screen) EXCEPT !.live = job.live]>>
        BY <2>1, <3>1 DEF CountAfter
      <4>2. QED
        BY <1>8, <4>1
    <3>2. CASE job.from # "menu"
      BY <3>2, <1>6 DEF CountAfter
    <3>3. QED
      BY <3>1, <3>2
  <2>9. puts \o CountAfter(job) \in Seq(S)
    BY <2>7, <2>8, ConcatProperties
  <2>10. QED
    BY <1>4, <2>6, <2>9
<1>11. CASE Evict
  <2>1. job \in JobsOf(vendor)
    BY <1>1, Tails DEF VendorInv
  <2>2. QED
    BY <1>11, <2>1 DEF Evict, Runs, JobsOf, RowJobs
<1>12. CASE Update
  <2>1. CASE job.from = "none"
    BY <1>4, <1>6, <1>12, <2>1 DEF Update
  <2>2. CASE job.from # "none"
    <3>1. Then(<<[Refresh(screen) EXCEPT !.live = job.live]>>)
      BY <1>7, <1>12, <2>2 DEF Update
    <3>2. QED
      BY <1>5, <1>8, <3>1
  <2>3. QED
    BY <2>1, <2>2
<1>13. CASE ReadMenu
  <2>1. [job EXCEPT !.op = "count"] \in S
    BY <1>3, <1>13 DEF ReadMenu, Runs, S, ScreenJobs, Jobs, Ops
  <2>2. QED
    BY <1>5, <1>13, <2>1 DEF ReadMenu
<1>14. CASE Insert \/ Delete \/ Clear \/ ReadCart \/ Count
  BY <1>4, <1>6, <1>14 DEF Insert, Delete, Clear, ReadCart, Count
<1>15. QED
  BY <1>9, <1>10, <1>11, <1>12, <1>13, <1>14 DEF Operations

-----------------------------------------------------------------------------
(* A careful product's chain.  While an operation that may change what is  *)
(* stored of p is queued, it is the only one; no row is waiting to be      *)
(* inserted, and no other chain reads the table before it has run.         *)
Queued        == 1..Len(jobs)
Writes(j, p)  == j.op \in {"find", "all", "update", "delete"} /\ j.row.product = p
Carries(j, p) == Writes(j, p) \/ j.op = "clear"
Inserts(j, p) == j.op = "insert" /\ j.row.product = p
Reads(j)      == j.op = "read"

Carried(k, p) ==
    /\ k \in Queued /\ Carries(jobs[k], p)
    /\ \A i \in Queued \ {k} : ~Carries(jobs[i], p)
    /\ \A i \in Queued : jobs[i].op # "insert"
    /\ \A i \in Queued \ {k} : i < k \/ jobs[k].op = "find" => jobs[i].op # "all"
    /\ jobs[k].op = "find" => k = 1
    /\ jobs[k].op = "update" => Stored(p) # {}
    /\ jobs[k].op = "all" => Stored(p) = {}
Settled(p) == \A i \in Queued : ~Carries(jobs[i], p)

(* On the menu the screen is right and the table follows.                  *)
Fresh(p) ==
    /\ jobs # << >> /\ Reads(jobs[1]) /\ list[p] = 0 /\ Settled(p)
    /\ \A i \in Queued : jobs[i].op # "insert"
    /\ \A i \in Queued \ {1} : ~Reads(jobs[i])
MenuCarried(p) ==
    /\ \A i \in Queued : ~Reads(jobs[i])
    /\ \E k \in Queued : Carried(k, p) /\ jobs[k].row.qty = list[p]
MenuSettled(p) ==
    /\ Settled(p) /\ \A i \in Queued : ~Reads(jobs[i])
    /\ \A r \in Stored(p) : r.qty = list[p]
    /\ \A i \in Queued : Inserts(jobs[i], p) => jobs[i].row.qty = list[p]
    /\ Stored(p) = {} /\ list[p] # 0 => \E i \in Queued : Inserts(jobs[i], p)

(* On the cart screen the table is right and the screen follows.           *)
Synced(p) ==
    /\ p \in DOMAIN list <=> Stored(p) # {}
    /\ \A r \in Stored(p) : list[p] = r.qty
CartCarried(p) ==
    \E k \in Queued :
      /\ Carried(k, p) /\ jobs[k].op # "all"
      /\ jobs[k].op = "find" => Stored(p) # {}
      /\ \/ jobs[k].op \in {"find", "update"} /\ jobs[k].from = "cart"
         \/ \E i \in Queued : k < i /\ Reads(jobs[i])
CartSettled(p) ==
    /\ Settled(p)
    /\ \A i \in Queued : Inserts(jobs[i], p) =>
                           /\ Stored(p) # {}
                           /\ \A r \in Stored(p) : r.qty = jobs[i].row.qty
    /\ Synced(p) \/ \E i \in Queued : Reads(jobs[i])

ShownInv ==
    /\ screen = "menu" => \A p \in DOMAIN list \ HurriedTaps :
                             Fresh(p) \/ MenuCarried(p) \/ MenuSettled(p)
    /\ screen = "cart" => \A p \in Products \ HurriedTaps :
                             CartCarried(p) \/ CartSettled(p)

-----------------------------------------------------------------------------
(* What the operations of other products may queue.                        *)
Quiet(p) == {j \in Jobs : /\ ~Carries(j, p) /\ j.op # "insert"
                          /\ screen = "menu" => ~Reads(j)}

LEMMA CarriedPop ==
    ASSUME NEW p, NEW k, Carried(k, p), k # 1, jobs \in Seq(Jobs),
           NEW T, NEW todo \in Seq(T), Then(todo),
           \A j \in T : ~Carries(j, p) /\ j.op # "insert",
           Stored(p)' = Stored(p)
    PROVE  k - 1 \in Queued' /\ jobs'[k - 1] = jobs[k] /\ Carried(k - 1, p)'
<1>1. jobs # << >>
  BY DEF Carried, Queued
<1>2. /\ Len(jobs) \in Nat \ {0} /\ Len(todo) \in Nat
      /\ Len(jobs') = Len(jobs) - 1 + Len(todo)
      /\ \A i \in 2..Len(jobs) : i - 1 \in 1..Len(jobs') /\ jobs'[i - 1] = jobs[i]
      /\ \A i \in 1..Len(jobs') : \/ i + 1 \in 2..Len(jobs) /\ jobs'[i] = jobs[i + 1]
                                  \/ i >= Len(jobs) /\ jobs'[i] \in T
  BY <1>1, Popped DEF Then
<1>3. k \in 2..Len(jobs) /\ jobs[k].op # "find"
  BY <1>2 DEF Carried, Queued
<1>4. k - 1 \in 1..Len(jobs') /\ jobs'[k - 1] = jobs[k]
  BY <1>2, <1>3
<1>5. ASSUME NEW i \in 1..Len(jobs'), i # k - 1
      PROVE  /\ ~Carries(jobs'[i], p)
             /\ jobs'[i].op # "insert"
             /\ i < k - 1 => jobs'[i].op # "all"
  <2>1. CASE i + 1 \in 2..Len(jobs) /\ jobs'[i] = jobs[i + 1]
    <3>1. i + 1 \in Queued \ {k} /\ (i < k - 1 => i + 1 < k)
      BY <1>2, <1>3, <1>5, <2>1 DEF Queued
    <3>2. QED
      BY <2>1, <3>1 DEF Carried
  <2>2. CASE i >= Len(jobs) /\ jobs'[i] \in T
    BY <1>2, <1>3, <1>5, <2>2
  <2>3. QED
    BY <1>2, <1>5, <2>1, <2>2
<1>6. /\ Carries(jobs'[k - 1], p) /\ jobs'[k - 1].op # "insert"
      /\ jobs'[k - 1].op = "update" => Stored(p)' # {}
      /\ jobs'[k - 1].op = "all" => Stored(p)' = {}
  BY <1>3, <1>4 DEF Carried, Queued
<1>7. QED
  BY <1>3, <1>4, <1>5, <1>6 DEF Carried, Queued, Carries, Writes

LEMMA CarriedPush ==
    ASSUME NEW p, NEW k, Carried(k, p), jobs \in Seq(Jobs),
           NEW T, NEW todo \in Seq(T), jobs' = jobs \o todo,
           \A j \in T : ~Carries(j, p) /\ j.op \notin {"insert", "all"},
           Stored(p)' = Stored(p)
    PROVE  k \in Queued' /\ jobs'[k] = jobs[k] /\ Carried(k, p)'
<1>1. /\ Len(jobs) \in Nat
      /\ \A i \in 1..Len(jobs) : i \in 1..Len(jobs') /\ jobs'[i] = jobs[i]
      /\ \A i \in 1..Len(jobs') : \/ i \in 1..Len(jobs) /\ jobs'[i] = jobs[i]
                                  \/ i > Len(jobs) /\ jobs'[i] \in T
  BY Pushed
<1>2. k \in 1..Len(jobs') /\ jobs'[k] = jobs[k]
  BY <1>1 DEF Carried, Queued
<1>3. ASSUME NEW i \in 1..Len(jobs'), i # k
      PROVE  /\ ~Carries(jobs'[i], p)
             /\ jobs'[i].op # "insert"
             /\ i < k \/ jobs[k].op = "find" => jobs'[i].op # "all"
  <2>1. CASE i \in 1..Len(jobs) /\ jobs'[i] = jobs[i]
    BY <1>3, <2>1 DEF Carried, Queued
  <2>2. CASE jobs'[i] \in T
    BY <2>2
  <2>3. QED
    BY <1>1, <2>1, <2>2
<1>4. /\ Carries(jobs'[k], p) /\ jobs'[k].op # "insert"
      /\ jobs'[k].op = "find" => k = 1
      /\ jobs'[k].op = "update" => Stored(p)' # {}
      /\ jobs'[k].op = "all" => Stored(p)' = {}
  BY <1>2 DEF Carried, Queued
<1>5. QED
  BY <1>2, <1>3, <1>4 DEF Carried, Queued, Carries, Writes

(* Operations queued behind everything leave the careful product's place   *)
(* in its chain what it was.                                               *)
LEMMA PhasesPush ==
    ASSUME NEW p, jobs \in Seq(Jobs), UNCHANGED <<table, screen>>,
           p \in DOMAIN list' <=> p \in DOMAIN list, list'[p] = list[p],
           NEW todo \in Seq({j \in Quiet(p) : j.op # "all"}), jobs' = jobs \o todo
    PROVE  /\ screen = "menu" /\ Fresh(p) => Fresh(p)'
           /\ screen = "menu" /\ MenuCarried(p) => MenuCarried(p)'
           /\ screen = "menu" /\ MenuSettled(p) => MenuSettled(p)'
           /\ CartCarried(p) => CartCarried(p)'
           /\ CartSettled(p) => CartSettled(p)'
<1> DEFINE T == {j \in Quiet(p) : j.op # "all"}
<1>1. \A j \in T : /\ ~Carries(j, p) /\ j.op \notin {"insert", "all"}
                   /\ screen = "menu" => ~Reads(j)
  BY DEF Quiet
<1>1a. todo \in Seq(T)
  OBVIOUS
<1> HIDE DEF T
<1>2. /\ Len(jobs) \in Nat
      /\ \A i \in 1..Len(jobs) : i \in 1..Len(jobs') /\ jobs'[i] = jobs[i]
      /\ \A i \in 1..Len(jobs') : \/ i \in 1..Len(jobs) /\ jobs'[i] = jobs[i]
                                  \/ i > Len(jobs) /\ jobs'[i] \in T
  BY <1>1a, Pushed
<1>3. Stored(p)' = Stored(p)
  BY DEF Stored
<1>4. Settled(p) => Settled(p)'
  BY <1>1, <1>2 DEF Settled, Queued, Carries, Writes
<1>5. \A i \in Queued' : \/ i \in Queued /\ jobs'[i] = jobs[i]
                         \/ i > Len(jobs) /\ jobs'[i].op # "insert" /\ ~Inserts(jobs'[i], p)
  BY <1>1, <1>2 DEF Queued, Inserts
<1>6. screen = "menu" => \A i \in Queued' : \/ i \in Queued /\ jobs'[i] = jobs[i]
                                            \/ ~Reads(jobs'[i])
  BY <1>1, <1>2 DEF Queued
<1>7. \A i \in Queued : i \in Queued' /\ jobs'[i] = jobs[i]
  BY <1>2 DEF Queued
<1>8. ASSUME screen = "menu", Fresh(p) PROVE Fresh(p)'
  <2>1. 1 \in Queued /\ jobs' # << >> /\ Reads(jobs'[1])
    <3>1. 1 \in Queued
      BY <1>8, <1>2 DEF Fresh, Queued
    <3>2. jobs'[1] = jobs[1] /\ 1 \in 1..Len(jobs')
      BY <3>1, <1>7 DEF Queued
    <3>3. jobs' # << >>
      BY <3>2
    <3>4. QED
      BY <1>8, <3>1, <3>2, <3>3 DEF Fresh, Reads
  <2>2. \A i \in Queued' : jobs'[i].op # "insert"
    BY <1>5, <1>8 DEF Fresh
  <2>3. \A i \in Queued' \ {1} : ~Reads(jobs'[i])
    BY <1>6, <1>8 DEF Fresh
  <2>4. QED
    BY <1>4, <1>8, <2>1, <2>2, <2>3 DEF Fresh, Reads
<1>9. ASSUME screen = "menu", MenuCarried(p) PROVE MenuCarried(p)'
  <2>1. PICK k \in Queued : Carried(k, p) /\ jobs[k].row.qty = list[p]
    BY <1>9 DEF MenuCarried
  <2>2. k \in Queued' /\ jobs'[k] = jobs[k] /\ Carried(k, p)'
    BY <1>1, <1>1a, <1>3, <2>1, CarriedPush
  <2>3. \A i \in Queued' : ~Reads(jobs'[i])
    BY <1>6, <1>9 DEF MenuCarried
  <2>4. QED
    BY <2>1, <2>2, <2>3 DEF MenuCarried, Reads
<1>10. ASSUME screen = "menu", MenuSettled(p) PROVE MenuSettled(p)'
  <2>1. \A i \in Queued' : ~Reads(jobs'[i])
    BY <1>6, <1>10 DEF MenuSettled
  <2>2. \A i \in Queued' : Inserts(jobs'[i], p) => jobs'[i].row.qty = list[p]
    BY <1>5, <1>10 DEF MenuSettled
  <2>3. Stored(p) = {} /\ list[p] # 0 => \E i \in Queued' : Inserts(jobs'[i], p)
    BY <1>7, <1>10 DEF MenuSettled
  <2>4. QED
    BY <1>3, <1>4, <1>10, <2>1, <2>2, <2>3 DEF MenuSettled, Reads, Inserts
<1>11. ASSUME CartCarried(p) PROVE CartCarried(p)'
  <2>1. PICK k \in Queued : /\ Carried(k, p) /\ jobs[k].op # "all"
                            /\ jobs[k].op = "find" => Stored(p) # {}
                            /\ \/ jobs[k].op \in {"find", "update"} /\ jobs[k].from = "cart"
                               \/ \E i \in Queued : k < i /\ Reads(jobs[i])
    BY <1>11 DEF CartCarried
  <2>2. k \in Queued' /\ jobs'[k] = jobs[k] /\ Carried(k, p)'
    BY <1>1, <1>1a, <1>3, <2>1, CarriedPush
  <2>3. \/ jobs'[k].op \in {"find", "update"} /\ jobs'[k].from = "cart"
        \/ \E i \in Queued' : k < i /\ Reads(jobs'[i])
    BY <1>7, <2>1, <2>2
  <2>4. QED
    BY <1>3, <2>1, <2>2, <2>3 DEF CartCarried, Reads
<1>12. ASSUME CartSettled(p) PROVE CartSettled(p)'
  <2>1. \A i \in Queued' : Inserts(jobs'[i], p) =>
                             /\ Stored(p) # {}
                             /\ \A r \in Stored(p) : r.qty = jobs'[i].row.qty
    BY <1>5, <1>12 DEF CartSettled
  <2>2. Synced(p) \/ \E i \in Queued' : Reads(jobs'[i])
    BY <1>7, <1>12 DEF CartSettled
  <2>3. Synced(p) => Synced(p)'
    BY <1>3 DEF Synced
  <2>4. QED
    BY <1>3, <1>4, <1>12, <2>1, <2>2, <2>3 DEF CartSettled, Reads, Inserts
<1>13. QED
  BY <1>8, <1>9, <1>10, <1>11, <1>12

LEMMA QueuesQuiet ==
    ASSUME NEW row \in Rows, NEW p, row.product # p
    PROVE  LET T == {j \in Quiet(p) : j.op # "all"}
           IN  /\ screen = "menu" => AddOnMenu(row) \in Seq(T) /\ DropOnMenu(row) \in Seq(T)
               /\ screen = "cart" => AddOnCart(row) \in Seq(T) /\ DropOnCart(row) \in Seq(T)
<1> DEFINE T == {j \in Quiet(p) : j.op # "all"}
<1>1. /\ Job("find", row, "menu") \in T /\ Job("find", row, "cart") \in T
      /\ Job("update", row, "none") \in T /\ Job("delete", row, "none") \in T
  BY DEF Job, Jobs, Ops, Quiet, Carries, Writes, Reads
<1>2. /\ screen = "menu" => Refresh("menu") \in T
      /\ screen = "cart" => Refresh("cart") \in T
  BY DEF Job, Jobs, Ops, Quiet, Carries, Writes, Reads, Refresh
<1> HIDE DEF T
<1>3. screen = "menu" => AddOnMenu(row) \in Seq(T) /\ DropOnMenu(row) \in Seq(T)
  BY <1>1, <1>2 DEF AddOnMenu, DropOnMenu
<1>4. screen = "cart" => AddOnCart(row) \in Seq(T) /\ DropOnCart(row) \in Seq(T)
  BY <1>1, <1>2 DEF AddOnCart, DropOnCart
<1>5. QED
  BY <1>3, <1>4 DEF T

(* The first operations of a careful product's own chain.                  *)
LEMMA OwnChain ==
    ASSUME NEW p, NEW row \in Rows, row.product = p, UNCHANGED table,
           NEW first, NEW second, jobs' = <<first, second>> \/ jobs' = <<first>>,
           first.row = row, first.op \in {"find", "update", "delete"},
           first.op = "update" => Stored(p) # {},
           ~Carries(second, p), second.op \notin {"insert", "all"}
    PROVE  /\ 1 \in Queued' /\ jobs'[1] = first /\ Carried(1, p)'
           /\ \A i \in Queued' : i = 1 \/ jobs'[i] = second
<1>1. /\ 1 \in Queued' /\ jobs'[1] = first
      /\ \A i \in Queued' : i = 1 \/ jobs'[i] = second
  <2>1. CASE jobs' = <<first, second>>
    BY <2>1 DEF Queued
  <2>2. CASE jobs' = <<first>>
    <3>1. Queued' = 1..1 /\ jobs'[1] = first
      BY <2>2 DEF Queued
    <3>2. QED
      BY <3>1
  <2>3. QED
    BY <2>1, <2>2
<1>2. Carries(first, p)
  BY DEF Carries, Writes
<1>3. Stored(p)' = Stored(p)
  BY DEF Stored
<1>4. QED
  BY <1>1, <1>2, <1>3 DEF Carried, Carries, Writes

LEMMA OwnTap ==
    ASSUME CartAssumption, QInv, ShownInv, OneRowEach,
           NEW p \in Products \ HurriedTaps, NEW q \in Nat, TapsTo(p, q),
           UNCHANGED <<table, screen>>
    PROVE  /\ screen = "menu" => MenuCarried(p)'
           /\ screen = "cart" => CartCarried(p)'
<1>1. jobs = << >> /\ Queued = {} /\ p \in DOMAIN list
  BY DEF TapsTo, MayTap, Queued
<1>2. /\ Row(p, q) \in Rows /\ Row(p, q).product = p /\ Row(p, q).qty = q
  BY RowOf DEF TapsTo
<1>3. list'[p] = q
  BY <1>1 DEF TapsTo
<1>4. ASSUME NEW x, NEW y
      PROVE  /\ jobs \o <<x, y>> = <<x, y>>
             /\ jobs \o <<x>> = <<x>>
  BY <1>1, <1>4
<1> DEFINE row == Row(p, q)
<1> HIDE DEF row
<1>5. row \in Rows /\ row.product = p /\ row.qty = q
  BY <1>2 DEF row
<1>6. /\ \A s \in {"menu", "cart"} : Job("find", row, s) \in Jobs /\ Refresh(s) \in Jobs
      /\ Job("update", row, "none") \in Jobs /\ Job("delete", row, "none") \in Jobs
  BY <1>5 DEF Job, Jobs, Ops, Refresh
<1>7. CASE screen = "menu"
  <2>1. MenuSettled(p)
    BY <1>1, <1>7 DEF ShownInv, Fresh, MenuCarried
  <2>2. list[p] # 0 => Stored(p) # {}
    BY <1>1, <2>1 DEF MenuSettled
  <2>3. \E first \in Jobs : /\ jobs' = <<first, Refresh("menu")>>
                            /\ first.row = row
                            /\ first.op \in {"find", "update", "delete"}
                            /\ first.op = "update" => Stored(p) # {}
    <3>1. CASE jobs' = jobs \o AddOnMenu(row)
      <4>1. AddOnMenu(row) = <<Job("find", row, "menu"), Refresh("menu")>>
        BY DEF AddOnMenu
      <4>2. jobs' = <<Job("find", row, "menu"), Refresh("menu")>>
        BY <1>4, <3>1, <4>1
      <4>3. QED
        BY <1>6, <4>2 DEF Job
    <3>2. CASE list[p] # 0 /\ jobs' = jobs \o DropOnMenu(row)
      <4>1. PICK op \in {"delete", "update"} :
               DropOnMenu(row) = <<Job(op, row, "none"), Refresh("menu")>>
        BY DEF DropOnMenu
      <4>2. Job(op, row, "none") \in Jobs
        BY <1>6
      <4>3. jobs' = <<Job(op, row, "none"), Refresh("menu")>>
        BY <1>4, <3>2, <4>1
      <4>4. QED
        BY <2>2, <3>2, <4>2, <4>3 DEF Job
    <3>3. QED
      BY <1>7, <3>1, <3>2 DEF TapsTo, row
  <2>4. PICK first \in Jobs : /\ jobs' = <<first, Refresh("menu")>>
                              /\ first.row = row
                              /\ first.op \in {"find", "update", "delete"}
                              /\ first.op = "update" => Stored(p) # {}
    BY <2>3
  <2>5. /\ Refresh("menu").op = "count"
        /\ ~Carries(Refresh("menu"), p) /\ ~Reads(Refresh("menu"))
    BY DEF Refresh, Job, Carries, Writes, Reads
  <2>6. /\ 1 \in Queued' /\ jobs'[1] = first /\ Carried(1, p)'
        /\ \A i \in Queued' : i = 1 \/ jobs'[i] = Refresh("menu")
    BY <1>5, <2>4, <2>5, OwnChain
  <2>7. \A i \in Queued' : ~Reads(jobs'[i])
    BY <2>4, <2>5, <2>6 DEF Reads
  <2>8. jobs'[1].row.qty = list'[p]
    BY <1>3, <1>5, <2>4, <2>6
  <2>9. MenuCarried(p)'
    BY <2>6, <2>7, <2>8 DEF MenuCarried, Reads
  <2>10. QED
    BY <1>7, <2>9
<1>8. CASE screen = "cart"
  <2>1. CartSettled(p)
    BY <1>1, <1>8 DEF ShownInv, CartCarried
  <2>2. Stored(p) # {}
    BY <1>1, <2>1 DEF CartSettled, Synced
  <2>3. Refresh("cart").op = "read" /\ Reads(Refresh("cart")) /\ ~Carries(Refresh("cart"), p)
    BY DEF Refresh, Job, Carries, Writes, Reads
  <2>4. CASE jobs' = jobs \o AddOnCart(row)
    <3>1. jobs' = <<Job("find", row, "cart")>>
      BY <1>4, <2>4 DEF AddOnCart
    <3>2. /\ Job("find", row, "cart").row = row /\ Job("find", row, "cart").op = "find"
          /\ Job("find", row, "cart").from = "cart"
      BY DEF Job
    <3>3. 1 \in Queued' /\ jobs'[1] = Job("find", row, "cart") /\ Carried(1, p)'
      BY <1>5, <2>3, <3>1, <3>2, OwnChain
    <3>4. Stored(p)' # {}
      BY <2>2 DEF Stored
    <3>5. QED
      BY <1>8, <3>2, <3>3, <3>4 DEF CartCarried
  <2>5. CASE jobs' = jobs \o DropOnCart(row)
    <3>1. PICK op \in {"delete", "update"} :
             DropOnCart(row) = <<Job(op, row, "none"), Refresh("cart")>>
      BY DEF DropOnCart
    <3>2. Job(op, row, "none") \in Jobs
      BY <1>6
    <3>3. jobs' = <<Job(op, row, "none"), Refresh("cart")>>
      BY <1>4, <2>5, <3>1
    <3>4. Job(op, row, "none").row = row /\ Job(op, row, "none").op = op
      BY DEF Job
    <3>5. 1 \in Queued' /\ jobs'[1] = Job(op, row, "none") /\ Carried(1, p)'
      BY <1>5, <2>2, <2>3, <3>3, <3>4, OwnChain
    <3>6. 2 \in Queued' /\ Reads(jobs'[2])
      BY <2>3, <3>3 DEF Queued
    <3>7. QED
      BY <1>8, <3>4, <3>5, <3>6 DEF CartCarried, Reads
  <2>6. QED
    BY <1>8, <2>4, <2>5 DEF TapsTo, row
<1>9. QED
  BY <1>7, <1>8

LEMMA TapsKeepShown ==
    ASSUME CartAssumption, QInv, OneRowEach, ShownInv, Taps, "clear" \notin HurriedTaps
    PROVE  ShownInv'
<1>1. UNCHANGED <<table, screen>> /\ jobs \in Seq(Jobs)
  BY TapQueues DEF QInv, GoodJobs
<1>2. CASE ClearCart
  <2> DEFINE clear == Job("clear", NoRow, "none")
             read  == Refresh("cart")
  <2>1. /\ screen = "cart" /\ jobs = << >>
        /\ jobs' = jobs \o <<clear, read>>
    BY <1>2 DEF ClearCart, MayTap
  <2>2. /\ clear.op = "clear" /\ read.op = "read"
        /\ clear \in Jobs /\ read \in Jobs
    BY DEF Job, Jobs, Ops, Refresh
  <2> HIDE DEF clear, read
  <2>3. jobs' = <<clear, read>>
    BY <2>1, <2>2
  <2>4. Queued' = 1..2 /\ jobs'[1] = clear /\ jobs'[2] = read
    BY <2>3 DEF Queued
  <2>5. ASSUME NEW p PROVE Carried(1, p)'
    BY <2>2, <2>4 DEF Carried, Carries, Writes
  <2>6. ASSUME NEW p PROVE CartCarried(p)'
    BY <2>2, <2>4, <2>5 DEF CartCarried, Reads
  <2>7. QED
    BY <1>1, <2>1, <2>6 DEF ShownInv
<1>3. ASSUME NEW p0 \in Products, NEW q \in Nat, TapsTo(p0, q) PROVE ShownInv'
  <2>1. /\ p0 \in DOMAIN list /\ list' = [list EXCEPT ![p0] = q]
        /\ Row(p0, q) \in Rows /\ Row(p0, q).product = p0
        /\ DOMAIN list' = DOMAIN list /\ DOMAIN list \subseteq Products
    BY <1>3, RowOf DEF TapsTo, QInv
  <2>2. ASSUME NEW p \in Products, p # p0
        PROVE  /\ screen = "menu" /\ p \in DOMAIN list /\ Fresh(p) => Fresh(p)'
               /\ screen = "menu" /\ p \in DOMAIN list /\ MenuCarried(p) => MenuCarried(p)'
               /\ screen = "menu" /\ p \in DOMAIN list /\ MenuSettled(p) => MenuSettled(p)'
               /\ CartCarried(p) => CartCarried(p)'
               /\ CartSettled(p) => CartSettled(p)'
    <3>1. PICK todo \in Seq({j \in Quiet(p) : j.op # "all"}) : jobs' = jobs \o todo
      BY <1>3, <2>1, <2>2, QueuesQuiet DEF TapsTo
    <3>2. list'[p] = list[p] /\ (p \in DOMAIN list' <=> p \in DOMAIN list)
      BY <2>1, <2>2 DEF QInv
    <3>3. QED
      BY <1>1, <3>1, <3>2, PhasesPush
  <2>3. CASE screen = "menu"
    <3>1. ASSUME NEW p \in DOMAIN list' \ HurriedTaps
          PROVE  Fresh(p)' \/ MenuCarried(p)' \/ MenuSettled(p)'
      <4>1. p \in Products /\ p \in DOMAIN list
        BY <2>1
      <4>2. CASE p = p0
        BY <1>1, <1>3, <2>3, <4>1, <4>2, OwnTap
      <4>3. CASE p # p0
        BY <2>2, <2>3, <4>1, <4>3 DEF ShownInv
      <4>4. QED
        BY <4>2, <4>3
    <3>2. QED
      BY <1>1, <2>3, <3>1 DEF ShownInv
  <2>4. CASE screen = "cart"
    <3>1. ASSUME NEW p \in Products \ HurriedTaps
          PROVE  CartCarried(p)' \/ CartSettled(p)'
      <4>1. CASE p = p0
        BY <1>1, <1>3, <2>4, <4>1, OwnTap
      <4>2. CASE p # p0
        BY <2>2, <2>4, <4>2 DEF ShownInv
      <4>3. QED
        BY <4>1, <4>2
    <3>2. QED
      BY <1>1, <2>4, <3>1 DEF ShownInv
  <2>5. QED
    BY <1>3, <2>3, <2>4 DEF TapsTo
<1>4. QED
  BY <1>2, <1>3, TapQueues

(* A screen opened reads the table first.                                  *)
LEMMA MovesKeepShown ==
    ASSUME Unhurried, Moves
    PROVE  ShownInv'
<1>1. jobs = << >> /\ Left = << >>
  BY DEF Unhurried, Moves, OpenMenu, OpenCart, OrderPaid, ChangeLocation,
         SessionExpired, PickVendor, Restart, MayGo, Left
<1>2. ASSUME NEW s, NEW read, read = Job("read", NoRow, s), jobs' = <<read>>
      PROVE  /\ jobs' # << >> /\ 1 \in Queued' /\ Reads(jobs'[1])
             /\ \A p : Settled(p)'
             /\ \A i \in Queued' : jobs'[i].op # "insert" /\ i = 1
  <2>1. Queued' = 1..1 /\ jobs'[1] = read /\ jobs' # << >> /\ read.op = "read"
    BY <1>2 DEF Queued, Job
  <2>2. \A i \in Queued' : i = 1
    BY <2>1
  <2>3. QED
    BY <2>1, <2>2 DEF Reads, Settled, Carries, Writes
<1>3. CASE OpenMenu \/ \E v \in Vendors : PickVendor(v)
  <2>1. PICK v : ShowMenu(v, << >>)
    BY <1>1, <1>3 DEF OpenMenu, PickVendor
  <2>2. Append(<< >>, Job("read", NoRow, "menu")) = <<Job("read", NoRow, "menu")>>
    OBVIOUS
  <2>3. /\ screen' = "menu" /\ jobs' = <<Job("read", NoRow, "menu")>>
        /\ \A p \in DOMAIN list' : list'[p] = 0
    BY <2>1, <2>2 DEF ShowMenu
  <2>4. \A p \in DOMAIN list' : Fresh(p)'
    BY <1>2, <2>3 DEF Fresh, Reads
  <2>5. QED
    BY <2>3, <2>4 DEF ShownInv
<1>4. CASE OpenCart
  <2>1. screen' = "cart" /\ jobs' = <<Job("read", NoRow, "cart")>>
    BY <1>1, <1>4 DEF OpenCart, ShowOther
  <2>2. \A p : CartSettled(p)'
    BY <1>2, <2>1 DEF CartSettled, Reads, Inserts
  <2>3. QED
    BY <2>1, <2>2 DEF ShownInv
<1>5. CASE OrderPaid \/ ChangeLocation
  BY <1>5 DEF OrderPaid, ChangeLocation, ShowOther, ShownInv
<1>6. QED
  BY <1>3, <1>4, <1>5 DEF Moves, Unhurried, SessionExpired, Restart

-----------------------------------------------------------------------------
(* An operation of another product, which inserts nothing, leaves what is  *)
(* stored of p alone, and so does what it queues.                          *)
LEMMA InnocentStep ==
    ASSUME QInv, VendorInv, ScreenInv, Operations, NEW p,
           screen \in {"menu", "cart"},
           ~Carries(jobs[1], p), jobs[1].op \notin {"insert", "all"},
           screen = "menu" => ~Reads(jobs[1])
    PROVE  /\ jobs # << >> /\ jobs \in Seq(Jobs) /\ UNCHANGED screen
           /\ \E todo \in Seq(Quiet(p)) : Then(todo)
           /\ Stored(p)' = Stored(p)
           /\ ~Reads(jobs[1]) => list' = list
           /\ Reads(jobs[1]) => ReadCart /\ jobs[1].live
<1> DEFINE job == jobs[1]
<1>1. jobs # << >> /\ UNCHANGED screen
  BY DEF Operations, Find, All, Insert, Evict, Update, Delete, Clear,
         ReadCart, ReadMenu, Count, Runs
<1>2. jobs \in Seq(Jobs)
  BY DEF QInv, GoodJobs
<1>3. job \in ScreenJobs(screen) /\ job \in Jobs
  BY <1>1, Tails DEF ScreenInv, ScreenJobs
<1>4. job \in JobsOf(vendor)
  BY <1>1, Tails DEF VendorInv
<1>5. job.live /\ job.from \in {screen, "none"}
  BY <1>3 DEF ScreenJobs
<1>6. << >> \in Seq(Quiet(p))
  OBVIOUS
<1>7. ASSUME NEW j \in Quiet(p) PROVE <<j>> \in Seq(Quiet(p))
  BY <1>7
<1>8. CASE Find
  <2>1. PICK found \in BOOLEAN :
          Then(<<[job EXCEPT !.op = IF found THEN "update" ELSE "all"]>>)
    BY <1>8 DEF Find
  <2>2. job.op = "find"
    BY <1>8 DEF Find, Runs
  <2>3. [job EXCEPT !.op = IF found THEN "update" ELSE "all"] \in Quiet(p)
    BY <1>3, <2>2 DEF Quiet, Jobs, Ops, Carries, Writes, Reads
  <2>4. \E todo \in Seq(Quiet(p)) : Then(todo)
    BY <1>7, <2>1, <2>3
  <2>5. QED
    BY <1>1, <1>2, <1>8, <2>2, <2>4 DEF Find, Stored, Reads
<1>9. CASE Update
  <2>1. job.op = "update" /\ job.row.product # p
    BY <1>9 DEF Update, Runs, Carries, Writes
  <2>2. Stored(p)' = Stored(p)
    BY <1>9, <2>1 DEF Update, Updated, Inserted, Stored
  <2>3. \E todo \in Seq(Quiet(p)) : Then(todo)
    <3>1. CASE job.from = "none"
      BY <1>6, <1>9, <3>1 DEF Update
    <3>2. CASE job.from # "none"
      <4>1. Then(<<[Refresh(screen) EXCEPT !.live = job.live]>>)
        BY <1>5, <1>9, <3>2 DEF Update
      <4>2. [Refresh(screen) EXCEPT !.live = job.live] \in Quiet(p)
        BY <1>5 DEF Refresh, Job, Quiet, Jobs, Ops, Carries, Writes, Reads
      <4>3. QED
        BY <1>7, <4>1, <4>2
    <3>3. QED
      BY <3>1, <3>2
  <2>4. QED
    BY <1>1, <1>2, <1>9, <2>1, <2>2, <2>3 DEF Update, Reads
<1>10. CASE Delete
  <2>1. job.op = "delete" /\ job.row.product # p
    BY <1>10 DEF Delete, Runs, Carries, Writes
  <2>2. Stored(p)' = Stored(p)
    BY <1>10, <2>1 DEF Delete, Deleted, Stored
  <2>3. QED
    BY <1>1, <1>2, <1>6, <1>10, <2>1, <2>2 DEF Delete, Reads
<1>11. CASE Count
  BY <1>1, <1>2, <1>6, <1>11 DEF Count, Runs, Reads, Stored
<1>12. CASE ReadCart
  BY <1>1, <1>2, <1>5, <1>6, <1>12 DEF ReadCart, Runs, Reads, Stored
<1>13. ~ReadMenu
  BY <1>3 DEF ReadMenu, Runs, Reads, ScreenJobs
<1>14. ~Insert /\ ~All /\ ~Clear
  BY DEF Insert, All, Clear, Runs, Carries
<1>15. ~Evict
  BY <1>4 DEF Evict, Runs, JobsOf, RowJobs
<1>16. QED
  BY <1>8, <1>9, <1>10, <1>11, <1>12, <1>13, <1>14, <1>15 DEF Operations

-----------------------------------------------------------------------------
(* The operation at the head of the queue, and the queue after it has run. *)
LEMMA Heads ==
    ASSUME QInv, VendorInv, ScreenInv, Operations, screen \in {"menu", "cart"}
    PROVE  /\ jobs # << >> /\ jobs \in Seq(Jobs) /\ UNCHANGED screen
           /\ 1 \in Queued /\ Len(jobs) \in Nat \ {0}
           /\ jobs[1] \in ScreenJobs(screen) /\ jobs[1] \in Jobs
           /\ jobs[1].op \in RowJobs => jobs[1].row \in Of(vendor) /\ jobs[1].op # "evict"
           /\ \A r \in table : r.vendor = vendor
<1>1. jobs # << >> /\ UNCHANGED screen
  BY DEF Operations, Find, All, Insert, Evict, Update, Delete, Clear,
         ReadCart, ReadMenu, Count, Runs
<1>2. jobs \in Seq(Jobs)
  BY DEF QInv, GoodJobs
<1>3. jobs[1] \in ScreenJobs(screen) /\ Len(jobs) \in Nat \ {0}
  BY <1>1, Tails DEF ScreenInv
<1>4. jobs[1] \in JobsOf(vendor)
  BY <1>1, Tails DEF VendorInv
<1>5. QED
  BY <1>1, <1>2, <1>3, <1>4 DEF VendorInv, Of, JobsOf, Queued, ScreenJobs

LEMMA Pop ==
    ASSUME jobs \in Seq(Jobs), jobs # << >>, NEW T, NEW todo \in Seq(T), Then(todo)
    PROVE  /\ \A i \in Queued \ {1} : i - 1 \in Queued' /\ jobs'[i - 1] = jobs[i]
           /\ \A i \in Queued' : \/ i + 1 \in Queued \ {1} /\ jobs'[i] = jobs[i + 1]
                                 \/ i >= Len(jobs) /\ jobs'[i] \in T
           /\ \A m \in 1..Len(todo) : /\ Len(jobs) - 1 + m \in Queued'
                                      /\ jobs'[Len(jobs) - 1 + m] = todo[m]
<1>1. /\ Len(jobs) \in Nat \ {0}
      /\ \A i \in 2..Len(jobs) : i - 1 \in 1..Len(jobs') /\ jobs'[i - 1] = jobs[i]
      /\ \A i \in 1..Len(jobs') : \/ i + 1 \in 2..Len(jobs) /\ jobs'[i] = jobs[i + 1]
                                  \/ i >= Len(jobs) /\ jobs'[i] \in T
      /\ \A m \in 1..Len(todo) : /\ Len(jobs) - 1 + m \in 1..Len(jobs')
                                 /\ jobs'[Len(jobs) - 1 + m] = todo[m]
  BY Popped DEF Then
<1>2. 2..Len(jobs) = Queued \ {1} /\ Queued' = 1..Len(jobs')
  BY <1>1 DEF Queued
<1>3. QED
  BY <1>1, <1>2

LEMMA PopOne ==
    ASSUME jobs \in Seq(Jobs), jobs # << >>, NEW j, Then(<<j>>)
    PROVE  /\ \A i \in Queued \ {1} : i - 1 \in Queued' /\ jobs'[i - 1] = jobs[i]
           /\ \A i \in Queued' : \/ i + 1 \in Queued \ {1} /\ jobs'[i] = jobs[i + 1]
                                 \/ i >= Len(jobs) /\ jobs'[i] = j
           /\ Len(jobs) \in Queued' /\ jobs'[Len(jobs)] = j
<1>1. <<j>> \in Seq({j}) /\ Len(<<j>>) = 1 /\ <<j>>[1] = j /\ 1 \in 1..1
  OBVIOUS
<1>2. Len(jobs) \in Nat /\ Len(jobs) - 1 + 1 = Len(jobs)
  OBVIOUS
<1>3. /\ \A i \in Queued \ {1} : i - 1 \in Queued' /\ jobs'[i - 1] = jobs[i]
      /\ \A i \in Queued' : \/ i + 1 \in Queued \ {1} /\ jobs'[i] = jobs[i + 1]
                            \/ i >= Len(jobs) /\ jobs'[i] \in {j}
      /\ \A m \in 1..Len(<<j>>) : /\ Len(jobs) - 1 + m \in Queued'
                                  /\ jobs'[Len(jobs) - 1 + m] = <<j>>[m]
  BY <1>1, Pop
<1>4. Len(jobs) - 1 + 1 \in Queued' /\ jobs'[Len(jobs) - 1 + 1] = <<j>>[1]
  BY <1>1, <1>3
<1>5. QED
  BY <1>1, <1>2, <1>3, <1>4

LEMMA PopNone ==
    ASSUME jobs \in Seq(Jobs), jobs # << >>, Then(<< >>)
    PROVE  /\ \A i \in Queued \ {1} : i - 1 \in Queued' /\ jobs'[i - 1] = jobs[i]
           /\ \A i \in Queued' : i + 1 \in Queued \ {1} /\ jobs'[i] = jobs[i + 1]
<1> DEFINE nothing == << >>
<1>1. nothing \in Seq({}) /\ Then(nothing)
  OBVIOUS
<1> HIDE DEF nothing
<1>2. /\ \A i \in Queued \ {1} : i - 1 \in Queued' /\ jobs'[i - 1] = jobs[i]
      /\ \A i \in Queued' : \/ i + 1 \in Queued \ {1} /\ jobs'[i] = jobs[i + 1]
                            \/ i >= Len(jobs) /\ jobs'[i] \in {}
  BY <1>1, Pop
<1>3. QED
  BY <1>2

LEMMA OneStored ==
    ASSUME OneRowEach, NEW p, NEW r \in Stored(p)
    PROVE  Stored(p) = {r} /\ StoredQty(p) = r.qty
<1>1. r \in table /\ r.product = p
  BY DEF Stored
<1>2. Stored(p) = {r}
  BY <1>1 DEF OneRowEach
<1>3. QED
  BY <1>2 DEF StoredQty

(* A listing just opened shows what its reading of the table found.        *)
LEMMA FreshNext ==
    ASSUME QInv, OneRowEach, VendorInv, ScreenInv, Operations, screen = "menu",
           NEW p \in DOMAIN list, Fresh(p)
    PROVE  MenuSettled(p)' /\ DOMAIN list' = DOMAIN list
<1> DEFINE job == jobs[1]
           counting == [job EXCEPT !.op = "count"]
<1>1. /\ jobs # << >> /\ jobs \in Seq(Jobs) /\ 1 \in Queued
      /\ job \in ScreenJobs("menu") /\ job \in Jobs
  BY Heads
<1>2. job.op = "read" /\ job.from = "menu" /\ job.live
  BY <1>1 DEF Fresh, Reads, ScreenJobs
<1>3. ReadMenu
  BY <1>2 DEF Operations, Find, All, Insert, Evict, Update, Delete, Clear,
              ReadCart, Count, Runs
<1>4. /\ list' = [x \in DOMAIN list |-> IF Stored(x) = {} THEN list[x] ELSE StoredQty(x)]
      /\ UNCHANGED <<table, screen>>
      /\ Then(<<counting>>)
  BY <1>2, <1>3 DEF ReadMenu
<1>5. counting.op = "count"
  BY <1>1 DEF Jobs
<1> HIDE DEF counting
<1>6. \A i \in Queued' : \/ i + 1 \in Queued \ {1} /\ jobs'[i] = jobs[i + 1]
                         \/ i >= Len(jobs) /\ jobs'[i] = counting
  BY <1>1, <1>4, PopOne
<1>7. \A i \in Queued' : /\ ~Carries(jobs'[i], p) /\ ~Reads(jobs'[i])
                         /\ ~Inserts(jobs'[i], p)
  BY <1>5, <1>6 DEF Fresh, Settled, Carries, Writes, Reads, Inserts
<1>8. Stored(p)' = Stored(p)
  BY <1>4 DEF Stored
<1>9. CASE Stored(p) = {}
  <2>1. list'[p] = 0
    BY <1>4, <1>9 DEF Fresh
  <2>2. QED
    BY <1>4, <1>7, <1>8, <1>9, <2>1 DEF MenuSettled, Settled, Reads, Inserts
<1>10. CASE Stored(p) # {}
  <2>1. PICK r \in Stored(p) : TRUE
    BY <1>10
  <2>2. Stored(p) = {r} /\ list'[p] = r.qty
    BY <1>4, <2>1, OneStored
  <2>3. QED
    BY <1>4, <1>7, <1>8, <2>2 DEF MenuSettled, Settled, Reads, Inserts
<1>11. QED
  BY <1>9, <1>10

(* The chain of the careful product itself: found or not, the row is the   *)
(* one that the screen shows when the chain is over.                       *)
LEMMA OwnNext ==
    ASSUME QInv, OneRowEach, VendorInv, ScreenInv, Operations,
           screen \in {"menu", "cart"}, NEW p, Carried(1, p)
    PROVE  /\ jobs[1].op = "find" =>
                /\ \E k \in Queued' :
                     /\ Carried(k, p)' /\ jobs'[k].row = jobs[1].row
                     /\ jobs'[k].from = jobs[1].from
                     /\ jobs'[k].op = IF Stored(p) = {} THEN "all" ELSE "update"
                /\ \A i \in Queued' : Reads(jobs'[i]) => i + 1 \in Queued /\ Reads(jobs[i + 1])
                /\ UNCHANGED <<table, list>>
           /\ jobs[1].op \in {"update", "delete", "clear"} =>
                /\ Settled(p)' /\ list' = list
                /\ \A i \in Queued' : ~Inserts(jobs'[i], p)
                /\ \A i \in Queued \ {1} : i - 1 \in Queued' /\ jobs'[i - 1] = jobs[i]
                /\ \A i \in Queued' : \/ ~Reads(jobs'[i])
                                      \/ i + 1 \in Queued /\ Reads(jobs[i + 1])
                                      \/ screen = "cart"
                /\ jobs[1].op = "update" => Stored(p)' = {jobs[1].row}
                /\ jobs[1].op # "update" => Stored(p)' = {}
                /\ jobs[1].op = "update" /\ jobs[1].from = "cart" =>
                     \E i \in Queued' : Reads(jobs'[i])
<1> DEFINE job == jobs[1]
<1>1. /\ jobs # << >> /\ jobs \in Seq(Jobs) /\ 1 \in Queued /\ UNCHANGED screen
      /\ job \in ScreenJobs(screen) /\ job \in Jobs
      /\ job.op \in RowJobs => job.row \in Of(vendor) /\ job.op # "evict"
      /\ \A r \in table : r.vendor = vendor
  BY Heads
<1>2. /\ Carries(job, p)
      /\ \A i \in Queued \ {1} : ~Carries(jobs[i], p)
      /\ \A i \in Queued : jobs[i].op # "insert"
      /\ job.op = "update" => Stored(p) # {}
  BY DEF Carried
<1>3. ASSUME job.op = "find"
      PROVE  /\ \E k \in Queued' :
                  /\ Carried(k, p)' /\ jobs'[k].row = job.row
                  /\ jobs'[k].from = job.from
                  /\ jobs'[k].op = IF Stored(p) = {} THEN "all" ELSE "update"
             /\ \A i \in Queued' : Reads(jobs'[i]) => i + 1 \in Queued /\ Reads(jobs[i + 1])
             /\ UNCHANGED <<table, list>>
  <2>1. Find
    BY <1>3 DEF Operations, All, Insert, Evict, Update, Delete, Clear,
                ReadCart, ReadMenu, Count, Runs
  <2>2. job.row.product = p /\ job.row.vendor = vendor
    BY <1>1, <1>2, <1>3 DEF Carries, Writes, RowJobs, Of
  <2> DEFINE next == [job EXCEPT !.op = IF Stored(p) = {} THEN "all" ELSE "update"]
  <2>3. (\E r \in Stored(job.row.product) : r.vendor = job.row.vendor) <=> Stored(p) # {}
    BY <1>1, <2>2 DEF Stored
  <2>4. Then(<<next>>) /\ UNCHANGED <<table, list>>
    BY <2>1, <2>3 DEF Find
  <2>5. /\ next.op = IF Stored(p) = {} THEN "all" ELSE "update"
        /\ next.row = job.row /\ next.from = job.from
    BY <1>1 DEF Jobs
  <2> HIDE DEF next
  <2>6. /\ \A i \in Queued' : \/ i + 1 \in Queued \ {1} /\ jobs'[i] = jobs[i + 1]
                              \/ i >= Len(jobs) /\ jobs'[i] = next
        /\ Len(jobs) \in Queued' /\ jobs'[Len(jobs)] = next
    BY <1>1, <2>4, PopOne
  <2>7. Stored(p)' = Stored(p)
    BY <2>4 DEF Stored
  <2>8. Queued = 1..Len(jobs) /\ Len(jobs) \in Nat
    BY <1>1 DEF Queued
  <2>9. \A i \in Queued' : i = Len(jobs) \/ (i + 1 \in Queued \ {1} /\ jobs'[i] = jobs[i + 1])
    <3>1. \A i \in Queued' : i <= Len(jobs)
      <4>1. Len(jobs') = Len(jobs) /\ Queued' = 1..Len(jobs')
        BY <1>1, <2>4, Popped DEF Then, Queued
      <4>2. QED
        BY <2>8, <4>1
    <3>2. \A i \in Queued' : i \in Int
      BY DEF Queued
    <3>3. QED
      BY <2>6, <2>8, <3>1, <3>2
  <2>10. \A i \in Queued \ {1} : jobs[i].op # "all"
    BY <1>3 DEF Carried
  <2>11. /\ Carries(next, p)
         /\ \A i \in Queued' \ {Len(jobs)} : /\ ~Carries(jobs'[i], p)
                                             /\ jobs'[i].op # "all"
         /\ \A i \in Queued' : jobs'[i].op # "insert"
    BY <1>2, <2>2, <2>5, <2>6, <2>9, <2>10 DEF Carries, Writes
  <2>12. PICK k \in Queued' : k = Len(jobs)
    BY <2>6
  <2>12a. jobs'[k] = next /\ Carried(k, p)'
    BY <2>5, <2>6, <2>7, <2>11, <2>12 DEF Carried, Carries, Writes
  <2>13. \A i \in Queued' : Reads(jobs'[i]) => i + 1 \in Queued /\ Reads(jobs[i + 1])
    BY <2>5, <2>6 DEF Reads
  <2>14. QED
    BY <2>4, <2>5, <2>12a, <2>13
<1>4. ASSUME job.op = "update"
      PROVE  /\ Settled(p)' /\ list' = list
             /\ \A i \in Queued' : ~Inserts(jobs'[i], p)
             /\ \A i \in Queued \ {1} : i - 1 \in Queued' /\ jobs'[i - 1] = jobs[i]
             /\ \A i \in Queued' : \/ ~Reads(jobs'[i])
                                   \/ i + 1 \in Queued /\ Reads(jobs[i + 1])
                                   \/ screen = "cart"
             /\ Stored(p)' = {job.row}
             /\ job.from = "cart" => \E i \in Queued' : Reads(jobs'[i])
  <2>1. Update
    BY <1>4 DEF Operations, Find, All, Insert, Evict, Delete, Clear,
                ReadCart, ReadMenu, Count, Runs
  <2>2. job.row.product = p /\ list' = list
    BY <1>2, <1>4, <2>1 DEF Carries, Writes, Update
  <2>3. Stored(p)' = {job.row}
    <3>1. table' = (table \ Stored(p)) \union {job.row}
      BY <1>2, <1>4, <2>1, <2>2 DEF Update, Updated, Inserted
    <3>2. QED
      BY <2>2, <3>1 DEF Stored
  <2>4. job.from \in {screen, "none"} /\ job.live
    BY <1>1 DEF ScreenJobs
  <2>5. CASE job.from = "none"
    <3>1. Then(<< >>)
      BY <2>1, <2>5 DEF Update
    <3>2. /\ \A i \in Queued \ {1} : i - 1 \in Queued' /\ jobs'[i - 1] = jobs[i]
          /\ \A i \in Queued' : i + 1 \in Queued \ {1} /\ jobs'[i] = jobs[i + 1]
      BY <1>1, <3>1, PopNone
    <3>3. Settled(p)' /\ \A i \in Queued' : ~Inserts(jobs'[i], p)
      BY <1>2, <3>2 DEF Settled, Inserts, Carries, Writes
    <3>4. QED
      BY <2>2, <2>3, <2>5, <3>2, <3>3
  <2>6. CASE job.from = screen
    <3> DEFINE next == [Refresh(screen) EXCEPT !.live = job.live]
    <3>1. Then(<<next>>)
      BY <1>1, <2>1, <2>6 DEF Update
    <3>2. next.op = IF screen = "cart" THEN "read" ELSE "count"
      BY DEF Refresh, Job
    <3> HIDE DEF next
    <3>3. /\ \A i \in Queued \ {1} : i - 1 \in Queued' /\ jobs'[i - 1] = jobs[i]
          /\ \A i \in Queued' : \/ i + 1 \in Queued \ {1} /\ jobs'[i] = jobs[i + 1]
                                \/ i >= Len(jobs) /\ jobs'[i] = next
          /\ Len(jobs) \in Queued' /\ jobs'[Len(jobs)] = next
      BY <1>1, <3>1, PopOne
    <3>4. Settled(p)' /\ \A i \in Queued' : ~Inserts(jobs'[i], p)
      BY <1>2, <3>2, <3>3 DEF Settled, Inserts, Carries, Writes
    <3>5. job.from = "cart" => \E i \in Queued' : Reads(jobs'[i])
      BY <2>6, <3>2, <3>3 DEF Reads
    <3>6. QED
      BY <2>2, <2>3, <3>2, <3>3, <3>4, <3>5 DEF Reads
  <2>7. QED
    BY <2>4, <2>5, <2>6
<1>5. ASSUME job.op \in {"delete", "clear"}
      PROVE  /\ Settled(p)' /\ list' = list
             /\ \A i \in Queued' : ~Inserts(jobs'[i], p)
             /\ \A i \in Queued \ {1} : i - 1 \in Queued' /\ jobs'[i - 1] = jobs[i]
             /\ \A i \in Queued' : i + 1 \in Queued /\ jobs'[i] = jobs[i + 1]
             /\ Stored(p)' = {}
  <2>1. Delete \/ Clear
    BY <1>5 DEF Operations, Find, All, Insert, Evict, Update,
                ReadCart, ReadMenu, Count, Runs
  <2>2. Then(<< >>) /\ list' = list
    BY <2>1 DEF Delete, Clear
  <2>3. /\ \A i \in Queued \ {1} : i - 1 \in Queued' /\ jobs'[i - 1] = jobs[i]
        /\ \A i \in Queued' : i + 1 \in Queued \ {1} /\ jobs'[i] = jobs[i + 1]
    BY <1>1, <2>2, PopNone
  <2>4. Stored(p)' = {}
    <3>1. CASE Clear
      BY <3>1 DEF Clear, Stored
    <3>2. CASE Delete
      <4>1. job.row.product = p
        BY <1>2, <3>2 DEF Carries, Writes, Delete, Runs
      <4>2. table' = table \ Stored(p)
        BY <3>2, <4>1 DEF Delete, Deleted
      <4>3. QED
        BY <4>2 DEF Stored
    <3>3. QED
      BY <2>1, <3>1, <3>2
  <2>5. Settled(p)' /\ \A i \in Queued' : ~Inserts(jobs'[i], p)
    BY <1>2, <2>3 DEF Settled, Inserts, Carries, Writes
  <2>6. QED
    BY <2>2, <2>3, <2>4, <2>5
<1>6. QED
  BY <1>3, <1>4, <1>5

(* Not found: the rows read, the new one among them, wait for insertion.   *)
LEMMA AllNext ==
    ASSUME QInv, VendorInv, ScreenInv, Operations, screen \in {"menu", "cart"},
           NEW p, jobs[1].op = "all"
    PROVE  /\ UNCHANGED <<table, list>>
           /\ \A i \in Queued \ {1} : i - 1 \in Queued' /\ jobs'[i - 1] = jobs[i]
           /\ \A i \in Queued' :
                \/ i + 1 \in Queued \ {1} /\ jobs'[i] = jobs[i + 1]
                \/ /\ ~Carries(jobs'[i], p) /\ ~Reads(jobs'[i])
                   /\ Inserts(jobs'[i], p) => \/ jobs'[i].row \in Stored(p)
                                              \/ jobs'[i].row = jobs[1].row
           /\ jobs[1].row.product = p =>
                \E i \in Queued' : Inserts(jobs'[i], p) /\ jobs'[i].row = jobs[1].row
<1> DEFINE job   == jobs[1]
           count0 == [Refresh("menu") EXCEPT !.live = job.live]
           T     == Puts \union {count0}
<1>1. /\ jobs # << >> /\ jobs \in Seq(Jobs) /\ job \in Jobs /\ Len(jobs) \in Nat \ {0}
  BY Heads
<1>2. All
  BY DEF Operations, Find, Insert, Evict, Update, Delete, Clear,
         ReadCart, ReadMenu, Count, Runs
<1>3. UNCHANGED <<table, list>>
  BY <1>2 DEF All
<1>4. PICK puts \in Seq(Puts) : /\ puts # << >>
                                /\ puts[Len(puts)] = InsertOf(job.row, job)
                                /\ Then(puts \o CountAfter(job))
  BY <1>2, AllQueues
<1>5. count0.op = "count"
  BY DEF Refresh, Job
<1>6. \A r : /\ InsertOf(r, job).row = r
             /\ InsertOf(r, job).op \in {"insert", "evict"}
  BY <1>1 DEF InsertOf, Jobs
<1>7. InsertOf(job.row, job).op = "insert"
  BY <1>1 DEF InsertOf, Jobs
<1>8. ASSUME NEW j \in T
      PROVE  /\ ~Carries(j, p) /\ ~Reads(j)
             /\ Inserts(j, p) => j.row \in Stored(p) \/ j.row = job.row
  <2>1. CASE j = count0
    BY <1>5, <2>1 DEF Carries, Writes, Reads, Inserts
  <2>2. CASE j \in Puts
    <3>1. PICK r \in table \union {job.row} : j = InsertOf(r, job)
      BY <2>2 DEF Puts
    <3>2. j.row = r /\ j.op \in {"insert", "evict"}
      BY <1>6, <3>1
    <3>3. QED
      BY <3>1, <3>2 DEF Carries, Writes, Reads, Inserts, Stored
  <2>3. QED
    BY <1>8, <2>1, <2>2
<1>9. puts \in Seq(T) /\ CountAfter(job) \in Seq(T)
  <2>1. puts \in Seq(T)
    BY <1>4
  <2>2. <<count0>> \in Seq(T) /\ << >> \in Seq(T)
    OBVIOUS
  <2>3. QED
    BY <2>1, <2>2 DEF CountAfter
<1> HIDE DEF T, count0
<1> DEFINE after == CountAfter(job)
           todo  == puts \o after
<1>10. after \in Seq(T) /\ puts \in Seq(T) /\ Then(todo)
  BY <1>4, <1>9
<1> HIDE DEF after
<1>11. /\ todo \in Seq(T) /\ Len(puts) \in 1..Len(todo)
       /\ todo[Len(puts)] = puts[Len(puts)]
  <2>1. /\ todo \in Seq(T) /\ Len(puts) \in Nat /\ Len(after) \in Nat
        /\ Len(todo) = Len(puts) + Len(after)
        /\ \A i \in 1..Len(puts) : todo[i] = puts[i]
    BY <1>10, ConcatProperties
  <2>2. Len(puts) # 0
    BY <1>4, <1>10
  <2>3. QED
    BY <2>1, <2>2
<1> HIDE DEF todo
<1>12. /\ \A i \in Queued \ {1} : i - 1 \in Queued' /\ jobs'[i - 1] = jobs[i]
       /\ \A i \in Queued' : \/ i + 1 \in Queued \ {1} /\ jobs'[i] = jobs[i + 1]
                             \/ i >= Len(jobs) /\ jobs'[i] \in T
       /\ \A m \in 1..Len(todo) : /\ Len(jobs) - 1 + m \in Queued'
                                  /\ jobs'[Len(jobs) - 1 + m] = todo[m]
  BY <1>1, <1>10, <1>11, Pop
<1>13. job.row.product = p =>
         \E i \in Queued' : Inserts(jobs'[i], p) /\ jobs'[i].row = job.row
  <2> DEFINE n == Len(jobs) - 1 + Len(puts)
  <2>1. n \in Queued' /\ jobs'[n] = InsertOf(job.row, job)
    BY <1>4, <1>11, <1>12
  <2> HIDE DEF n
  <2>2. QED
    BY <1>6, <1>7, <2>1 DEF Inserts
<1>14. QED
  BY <1>3, <1>8, <1>12, <1>13

LEMMA MenuCarriedNext ==
    ASSUME QInv, OneRowEach, VendorInv, ScreenInv, Operations, screen = "menu",
           NEW p, MenuCarried(p)
    PROVE  (MenuCarried(p)' \/ MenuSettled(p)') /\ list' = list
<1> DEFINE job == jobs[1]
<1>1. /\ jobs # << >> /\ jobs \in Seq(Jobs) /\ 1 \in Queued
      /\ job \in ScreenJobs("menu") /\ job \in Jobs
  BY Heads
<1>2. PICK k \in Queued : Carried(k, p) /\ jobs[k].row.qty = list[p]
  BY DEF MenuCarried
<1>3. \A i \in Queued : ~Reads(jobs[i])
  BY DEF MenuCarried
<1>4. CASE k # 1
  <2>1. ~Carries(job, p) /\ job.op \notin {"insert", "all"} /\ ~Reads(job)
    <3>1. k > 1
      BY <1>2, <1>4 DEF Queued
    <3>2. QED
      BY <1>1, <1>2, <1>3, <1>4, <3>1 DEF Carried
  <2>2. /\ \E todo \in Seq(Quiet(p)) : Then(todo)
        /\ Stored(p)' = Stored(p) /\ list' = list
    BY <2>1, InnocentStep
  <2>3. PICK todo \in Seq(Quiet(p)) : Then(todo)
    BY <2>2
  <2>4. \A j \in Quiet(p) : ~Carries(j, p) /\ j.op # "insert" /\ ~Reads(j)
    BY DEF Quiet
  <2>5. k - 1 \in Queued' /\ jobs'[k - 1] = jobs[k] /\ Carried(k - 1, p)'
    BY <1>1, <1>2, <1>4, <2>2, <2>3, <2>4, CarriedPop
  <2>6. \A i \in Queued' : \/ i + 1 \in Queued \ {1} /\ jobs'[i] = jobs[i + 1]
                           \/ i >= Len(jobs) /\ jobs'[i] \in Quiet(p)
    BY <1>1, <2>3, Pop
  <2>7. \A i \in Queued' : ~Reads(jobs'[i])
    BY <1>3, <2>4, <2>6
  <2>8. QED
    BY <1>2, <2>2, <2>5, <2>7 DEF MenuCarried, Reads
<1>5. CASE k = 1
  <2>0. Carried(1, p) /\ job.row.qty = list[p] /\ Carries(job, p)
    BY <1>2, <1>5 DEF Carried
  <2>1. CASE job.op = "find"
    <3>1. /\ \E i \in Queued' : Carried(i, p)' /\ jobs'[i].row = job.row
          /\ \A i \in Queued' : Reads(jobs'[i]) => i + 1 \in Queued /\ Reads(jobs[i + 1])
          /\ list' = list
      BY <2>0, <2>1, OwnNext
    <3>2. \A i \in Queued' : ~Reads(jobs'[i])
      BY <1>3, <3>1
    <3>3. QED
      BY <2>0, <3>1, <3>2 DEF MenuCarried, Reads
  <2>2. CASE job.op \in {"update", "delete"}
    <3>1. /\ Settled(p)' /\ list' = list
          /\ \A i \in Queued' : ~Inserts(jobs'[i], p)
          /\ \A i \in Queued' : ~Reads(jobs'[i]) \/ (i + 1 \in Queued /\ Reads(jobs[i + 1]))
          /\ job.op = "update" => Stored(p)' = {job.row}
          /\ job.op # "update" => Stored(p)' = {}
      BY <2>0, <2>2, OwnNext
    <3>2. \A i \in Queued' : ~Reads(jobs'[i])
      BY <1>3, <3>1
    <3>3. \A r \in Stored(p)' : r.qty = list'[p]
      BY <2>0, <3>1
    <3>4. Stored(p)' = {} => list'[p] = 0
      BY <1>1, <2>0, <2>2, <3>1 DEF ScreenJobs
    <3>5. QED
      BY <3>1, <3>2, <3>3, <3>4 DEF MenuSettled, Reads, Inserts
  <2>3. CASE job.op = "all"
    <3>1. Stored(p) = {} /\ job.row.product = p
      BY <2>0, <2>3 DEF Carried, Carries, Writes
    <3>2. /\ UNCHANGED <<table, list>>
          /\ \A i \in Queued' :
                \/ i + 1 \in Queued \ {1} /\ jobs'[i] = jobs[i + 1]
                \/ /\ ~Carries(jobs'[i], p) /\ ~Reads(jobs'[i])
                   /\ Inserts(jobs'[i], p) => \/ jobs'[i].row \in Stored(p)
                                              \/ jobs'[i].row = job.row
          /\ \E i \in Queued' : Inserts(jobs'[i], p) /\ jobs'[i].row = job.row
      BY <2>3, <3>1, AllNext
    <3>3. \A i \in Queued' : ~Carries(jobs'[i], p) /\ ~Reads(jobs'[i])
      BY <1>3, <2>0, <3>2 DEF Carried
    <3>4. \A i \in Queued' : Inserts(jobs'[i], p) => jobs'[i].row.qty = list'[p]
      <4>1. \A i \in Queued : ~Inserts(jobs[i], p)
        BY <2>0 DEF Carried, Inserts
      <4>2. QED
        BY <2>0, <3>1, <3>2, <4>1
    <3>5. Stored(p)' = {}
      BY <3>1, <3>2 DEF Stored
    <3>6. QED
      BY <3>2, <3>3, <3>4, <3>5 DEF MenuSettled, Settled, Reads, Inserts
  <2>4. QED
    BY <1>1, <2>0, <2>1, <2>2, <2>3 DEF Carries, Writes, ScreenJobs
<1>6. QED
  BY <1>4, <1>5

LEMMA InsertNext ==
    ASSUME QInv, VendorInv, ScreenInv, Operations, screen \in {"menu", "cart"},
           NEW p, jobs[1].op = "insert"
    PROVE  /\ list' = list
           /\ \A i \in Queued \ {1} : i - 1 \in Queued' /\ jobs'[i - 1] = jobs[i]
           /\ \A i \in Queued' : i + 1 \in Queued \ {1} /\ jobs'[i] = jobs[i + 1]
           /\ Inserts(jobs[1], p) => Stored(p)' = {jobs[1].row}
           /\ ~Inserts(jobs[1], p) => Stored(p)' = Stored(p)
<1>1. jobs # << >> /\ jobs \in Seq(Jobs)
  BY Heads
<1>2. Insert
  BY DEF Operations, Find, All, Evict, Update, Delete, Clear,
         ReadCart, ReadMenu, Count, Runs
<1>3. /\ table' = (table \ Stored(jobs[1].row.product)) \union {jobs[1].row}
      /\ Then(<< >>) /\ list' = list
  BY <1>2 DEF Insert, Inserted
<1>4. /\ Inserts(jobs[1], p) => Stored(p)' = {jobs[1].row}
      /\ ~Inserts(jobs[1], p) => Stored(p)' = Stored(p)
  BY <1>3 DEF Inserts, Stored
<1>5. QED
  BY <1>1, <1>3, <1>4, PopNone

LEMMA MenuSettledNext ==
    ASSUME QInv, OneRowEach, VendorInv, ScreenInv, Operations, screen = "menu",
           NEW p, MenuSettled(p)
    PROVE  MenuSettled(p)' /\ list' = list
<1> DEFINE job == jobs[1]
<1>1. jobs # << >> /\ jobs \in Seq(Jobs) /\ 1 \in Queued
  BY Heads
<1>2. /\ \A i \in Queued : ~Carries(jobs[i], p) /\ ~Reads(jobs[i])
      /\ \A r \in Stored(p) : r.qty = list[p]
      /\ \A i \in Queued : Inserts(jobs[i], p) => jobs[i].row.qty = list[p]
      /\ Stored(p) = {} /\ list[p] # 0 => \E i \in Queued : Inserts(jobs[i], p)
  BY DEF MenuSettled, Settled
(* What is left of the queue keeps the insertions that are not the head.   *)
<1>3. ASSUME list' = list,
             \A i \in Queued \ {1} : i - 1 \in Queued' /\ jobs'[i - 1] = jobs[i],
             \A i \in Queued' : \/ i + 1 \in Queued \ {1} /\ jobs'[i] = jobs[i + 1]
                                \/ /\ ~Carries(jobs'[i], p) /\ ~Reads(jobs'[i])
                                   /\ Inserts(jobs'[i], p) => jobs'[i].row.qty = list[p],
             \A r \in Stored(p)' : r.qty = list[p],
             Stored(p)' = {} => Stored(p) = {} /\ ~Inserts(job, p)
      PROVE  MenuSettled(p)' /\ list' = list
  <2>1. \A i \in Queued' : ~Carries(jobs'[i], p) /\ ~Reads(jobs'[i])
    BY <1>2, <1>3
  <2>2. \A i \in Queued' : Inserts(jobs'[i], p) => jobs'[i].row.qty = list[p]
    BY <1>2, <1>3
  <2>3. Stored(p)' = {} /\ list[p] # 0 => \E i \in Queued' : Inserts(jobs'[i], p)
    BY <1>2, <1>3
  <2>4. QED
    BY <1>3, <2>1, <2>2, <2>3 DEF MenuSettled, Settled, Reads, Inserts
<1>4. CASE job.op = "insert"
  <2>1. /\ list' = list
        /\ \A i \in Queued \ {1} : i - 1 \in Queued' /\ jobs'[i - 1] = jobs[i]
        /\ \A i \in Queued' : i + 1 \in Queued \ {1} /\ jobs'[i] = jobs[i + 1]
        /\ Inserts(job, p) => Stored(p)' = {job.row}
        /\ ~Inserts(job, p) => Stored(p)' = Stored(p)
    BY <1>4, InsertNext
  <2>2. \A r \in Stored(p)' : r.qty = list[p]
    BY <1>1, <1>2, <2>1
  <2>3. Stored(p)' = {} => Stored(p) = {} /\ ~Inserts(job, p)
    BY <2>1
  <2>4. QED
    BY <1>3, <2>1, <2>2, <2>3
<1>5. CASE job.op = "all"
  <2>1. job.row.product # p
    BY <1>1, <1>2, <1>5 DEF Carries, Writes
  <2>2. /\ UNCHANGED <<table, list>>
        /\ \A i \in Queued \ {1} : i - 1 \in Queued' /\ jobs'[i - 1] = jobs[i]
        /\ \A i \in Queued' :
             \/ i + 1 \in Queued \ {1} /\ jobs'[i] = jobs[i + 1]
             \/ /\ ~Carries(jobs'[i], p) /\ ~Reads(jobs'[i])
                /\ Inserts(jobs'[i], p) => \/ jobs'[i].row \in Stored(p)
                                           \/ jobs'[i].row = job.row
    BY <1>5, AllNext
  <2>3. Stored(p)' = Stored(p) /\ ~Inserts(job, p)
    BY <1>5, <2>2 DEF Stored, Inserts
  <2>4. \A i \in Queued' : \/ i + 1 \in Queued \ {1} /\ jobs'[i] = jobs[i + 1]
                           \/ /\ ~Carries(jobs'[i], p) /\ ~Reads(jobs'[i])
                              /\ Inserts(jobs'[i], p) => jobs'[i].row.qty = list[p]
    BY <1>2, <2>1, <2>2 DEF Inserts
  <2>5. QED
    BY <1>2, <1>3, <2>2, <2>3, <2>4
<1>6. CASE job.op \notin {"insert", "all"}
  <2>1. /\ \E todo \in Seq(Quiet(p)) : Then(todo)
        /\ Stored(p)' = Stored(p) /\ list' = list
    BY <1>1, <1>2, <1>6, InnocentStep
  <2>2. PICK todo \in Seq(Quiet(p)) : Then(todo)
    BY <2>1
  <2>3. /\ \A i \in Queued \ {1} : i - 1 \in Queued' /\ jobs'[i - 1] = jobs[i]
        /\ \A i \in Queued' : \/ i + 1 \in Queued \ {1} /\ jobs'[i] = jobs[i + 1]
                              \/ i >= Len(jobs) /\ jobs'[i] \in Quiet(p)
    BY <1>1, <2>2, Pop
  <2>4. \A j \in Quiet(p) : ~Carries(j, p) /\ ~Inserts(j, p) /\ ~Reads(j)
    BY DEF Quiet, Inserts
  <2>5. ~Inserts(job, p)
    BY <1>6 DEF Inserts
  <2>6. \A i \in Queued' : \/ i + 1 \in Queued \ {1} /\ jobs'[i] = jobs[i + 1]
                           \/ /\ ~Carries(jobs'[i], p) /\ ~Reads(jobs'[i])
                              /\ Inserts(jobs'[i], p) => jobs'[i].row.qty = list[p]
    BY <2>3, <2>4
  <2>7. QED
    BY <1>2, <1>3, <2>1, <2>3, <2>5, <2>6
<1>7. QED
  BY <1>4, <1>5, <1>6

LEMMA CartCarriedNext ==
    ASSUME QInv, OneRowEach, VendorInv, ScreenInv, Operations, screen = "cart",
           NEW p, CartCarried(p)
    PROVE  CartCarried(p)' \/ CartSettled(p)'
<1> DEFINE job == jobs[1]
<1>1. /\ jobs # << >> /\ jobs \in Seq(Jobs) /\ 1 \in Queued
      /\ job \in ScreenJobs("cart") /\ job \in Jobs
  BY Heads
<1>2. PICK k \in Queued : /\ Carried(k, p) /\ jobs[k].op # "all"
                          /\ jobs[k].op = "find" => Stored(p) # {}
                          /\ \/ jobs[k].op \in {"find", "update"} /\ jobs[k].from = "cart"
                             \/ \E i \in Queued : k < i /\ Reads(jobs[i])
  BY DEF CartCarried
<1>3. CASE k # 1
  <2>0. k > 1 /\ k \in Int
    BY <1>2, <1>3 DEF Queued
  <2>1. ~Carries(job, p) /\ job.op \notin {"insert", "all"}
    BY <1>1, <1>2, <1>3, <2>0 DEF Carried
  <2>2. /\ \E todo \in Seq(Quiet(p)) : Then(todo)
        /\ Stored(p)' = Stored(p)
    BY <2>1, InnocentStep
  <2>3. PICK todo \in Seq(Quiet(p)) : Then(todo)
    BY <2>2
  <2>4. \A j \in Quiet(p) : ~Carries(j, p) /\ j.op # "insert"
    BY DEF Quiet
  <2>5. k - 1 \in Queued' /\ jobs'[k - 1] = jobs[k] /\ Carried(k - 1, p)'
    BY <1>1, <1>2, <1>3, <2>2, <2>3, <2>4, CarriedPop
  <2>6. \A i \in Queued \ {1} : i - 1 \in Queued' /\ jobs'[i - 1] = jobs[i]
    BY <1>1, <2>3, Pop
  <2>7. ASSUME NEW i \in Queued, k < i, Reads(jobs[i])
        PROVE  \E m \in Queued' : k - 1 < m /\ Reads(jobs'[m])
    <3>1. i \in Int /\ i # 1 /\ k - 1 < i - 1
      BY <2>0, <2>7 DEF Queued
    <3>2. QED
      BY <2>6, <2>7, <3>1
  <2>8. QED
    BY <1>2, <2>2, <2>5, <2>7 DEF CartCarried, Reads
<1>4. CASE k = 1
  <2>0. Carried(1, p) /\ Carries(job, p)
    BY <1>2, <1>4 DEF Carried
  <2>1. CASE job.op = "find"
    <3>1. /\ \E i \in Queued' : Carried(i, p)' /\ jobs'[i].from = job.from
                                /\ jobs'[i].op = "update"
          /\ UNCHANGED table
      BY <1>2, <1>4, <2>0, <2>1, OwnNext
    <3>2. job.from = "cart"
      BY <1>1, <2>1 DEF ScreenJobs
    <3>3. QED
      BY <3>1, <3>2 DEF CartCarried
  <2>2. CASE job.op \in {"update", "delete", "clear"}
    <3>1. /\ Settled(p)'
          /\ \A i \in Queued' : ~Inserts(jobs'[i], p)
          /\ \A i \in Queued \ {1} : i - 1 \in Queued' /\ jobs'[i - 1] = jobs[i]
          /\ job.op = "update" /\ job.from = "cart" => \E i \in Queued' : Reads(jobs'[i])
      BY <2>0, <2>2, OwnNext
    <3>2. \E i \in Queued' : Reads(jobs'[i])
      <4>1. CASE job.op = "update" /\ job.from = "cart"
        BY <3>1, <4>1
      <4>2. CASE ~(job.op = "update" /\ job.from = "cart")
        <5>1. PICK i \in Queued : 1 < i /\ Reads(jobs[i])
          BY <1>2, <1>4, <2>2, <4>2
        <5>2. QED
          BY <3>1, <5>1
      <4>3. QED
        BY <4>1, <4>2
    <3>3. QED
      BY <3>1, <3>2 DEF CartSettled, Reads, Inserts
  <2>3. QED
    BY <1>2, <1>4, <2>0, <2>1, <2>2 DEF Carries, Writes
<1>5. QED
  BY <1>3, <1>4

LEMMA CartSettledNext ==
    ASSUME QInv, OneRowEach, VendorInv, ScreenInv, Operations, screen = "cart",
           NEW p, CartSettled(p)
    PROVE  CartSettled(p)'
<1> DEFINE job == jobs[1]
<1>1. jobs # << >> /\ jobs \in Seq(Jobs) /\ 1 \in Queued
  BY Heads
<1>2. /\ \A i \in Queued : ~Carries(jobs[i], p)
      /\ \A i \in Queued : Inserts(jobs[i], p) =>
                             /\ Stored(p) # {}
                             /\ \A r \in Stored(p) : r.qty = jobs[i].row.qty
      /\ Synced(p) \/ \E i \in Queued : Reads(jobs[i])
  BY DEF CartSettled, Settled
<1>3. ASSUME \A i \in Queued \ {1} : i - 1 \in Queued' /\ jobs'[i - 1] = jobs[i],
             \A i \in Queued' : \/ i + 1 \in Queued \ {1} /\ jobs'[i] = jobs[i + 1]
                                \/ /\ ~Carries(jobs'[i], p)
                                   /\ Inserts(jobs'[i], p) => jobs'[i].row \in Stored(p),
             \/ Stored(p)' = Stored(p)
             \/ /\ Stored(p) # {} /\ Stored(p)' # {}
                /\ \A r \in Stored(p), s \in Stored(p)' : r.qty = s.qty,
             Reads(job) => Synced(p)',
             ~Reads(job) => list' = list
      PROVE  CartSettled(p)'
  <2>1. \A i \in Queued' : ~Carries(jobs'[i], p)
    BY <1>2, <1>3
  <2>2. ASSUME NEW i \in Queued', Inserts(jobs'[i], p)
        PROVE  /\ Stored(p)' # {}
               /\ \A r \in Stored(p)' : r.qty = jobs'[i].row.qty
    <3>1. CASE i + 1 \in Queued \ {1} /\ jobs'[i] = jobs[i + 1]
      <4>1. Stored(p) # {} /\ \A r \in Stored(p) : r.qty = jobs'[i].row.qty
        BY <1>2, <2>2, <3>1
      <4>2. QED
        BY <1>3, <4>1
    <3>2. CASE jobs'[i].row \in Stored(p)
      <4>1. \A r \in Stored(p) : r.qty = jobs'[i].row.qty
        BY <3>2, OneStored
      <4>2. QED
        BY <1>3, <3>2, <4>1
    <3>3. QED
      BY <1>3, <2>2, <3>1, <3>2
  <2>3. Synced(p)' \/ \E i \in Queued' : Reads(jobs'[i])
    <3>1. CASE Reads(job)
      BY <1>3, <3>1
    <3>2. CASE ~Reads(job) /\ Synced(p)
      BY <1>3, <3>2 DEF Synced
    <3>3. CASE ~Reads(job) /\ ~Synced(p)
      <4>1. PICK i \in Queued \ {1} : Reads(jobs[i])
        BY <1>2, <3>3
      <4>2. QED
        BY <1>3, <4>1
    <3>4. QED
      BY <3>1, <3>2, <3>3
  <2>4. QED
    BY <2>1, <2>2, <2>3 DEF CartSettled, Settled, Reads, Inserts
<1>4. CASE job.op = "insert"
  <2>1. /\ list' = list
        /\ \A i \in Queued \ {1} : i - 1 \in Queued' /\ jobs'[i - 1] = jobs[i]
        /\ \A i \in Queued' : i + 1 \in Queued \ {1} /\ jobs'[i] = jobs[i + 1]
        /\ Inserts(job, p) => Stored(p)' = {job.row}
        /\ ~Inserts(job, p) => Stored(p)' = Stored(p)
    BY <1>4, InsertNext
  <2>2. ~Reads(job)
    BY <1>4 DEF Reads
  <2>3. \/ Stored(p)' = Stored(p)
        \/ /\ Stored(p) # {} /\ Stored(p)' # {}
           /\ \A r \in Stored(p), s \in Stored(p)' : r.qty = s.qty
    BY <1>1, <1>2, <2>1
  <2>4. QED
    BY <1>3, <2>1, <2>2, <2>3
<1>5. CASE job.op = "all"
  <2>1. job.row.product # p /\ ~Reads(job)
    BY <1>1, <1>2, <1>5 DEF Carries, Writes, Reads
  <2>2. /\ UNCHANGED <<table, list>>
        /\ \A i \in Queued \ {1} : i - 1 \in Queued' /\ jobs'[i - 1] = jobs[i]
        /\ \A i \in Queued' :
             \/ i + 1 \in Queued \ {1} /\ jobs'[i] = jobs[i + 1]
             \/ /\ ~Carries(jobs'[i], p) /\ ~Reads(jobs'[i])
                /\ Inserts(jobs'[i], p) => \/ jobs'[i].row \in Stored(p)
                                           \/ jobs'[i].row = job.row
    BY <1>5, AllNext
  <2>3. Stored(p)' = Stored(p)
    BY <2>2 DEF Stored
  <2>4. \A i \in Queued' : \/ i + 1 \in Queued \ {1} /\ jobs'[i] = jobs[i + 1]
                           \/ /\ ~Carries(jobs'[i], p)
                              /\ Inserts(jobs'[i], p) => jobs'[i].row \in Stored(p)
    BY <2>1, <2>2 DEF Inserts
  <2>5. QED
    BY <1>3, <2>1, <2>2, <2>3, <2>4
<1>6. CASE job.op \notin {"insert", "all"}
  <2>1. /\ \E todo \in Seq(Quiet(p)) : Then(todo)
        /\ Stored(p)' = Stored(p)
        /\ ~Reads(job) => list' = list
        /\ Reads(job) => ReadCart /\ job.live
    BY <1>1, <1>2, <1>6, InnocentStep
  <2>2. PICK todo \in Seq(Quiet(p)) : Then(todo)
    BY <2>1
  <2>3. /\ \A i \in Queued \ {1} : i - 1 \in Queued' /\ jobs'[i - 1] = jobs[i]
        /\ \A i \in Queued' : \/ i + 1 \in Queued \ {1} /\ jobs'[i] = jobs[i + 1]
                              \/ i >= Len(jobs) /\ jobs'[i] \in Quiet(p)
    BY <1>1, <2>2, Pop
  <2>4. \A j \in Quiet(p) : ~Carries(j, p) /\ ~Inserts(j, p)
    BY DEF Quiet, Inserts
  <2>5. Reads(job) => Synced(p)'
    <3>1. SUFFICES ASSUME ReadCart, job.live PROVE Synced(p)'
      BY <2>1
    <3>2. list' = [x \in {r.product : r \in table} |-> StoredQty(x)]
      BY <3>1 DEF ReadCart
    <3>3. DOMAIN list' = {r.product : r \in table}
      BY <3>2
    <3>4. p \in DOMAIN list' <=> Stored(p) # {}
      BY <3>3 DEF Stored
    <3>5. \A r \in Stored(p) : list'[p] = r.qty
      BY <3>2, <3>3, <3>4, OneStored
    <3>6. QED
      BY <2>1, <3>4, <3>5 DEF Synced
  <2>6. \A i \in Queued' : \/ i + 1 \in Queued \ {1} /\ jobs'[i] = jobs[i + 1]
                           \/ /\ ~Carries(jobs'[i], p)
                              /\ Inserts(jobs'[i], p) => jobs'[i].row \in Stored(p)
    BY <2>3, <2>4
  <2>7. QED
    BY <1>3, <2>1, <2>3, <2>5, <2>6
<1>7. QED
  BY <1>4, <1>5, <1>6

LEMMA OperationsKeepShown ==
    ASSUME QInv, OneRowEach, VendorInv, ScreenInv, ShownInv, Operations
    PROVE  ShownInv'
<1>1. UNCHANGED screen
  BY DEF Operations, Find, All, Insert, Evict, Update, Delete, Clear,
         ReadCart, ReadMenu, Count
<1>2. CASE screen = "menu"
  <2>1. ASSUME NEW p \in DOMAIN list \ HurriedTaps
        PROVE  /\ MenuCarried(p)' \/ MenuSettled(p)'
               /\ DOMAIN list' = DOMAIN list
    <3>1. CASE Fresh(p)
      BY <1>2, <3>1, FreshNext
    <3>2. CASE MenuCarried(p)
      BY <1>2, <3>2, MenuCarriedNext
    <3>3. CASE MenuSettled(p)
      BY <1>2, <3>3, MenuSettledNext
    <3>4. QED
      BY <1>2, <3>1, <3>2, <3>3 DEF ShownInv
  <2>2. DOMAIN list' = DOMAIN list
    <3>1. jobs[1].from # "cart"
      BY <1>2, Heads DEF ScreenJobs
    <3>2. QED
      BY <3>1 DEF Operations, Find, All, Insert, Evict, Update, Delete, Clear,
                  ReadCart, ReadMenu, Count
  <2>3. QED
    BY <1>1, <1>2, <2>1, <2>2 DEF ShownInv
<1>3. CASE screen = "cart"
  <2>1. ASSUME NEW p \in Products \ HurriedTaps
        PROVE  CartCarried(p)' \/ CartSettled(p)'
    BY <1>3, CartCarriedNext, CartSettledNext DEF ShownInv
  <2>2. QED
    BY <1>1, <1>3, <2>1 DEF ShownInv
<1>4. QED
  BY <1>1, <1>2, <1>3 DEF ShownInv

(* ShownIsStored: when the queue is empty, the listing and the cart screen *)
(* show the stored quantity of every product not tapped in a hurry, for    *)
(* any products tapped in a hurry - if no screen is left while operations  *)
(* are queued, sessions do not expire, the app is not killed, and "Clear   *)
(* Cart" waits for the queue like a careful tap (in a hurry it may come    *)
(* between a chain's looking for its row and its inserting every row).     *)
THEOREM ShownKept ==
    Unhurried /\ "clear" \notin HurriedTaps => (Spec => []ShownIsStored)
<1> SUFFICES ASSUME Unhurried, "clear" \notin HurriedTaps PROVE Spec => []ShownIsStored
  OBVIOUS
<1>1. Init => ScreenInv /\ ShownInv
  <2> SUFFICES ASSUME Init PROVE ScreenInv /\ ShownInv
    OBVIOUS
  <2> DEFINE read == Job("read", NoRow, "menu")
  <2>1. /\ read \in ScreenJobs("menu") /\ read.op = "read"
        /\ screen = "menu" /\ jobs = <<read>>
        /\ \A p \in DOMAIN list : list[p] = 0
    BY DEF Init, Job, Jobs, Ops, ScreenJobs
  <2> HIDE DEF read
  <2>2. jobs # << >> /\ jobs[1] = read /\ Queued = 1..1
    BY <2>1 DEF Queued
  <2>3. \A i \in Queued : i = 1
    BY <2>2
  <2>4. ASSUME NEW p \in DOMAIN list PROVE Fresh(p)
    BY <2>1, <2>2, <2>3 DEF Fresh, Reads, Settled, Carries, Writes
  <2>5. ScreenInv
    BY <2>1 DEF ScreenInv
  <2>6. QED
    BY <2>1, <2>4, <2>5 DEF ShownInv
<1>2. TypeOK => OneRowEach
  BY DEF TypeOK, OneRowEach
<1>3. /\ QInv /\ TypeOK /\ VendorInv
      /\ ScreenInv /\ ShownInv /\ [Next]_vars
      => (ScreenInv /\ ShownInv)'
  <2> SUFFICES ASSUME QInv, TypeOK, VendorInv, ScreenInv, ShownInv, [Next]_vars
               PROVE  (ScreenInv /\ ShownInv)'
    OBVIOUS
  <2>1. CASE Taps
    BY <1>2, <2>1, CartAssumption, TapsKeepScreen, TapsKeepShown
  <2>2. CASE Moves
    BY <2>2, MovesKeepScreen, MovesKeepShown
  <2>3. CASE Operations
    BY <1>2, <2>3, OperationsKeepScreen, OperationsKeepShown
  <2>4. CASE UNCHANGED vars
    BY <2>4 DEF vars, ScreenInv, ShownInv, Fresh, MenuCarried, MenuSettled, Synced,
                CartCarried, CartSettled, Settled, Carried, Carries, Writes, Queued,
                Inserts, Reads, Stored
  <2>5. QED
    BY <2>1, <2>2, <2>3, <2>4 DEF Next
<1>4. TypeOK /\ ShownInv => ShownIsStored
  <2> SUFFICES ASSUME TypeOK, ShownInv, jobs = << >>, NEW p \in Products \ HurriedTaps
               PROVE  /\ screen = "cart" => /\ p \in DOMAIN list <=> Stored(p) # {}
                                            /\ p \in DOMAIN list => list[p] = StoredQty(p)
                      /\ screen = "menu" /\ p \in DOMAIN list => list[p] = StoredQty(p)
    BY DEF ShownIsStored
  <2>1. Queued = {}
    BY DEF Queued
  <2>2. \A r \in Stored(p) : StoredQty(p) = r.qty
    BY <1>2, OneStored
  <2>3. Stored(p) = {} => StoredQty(p) = 0
    BY DEF StoredQty
  <2>4. CASE screen = "cart"
    <3>1. Synced(p)
      BY <2>1, <2>4 DEF ShownInv, CartCarried, CartSettled
    <3>2. QED
      BY <2>2, <2>4, <3>1 DEF Synced
  <2>5. CASE screen = "menu" /\ p \in DOMAIN list
    <3>1. MenuSettled(p)
      BY <2>1, <2>5 DEF ShownInv, Fresh, MenuCarried
    <3>2. CASE Stored(p) = {}
      BY <2>1, <2>3, <2>5, <3>1, <3>2 DEF MenuSettled
    <3>3. CASE Stored(p) # {}
      BY <2>2, <2>5, <3>1, <3>3 DEF MenuSettled
    <3>4. QED
      BY <3>2, <3>3
  <2>6. QED
    BY <2>4, <2>5
<1>5. QED
  BY <1>1, <1>3, <1>4, QuantitiesBounded, TypeCorrect, VendorKept, PTL DEF Spec
=============================================================================
