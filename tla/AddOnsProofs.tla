---------------------------- MODULE AddOnsProofs ----------------------------
(***************************************************************************)
(* A row of the cart has only add-ons of its own menu category, for every  *)
(* menu and every customer.  The row alone is not inductive: add-ons reach *)
(* it from the product shown, from the categories on the screen, from the  *)
(* rows appended to them and from operations in the queue.  A careful      *)
(* customer's product is charged for each of them once.  And every         *)
(* variable has its type, for the customer who is not careful too.         *)
(***************************************************************************)
EXTENDS AddOns, SequenceTheorems, FiniteSetTheorems, WellFoundedInduction, TLAPS

USE AddOnsAssumption, CustomerAssumption

AllRows == UNION {RowsFor(p) : p \in Products}

Tables == {t \in [Products -> AllRows] : \A p \in Products : t[p] \in RowsFor(p)}

(* What an operation writes. *)
Whats ==
    {w \in UNION {[S -> AllRows] : S \in (SUBSET Products) \ {{}}} :
        \A p \in DOMAIN w : w[p] \in RowsFor(p)}

Jobs(lives) ==
    [op: {"cart", "categories", "products"}, what: {Nothing}, live: lives]
        \union [op: {"find", "all", "insert", "update", "delete"}, what: Whats, live: lives]

Mates(p) == {q \in Products : MenuOf[q] = MenuOf[p]}

GroupsFor(p, C) ==
    [type: Types, options: SUBSET OptionsIn(MenuOf[p]), marked: SUBSET OptionsIn(MenuOf[p]), chosen: C]

(* Only the operations of the screen shown are awaited. *)
Lives == IF open = None THEN {FALSE} ELSE BOOLEAN

(* What the screen shows and will append is of the product's category.      *)
ScreenInv ==
    /\ data \in RowsFor(open)
    /\ \E C : groups \in Seq(GroupsFor(open, C))
    /\ menuItems \in Seq(Mates(open))
    /\ due \in Seq(Mates(open))

(* All that a row may come from. *)
Inv ==
    /\ rows \in Tables /\ inCart \in Tables
    /\ open \in Products \union {None}
    /\ open # None => ScreenInv
    /\ open = None => due = <<>> /\ menuItems = <<>>
    /\ jobs \in Seq(Jobs(Lives))

-----------------------------------------------------------------------------
(* Lists of add-ons.                                                        *)

LEMMA OptionsType == ASSUME NEW m PROVE OptionsIn(m) \subseteq Nat
<1>. SUFFICES ASSUME NEW o \in OptionsIn(m) PROVE o \in Nat
  OBVIOUS
<1>1. PICK p \in Products : o \in UNION {Offers[p][i].options : i \in DOMAIN Offers[p]}
  BY DEF OptionsIn
<1>2. PICK i \in DOMAIN Offers[p] : o \in Offers[p][i].options
  BY <1>1
<1>. DEFINE T == [type: Types, options: SUBSET (Nat \ {0})]
<1>3. Offers[p] \in Seq(T)
  OBVIOUS
<1>4. Offers[p][i] \in T
  <2>. HIDE DEF T
  <2>. QED
    BY <1>3
<1>. QED
  BY <1>2, <1>4

LEMMA SeqOf ==
    ASSUME NEW S, NEW n \in Nat, NEW f \in [1..n -> S]
    PROVE  f \in Seq(S) /\ Len(f) = n
  OBVIOUS

(* A list that is not empty has a first option. *)
LEMMA FirstType ==
    ASSUME NEW S \in SUBSET Nat, S # {}
    PROVE  First(S) \in S /\ \A x \in S : First(S) <= x
<1>. DEFINE R == {pair \in Nat \X Nat : pair[1] < pair[2]}
<1>1. IsWellFoundedOn(R, Nat)
  BY NatLessThanWellFounded, Zenon DEF OpToRel
<1>2. PICK x \in S : \A y \in S : ~(<<y, x>> \in R)
  BY <1>1, WFMin
<1>3. \A y \in S : x <= y
  <2>. SUFFICES ASSUME NEW y \in S PROVE x <= y
    OBVIOUS
  <2>1. x \in Nat /\ y \in Nat /\ <<y, x>> \notin R
    BY <1>2
  <2>2. <<y, x>> \in Nat \X Nat /\ <<y, x>>[1] = y /\ <<y, x>>[2] = x
    BY <2>1
  <2>3. ~(y < x)
    BY <2>1, <2>2, Zenon
  <2>. QED
    BY <2>1, <2>3
<1>. QED
  BY <1>3 DEF First

LEMMA NoRowType == ASSUME NEW p \in Products PROVE NoRow \in RowsFor(p)
  BY EmptySeq DEF NoRow, RowsFor, AddOnLists

LEMMA NoRowsType == NoRows \in Tables
<1>1. \A p \in Products : NoRow \in RowsFor(p) /\ NoRow \in AllRows
  BY NoRowType DEF AllRows
<1>. QED
  BY <1>1 DEF NoRows, Tables

LEMMA OffersType == ASSUME NEW p \in Products PROVE Offers[p] \in AddOnLists(MenuOf[p])
<1>. DEFINE S == [type: Types, options: SUBSET OptionsIn(MenuOf[p])]
<1>1. Offers[p] \in Seq([type: Types, options: SUBSET (Nat \ {0})])
  OBVIOUS
<1>2. \A i \in 1..Len(Offers[p]) : Offers[p][i] \in S
  <2>. SUFFICES ASSUME NEW i \in 1..Len(Offers[p]) PROVE Offers[p][i] \in S
    OBVIOUS
  <2>. DEFINE T == [type: Types, options: SUBSET (Nat \ {0})]
  <2>a. Offers[p] \in Seq(T)
    BY <1>1
  <2>. HIDE DEF T
  <2>b. Offers[p][i] \in T /\ i \in DOMAIN Offers[p]
    BY <2>a
  <2>1. Offers[p][i] \in [type: Types, options: SUBSET (Nat \ {0})] /\ i \in DOMAIN Offers[p]
    BY <2>b DEF T
  <2>2. Offers[p][i].options \subseteq OptionsIn(MenuOf[p])
    BY <2>1 DEF OptionsIn
  <2>. QED
    BY <2>1, <2>2
<1>3. Offers[p] \in [1..Len(Offers[p]) -> S]
  <2>. DEFINE n == Len(Offers[p])
  <2>1. n \in Nat /\ DOMAIN Offers[p] = 1..n /\ Offers[p] = [i \in 1..n |-> Offers[p][i]]
    BY <1>1
  <2>. HIDE DEF S, n
  <2>. QED
    BY <1>2, <2>1
<1>4. Offers[p] \in Seq(S)
  <2>1. Len(Offers[p]) \in Nat
    BY <1>1
  <2>. HIDE DEF S
  <2>. QED
    BY <1>3, <2>1, SeqOf
<1>. QED
  BY <1>4 DEF AddOnLists

LEMMA ListItems ==
    ASSUME NEW m, NEW list \in AddOnLists(m)
    PROVE  /\ Len(list) \in Nat
           /\ \A i \in 1..Len(list) : list[i].type \in Types /\ list[i].options \subseteq OptionsIn(m)
<1>. DEFINE S == [type: Types, options: SUBSET OptionsIn(m)]
<1>1. list \in Seq(S)
  BY DEF AddOnLists
<1>2. Len(list) \in Nat /\ \A i \in 1..Len(list) : list[i] \in S
  <2>. HIDE DEF S
  <2>. QED
    BY <1>1
<1>. QED
  BY <1>2

LEMMA GroupItems ==
    ASSUME NEW p, NEW C, NEW gs \in Seq(GroupsFor(p, C))
    PROVE  Len(gs) \in Nat /\ \A i \in 1..Len(gs) : gs[i] \in GroupsFor(p, C)
  OBVIOUS

LEMMA DecodedType ==
    ASSUME NEW p \in Products, NEW list \in AddOnLists(MenuOf[p])
    PROVE  Decoded(list) \in Seq(GroupsFor(p, {None}))
<1>1. \A i \in 1..Len(list) :
        [type |-> list[i].type, options |-> list[i].options, marked |-> {}, chosen |-> None]
            \in GroupsFor(p, {None})
  BY ListItems DEF GroupsFor
<1>2. Decoded(list) \in [1..Len(list) -> GroupsFor(p, {None})]
  BY <1>1 DEF Decoded
<1>. QED
  BY <1>2, ListItems, SeqOf

LEMMA WholeType ==
    ASSUME NEW p \in Products, NEW C, NEW gs \in Seq(GroupsFor(p, C))
    PROVE  Whole(gs) \in AddOnLists(MenuOf[p])
<1>1. Len(gs) \in Nat /\ \A i \in 1..Len(gs) : gs[i] \in GroupsFor(p, C)
  OBVIOUS
<1>2. \A i \in 1..Len(gs) : [type |-> gs[i].type, options |-> gs[i].options]
        \in [type: Types, options: SUBSET OptionsIn(MenuOf[p])]
  BY <1>1 DEF GroupsFor
<1>. QED
  BY <1>1, <1>2 DEF Whole, AddOnLists

LEMMA SelectionType ==
    ASSUME NEW p \in Products, NEW C, NEW gs \in Seq(GroupsFor(p, C))
    PROVE  Selection(gs) \in AddOnLists(MenuOf[p])
<1>1. Len(gs) \in Nat /\ \A i \in 1..Len(gs) : gs[i] \in GroupsFor(p, C)
  OBVIOUS
<1>2. \A i \in 1..Len(gs) : Selected(gs[i]) \subseteq OptionsIn(MenuOf[p])
  BY <1>1 DEF GroupsFor, Selected
<1>3. \A i \in 1..Len(gs) : [type |-> gs[i].type, options |-> Selected(gs[i])]
        \in [type: Types, options: SUBSET OptionsIn(MenuOf[p])]
  BY <1>1, <1>2 DEF GroupsFor
<1>. QED
  BY <1>1, <1>3 DEF Selection, AddOnLists

LEMMA GroupsWiden ==
    ASSUME NEW p, NEW C, NEW D, NEW gs \in Seq(GroupsFor(p, C)), C \subseteq D
    PROVE  gs \in Seq(GroupsFor(p, D))
<1>1. GroupsFor(p, C) \subseteq GroupsFor(p, D)
  BY DEF GroupsFor
<1>. QED
  BY <1>1

(* Whatever row the preselection is taken from, it selects among what is    *)
(* offered, or picks an option of no category of the screen.                *)
LEMMA ConfiguredType ==
    ASSUME NEW p \in Products, NEW C, NEW gs \in Seq(GroupsFor(p, C)), NEW list, NEW known
    PROVE  \E D : Configured(gs, list, known) \in Seq(GroupsFor(p, D))
<1>. DEFINE first == IF list = <<>> THEN gs[1].options
                     ELSE IF Usable(list) = 0 THEN {} ELSE list[Usable(list)].options
            D == C \union {First(first)}
<1>1. Len(gs) \in Nat /\ \A i \in 1..Len(gs) : gs[i] \in GroupsFor(p, C) /\ gs[i] \in GroupsFor(p, D)
  <2>1. GroupsFor(p, C) \subseteq GroupsFor(p, D)
    BY DEF GroupsFor
  <2>. HIDE DEF D
  <2>. QED
    BY <2>1, GroupItems
<1>2. \A i \in 1..Len(gs) : Preselected(gs[i], gs, list) \in GroupsFor(p, D)
  <2>. SUFFICES ASSUME NEW i \in 1..Len(gs) PROVE Preselected(gs[i], gs, list) \in GroupsFor(p, D)
    OBVIOUS
  <2>1. Picked(gs[i], First(first)) \in GroupsFor(p, D)
    BY <1>1 DEF Picked, GroupsFor
  <2>2. Preselected(gs[i], gs, list) \in {gs[i], Picked(gs[i], First(first))}
    BY Zenon DEF Preselected
  <2>. QED
    BY <1>1, <2>1, <2>2
<1>3. \A i \in 1..Len(gs) : Premarked(gs[i], list, known) \in GroupsFor(p, D)
  <2>. SUFFICES ASSUME NEW i \in 1..Len(gs) PROVE Premarked(gs[i], list, known) \in GroupsFor(p, D)
    OBVIOUS
  <2>. DEFINE matches == IF list = <<>> THEN {} ELSE gs[i].options \cap known
              marks == IF matches = {} THEN {First(gs[i].options)} ELSE matches
  <2>1. CASE gs[i].options = {}
    BY <1>1, <2>1 DEF Premarked
  <2>2. CASE gs[i].options # {}
    <3>1. matches \subseteq gs[i].options
      OBVIOUS
    <3>2. gs[i].options \subseteq OptionsIn(MenuOf[p])
      BY <1>1 DEF GroupsFor
    <3>3. First(gs[i].options) \in gs[i].options
      <4>1. OptionsIn(MenuOf[p]) \subseteq Nat
        BY OptionsType
      <4>. QED
        BY <2>2, <3>2, <4>1, FirstType
    <3>4. marks \subseteq OptionsIn(MenuOf[p])
      BY <3>1, <3>2, <3>3
    <3>5. Premarked(gs[i], list, known) = [gs[i] EXCEPT !.marked = marks]
      BY <2>2 DEF Premarked
    <3>. HIDE DEF matches, marks, first, D
    <3>6. gs[i] \in GroupsFor(p, D)
      BY <1>1
    <3>. QED
      BY <3>4, <3>5, <3>6 DEF GroupsFor
  <2>. QED
    BY <2>1, <2>2
<1>4. Configured(gs, list, known) \in Seq(GroupsFor(p, D))
  <2>. DEFINE G(i) == IF i \notin Reached(gs, list) THEN gs[i]
                      ELSE IF gs[i].type = "multiple" THEN Premarked(gs[i], list, known)
                      ELSE Preselected(gs[i], gs, list)
  <2>1. \A i \in 1..Len(gs) : G(i) \in GroupsFor(p, D)
    BY <1>1, <1>2, <1>3
  <2>2. Configured(gs, list, known) = [i \in 1..Len(gs) |-> G(i)]
    BY DEF Configured
  <2>. HIDE DEF G, D
  <2>3. Configured(gs, list, known) \in [1..Len(gs) -> GroupsFor(p, D)]
    BY <2>1, <2>2
  <2>. QED
    BY <1>1, <2>3, SeqOf
<1>. QED
  BY <1>4

-----------------------------------------------------------------------------
(* Operations.                                                              *)

LEMMA ReadJob ==
    ASSUME NEW op \in {"cart", "categories", "products"}
    PROVE  Job(op, Nothing) \in Jobs(BOOLEAN)
  BY DEF Job, Jobs

LEMMA WhatOf ==
    ASSUME NEW S \in (SUBSET Products) \ {{}}, NEW w, w = [p \in S |-> w[p]],
           \A p \in S : w[p] \in RowsFor(p)
    PROVE  w \in Whats
<1>1. \A p \in S : w[p] \in AllRows
  BY DEF AllRows
<1>2. w \in [S -> AllRows] /\ DOMAIN w = S
  BY <1>1
<1>. QED
  BY <1>2 DEF Whats

LEMMA WriteJob ==
    ASSUME NEW p \in Products, NEW row \in RowsFor(p),
           NEW op \in {"find", "all", "insert", "update", "delete"}
    PROVE  Job(op, One(p, row)) \in Jobs(BOOLEAN)
<1>1. One(p, row) \in Whats
  <2>. DEFINE S == {p}
              w == One(p, row)
  <2>1. S \in (SUBSET Products) \ {{}}
    OBVIOUS
  <2>2. w = [q \in S |-> w[q]] /\ \A q \in S : w[q] \in RowsFor(q)
    BY DEF One
  <2>. HIDE DEF S, w
  <2>3. w \in Whats
    BY <2>1, <2>2, WhatOf
  <2>. QED
    BY <2>3 DEF w
<1>. QED
  BY <1>1 DEF Job, Jobs

LEMMA HeadJob ==
    ASSUME Inv, jobs # <<>>
    PROVE  Head(jobs) \in Jobs(Lives) /\ Tail(jobs) \in Seq(Jobs(Lives))
  BY DEF Inv

LEMMA HeadWrite ==
    ASSUME Inv, NEW op \in {"find", "all", "insert", "update", "delete"}, AtHead(op)
    PROVE  /\ Head(jobs).what \in Whats
           /\ Product \in Products /\ Head(jobs).what[Product] \in RowsFor(Product)
           /\ DOMAIN Head(jobs).what \subseteq Products
           /\ \A p \in DOMAIN Head(jobs).what : Head(jobs).what[p] \in RowsFor(p)
<1>1. Head(jobs).what \in Whats
  BY HeadJob DEF AtHead, Jobs
<1>2. PICK S \in (SUBSET Products) \ {{}} : Head(jobs).what \in [S -> AllRows]
  BY <1>1 DEF Whats
<1>3. DOMAIN Head(jobs).what = S /\ Product \in S
  BY <1>2 DEF Product
<1>. QED
  BY <1>1, <1>2, <1>3 DEF Whats

(* One more row in a table. *)
LEMMA RowStored ==
    ASSUME NEW t \in Tables, NEW p \in Products, NEW row \in RowsFor(p)
    PROVE  [t EXCEPT ![p] = row] \in Tables
<1>1. row \in AllRows
  BY DEF AllRows
<1>. QED
  BY <1>1 DEF Tables

LEMMA ShowInv ==
    ASSUME Inv, open = None, NEW p \in Products, NEW d \in RowsFor(p), Show(p, d)
    PROVE  Inv'
<1>1. p # None /\ open' = p /\ Lives' = BOOLEAN
  BY DEF Show, None, Lives
<1>2. groups' \in Seq(GroupsFor(p, {None}))
  BY DecodedType DEF Show, RowsFor
<1>3. menuItems' = <<>> /\ due' = <<>>
  BY DEF Show, Inv
<1>4. menuItems' \in Seq(Mates(p)) /\ due' \in Seq(Mates(p))
  BY <1>3, EmptySeq
<1>5. ScreenInv'
  BY <1>1, <1>2, <1>4 DEF Show, ScreenInv
<1>6. jobs' \in Seq(Jobs(BOOLEAN))
  <2>. DEFINE a == Job("cart", Nothing)
              b == Job("categories", Nothing)
  <2>1. a \in Jobs(BOOLEAN) /\ b \in Jobs(BOOLEAN) /\ jobs' = <<a, b>>
    BY ReadJob DEF Show
  <2>. HIDE DEF a, b
  <2>. QED
    BY <2>1
<1>. QED
  BY <1>1, <1>5, <1>6 DEF Inv, Show

(* A tap that changes the product shown and saves it. *)
LEMMA SavedInv ==
    ASSUME Inv, open # None, NEW d \in RowsFor(open), data' = d,
           NEW op \in {"find", "all", "insert", "update", "delete"},
           jobs' = Append(jobs, Job(op, One(open, d))),
           UNCHANGED <<rows, open, groups, details, inCart, menuItems, due>>
    PROVE  Inv'
<1>1. open \in Products /\ Lives = BOOLEAN /\ Lives' = BOOLEAN
  BY DEF Inv, Lives
<1>2. jobs' \in Seq(Jobs(BOOLEAN))
  <2>1. Job(op, One(open, d)) \in Jobs(BOOLEAN) /\ jobs \in Seq(Jobs(BOOLEAN))
    BY <1>1, WriteJob DEF Inv
  <2>. QED
    BY <2>1
<1>3. ScreenInv'
  BY DEF Inv, ScreenInv
<1>. QED
  BY <1>1, <1>2, <1>3 DEF Inv

LEMMA InitInv == Init => Inv
<1>. SUFFICES ASSUME Init PROVE Inv
  OBVIOUS
<1>1. rows \in Tables /\ inCart \in Tables
  BY NoRowsType DEF Init
<1>2. jobs \in Seq(Jobs(Lives))
  BY EmptySeq DEF Init
<1>. QED
  BY <1>1, <1>2 DEF Init, Inv

-----------------------------------------------------------------------------
(* The customer and the database.                                           *)

LEMMA CustomerInv == Inv /\ Customer => Inv'
<1>. SUFFICES ASSUME Inv, Customer PROVE Inv'
  OBVIOUS
<1>1. ASSUME NEW p \in Products, OpenFromMenu(p) PROVE Inv'
  <2>. DEFINE d == [qty |-> rows[p].qty, addOns |-> Offers[p]]
  <2>1. rows[p] \in RowsFor(p)
    BY DEF Inv, Tables
  <2>2. d \in RowsFor(p)
    BY <2>1, OffersType DEF RowsFor
  <2>3. open = None /\ Show(p, d)
    BY <1>1 DEF OpenFromMenu
  <2>. QED
    BY <2>2, <2>3, ShowInv
<1>2. ASSUME NEW p \in Products, OpenFromCart(p) PROVE Inv'
  <2>1. rows[p] \in RowsFor(p)
    BY DEF Inv, Tables
  <2>. QED
    BY <1>2, <2>1, ShowInv DEF OpenFromCart
<1>3. ASSUME NEW i \in DOMAIN groups, NEW o \in groups[i].options, Choose(i, o) PROVE Inv'
  <2>1. open # None /\ open \in Products /\ open' = open
    BY <1>3 DEF Choose, MayTap, Inv
  <2>2. PICK C : groups \in Seq(GroupsFor(open, C))
    BY <2>1 DEF Inv, ScreenInv
  <2>. DEFINE D == C \union {o}
              g == IF groups[i].type = "multiple" THEN Marked(groups[i], o) ELSE Picked(groups[i], o)
  <2>3. groups \in Seq(GroupsFor(open, D))
    BY <2>2, GroupsWiden
  <2>4. g \in GroupsFor(open, D)
    <3>1. groups[i] \in GroupsFor(open, C)
      BY <2>2
    <3>2. groups[i].options \subseteq OptionsIn(MenuOf[open])
          /\ groups[i].marked \subseteq OptionsIn(MenuOf[open])
      BY <3>1 DEF GroupsFor
    <3>3. (groups[i].marked \ {o}) \union ({o} \ groups[i].marked) \subseteq OptionsIn(MenuOf[open])
      BY <3>2
    <3>4. Marked(groups[i], o) \in GroupsFor(open, D)
      BY <3>1, <3>3 DEF Marked, GroupsFor
    <3>5. Picked(groups[i], o) \in GroupsFor(open, D)
      BY <3>1 DEF Picked, GroupsFor
    <3>. QED
      BY <3>4, <3>5
  <2>5. groups' = [groups EXCEPT ![i] = g]
    BY <1>3 DEF Choose
  <2>6. groups' \in Seq(GroupsFor(open, D))
    <3>. HIDE DEF D, g
    <3>. QED
      BY <2>3, <2>4, <2>5
  <2>7. data' \in RowsFor(open)
    <3>1. data \in RowsFor(open) /\ Whole(groups) \in AddOnLists(MenuOf[open])
      BY <2>1, <2>2, WholeType DEF Inv, ScreenInv
    <3>2. data' = [data EXCEPT !.addOns = Whole(groups)]
      BY <1>3 DEF Choose
    <3>. QED
      BY <3>1, <3>2 DEF RowsFor
  <2>8. UNCHANGED <<rows, jobs, open, inCart, menuItems, due>>
    BY <1>3 DEF Choose
  <2>9. ScreenInv'
    BY <2>1, <2>6, <2>7, <2>8 DEF Inv, ScreenInv
  <2>. QED
    BY <2>1, <2>8, <2>9 DEF Inv, Lives
<1>4. CASE Plus
  <2>1. open # None /\ open \in Products
    BY <1>4 DEF Plus, MayTap, Inv
  <2>2. PICK C : groups \in Seq(GroupsFor(open, C))
    BY <2>1 DEF Inv, ScreenInv
  <2>3. Selection(groups) \in AddOnLists(MenuOf[open]) /\ data \in RowsFor(open)
    BY <2>1, <2>2, SelectionType DEF Inv, ScreenInv
  <2>4. data' \in RowsFor(open)
    BY <1>4, <2>3 DEF Plus, RowsFor
  <2>. QED
    BY <1>4, <2>1, <2>4, SavedInv DEF Plus
<1>5. CASE Minus
  <2>1. open # None /\ data \in RowsFor(open) /\ data.qty > 0
    BY <1>5 DEF Minus, MayTap, Inv, ScreenInv
  <2>2. data' \in RowsFor(open)
    <3>1. data' = [data EXCEPT !.qty = data.qty - 1]
      BY <1>5 DEF Minus
    <3>2. \A d \in RowsFor(open) : d.qty > 0 => [d EXCEPT !.qty = d.qty - 1] \in RowsFor(open)
      BY DEF RowsFor
    <3>. QED
      BY <2>1, <3>1, <3>2
  <2>. QED
    BY <1>5, <2>1, <2>2, SavedInv DEF Minus
<1>6. CASE Leave
  <2>1. open # None /\ open' = None /\ due = <<>> /\ due' = <<>> /\ menuItems' = <<>> /\ rows' = rows
    BY <1>6 DEF Leave, Idle
  <2>2. inCart' \in Tables
    BY <1>6, NoRowsType DEF Leave
  <2>3. jobs \in Seq(Jobs(BOOLEAN)) /\ Lives' = {FALSE}
    BY <2>1 DEF Inv, Lives
  <2>4. jobs' \in Seq(Jobs({FALSE}))
    <3>1. Len(jobs) \in Nat /\ \A i \in 1..Len(jobs) : jobs[i] \in Jobs(BOOLEAN)
      BY <2>3
    <3>2. \A i \in 1..Len(jobs) : [jobs[i] EXCEPT !.live = FALSE] \in Jobs({FALSE})
      BY <3>1 DEF Jobs
    <3>3. jobs' \in [1..Len(jobs) -> Jobs({FALSE})]
      BY <1>6, <3>2 DEF Leave
    <3>. QED
      BY <3>1, <3>3, SeqOf
  <2>. QED
    BY <2>1, <2>2, <2>3, <2>4 DEF Inv
<1>. QED
  BY <1>1, <1>2, <1>3, <1>4, <1>5, <1>6 DEF Customer

(* An operation that only reads, and may issue others. *)
LEMMA ThenInv ==
    ASSUME Inv, NEW op, NEW more \in Seq(Jobs(Lives)), Then(op, more),
           UNCHANGED <<rows, open, screen, due>>
    PROVE  Inv'
<1>1. jobs' \in Seq(Jobs(Lives)) /\ Lives' = Lives
  BY HeadJob DEF Then, AtHead, Lives
<1>2. ScreenInv' = ScreenInv
  BY DEF ScreenInv, screen
<1>. QED
  BY <1>1, <1>2 DEF Inv, screen

(* A write. *)
LEMMA WriteInv ==
    ASSUME Inv, NEW op, Runs(op), rows' \in Tables, UNCHANGED <<open, screen, due>>
    PROVE  Inv'
<1>1. jobs' \in Seq(Jobs(Lives)) /\ Lives' = Lives
  BY HeadJob DEF Runs, AtHead, Lives
<1>2. ScreenInv' = ScreenInv
  BY DEF ScreenInv, screen
<1>. QED
  BY <1>1, <1>2 DEF Inv, screen

LEMMA LiveIsShown ==
    ASSUME Inv, Live
    PROVE  open # None /\ open \in Products /\ Lives = BOOLEAN /\ ScreenInv
<1>1. Head(jobs) \in Jobs(Lives)
  BY HeadJob DEF Live
<1>2. Head(jobs).live \in Lives
  BY <1>1 DEF Jobs
<1>. QED
  BY <1>2 DEF Live, Lives, Inv

LEMMA DatabaseInv == Inv /\ Database => Inv'
<1>. SUFFICES ASSUME Inv, Database PROVE Inv'
  OBVIOUS
<1>1. CASE GetCartData
  <2>1. open # None /\ open \in Products /\ Lives = BOOLEAN /\ ScreenInv
    BY <1>1, LiveIsShown DEF GetCartData
  <2>2. PICK C : groups \in Seq(GroupsFor(open, C))
    BY <2>1 DEF ScreenInv
  <2>3. /\ groups' \in {groups, Configured(groups, CartAddOns(inCart'), details')}
        /\ due' \in {<<>>, menuItems}
        /\ inCart' \in {inCart, rows}
        /\ UNCHANGED <<rows, open, data, menuItems>>
    BY <1>1 DEF GetCartData, LookedAt
  <2>4. \E D : groups' \in Seq(GroupsFor(open, D))
    BY <2>1, <2>2, <2>3, ConfiguredType
  <2>5. due' \in Seq(Mates(open))
    BY <2>1, <2>3, EmptySeq DEF ScreenInv
  <2>6. ScreenInv'
    BY <2>1, <2>3, <2>4, <2>5 DEF ScreenInv
  <2>7. jobs' \in Seq(Jobs(Lives)) /\ Lives' = Lives
    BY <1>1, <2>3, HeadJob DEF GetCartData, Runs, AtHead, Lives
  <2>. QED
    BY <2>1, <2>3, <2>6, <2>7 DEF Inv
<1>2. CASE GetCategoryDataDB
  <2>1. Lives = BOOLEAN
    BY <1>2, LiveIsShown DEF GetCategoryDataDB
  <2>2. <<Job("products", Nothing)>> \in Seq(Jobs(Lives))
    BY <2>1, ReadJob
  <2>. QED
    BY <1>2, <2>2, ThenInv DEF GetCategoryDataDB
<1>3. CASE GetProductDataDB
  <2>1. open # None /\ open \in Products /\ Lives = BOOLEAN /\ ScreenInv
    BY <1>3, LiveIsShown DEF GetProductDataDB
  <2>2. menuItems' = Listing[MenuOf[open]] /\ due' = menuItems'
        /\ UNCHANGED <<rows, open, data, groups, inCart>>
    BY <1>3 DEF GetProductDataDB, LookedAt
  <2>3. Listing[MenuOf[open]] \in Seq(Mates(open))
    BY <2>1 DEF Menus, Mates
  <2>4. ScreenInv'
    BY <2>1, <2>2, <2>3 DEF ScreenInv
  <2>5. jobs' \in Seq(Jobs(Lives)) /\ Lives' = Lives
    <3>1. <<Job("cart", Nothing)>> \in Seq(Jobs(Lives))
      BY <2>1, ReadJob
    <3>2. jobs' = Tail(jobs) \o <<Job("cart", Nothing)>> /\ jobs # <<>>
      BY <1>3 DEF GetProductDataDB, Then, AtHead
    <3>. QED
      BY <2>2, <3>1, <3>2, HeadJob DEF Lives
  <2>. QED
    BY <2>1, <2>2, <2>4, <2>5 DEF Inv
<1>4. CASE NoProducts
  <2>1. open # None /\ open \in Products /\ Lives = BOOLEAN /\ ScreenInv
    BY <1>4, LiveIsShown DEF NoProducts
  <2>2. menuItems' \in Seq(Mates(open)) /\ UNCHANGED <<rows, open, data, groups, inCart, due>>
    BY <1>4, EmptySeq DEF NoProducts
  <2>3. ScreenInv'
    BY <2>1, <2>2 DEF ScreenInv
  <2>4. jobs' \in Seq(Jobs(Lives)) /\ Lives' = Lives
    BY <1>4, <2>2, HeadJob DEF NoProducts, Runs, AtHead, Lives
  <2>. QED
    BY <2>1, <2>2, <2>3, <2>4 DEF Inv
<1>5. CASE UpdateQuantity
  <2>1. open # None /\ open \in Products /\ ScreenInv
    BY <1>5 DEF UpdateQuantity, Inv
  <2>2. PICK C : groups \in Seq(GroupsFor(open, C))
    BY <2>1 DEF ScreenInv
  <2>3. Head(due) \in Mates(open) /\ Tail(due) \in Seq(Mates(open))
    BY <1>5, <2>1 DEF UpdateQuantity, ScreenInv
  <2>. DEFINE list == inCart[Head(due)].addOns
              D == C \union {None}
  <2>4. list \in AddOnLists(MenuOf[open])
    <3>1. Head(due) \in Products /\ MenuOf[Head(due)] = MenuOf[open]
      BY <2>3 DEF Mates
    <3>2. inCart[Head(due)] \in RowsFor(Head(due))
      BY <3>1 DEF Inv, Tables
    <3>. QED
      BY <3>1, <3>2 DEF RowsFor
  <2>5. Decoded(list) \in Seq(GroupsFor(open, D)) /\ groups \in Seq(GroupsFor(open, D))
    BY <2>1, <2>2, <2>4, DecodedType, GroupsWiden
  <2>6. groups' \in Seq(GroupsFor(open, D))
    <3>1. Appended(Head(due)) \in {<<>>, Decoded(list)}
      BY DEF Appended
    <3>. DEFINE G == GroupsFor(open, D)
    <3>2. groups' = groups \o Appended(Head(due)) /\ groups \in Seq(G) /\ Decoded(list) \in Seq(G)
      BY <1>5, <2>5 DEF UpdateQuantity
    <3>. HIDE DEF G, list
    <3>3. Appended(Head(due)) \in Seq(G)
      BY <3>1, <3>2, EmptySeq
    <3>4. groups' \in Seq(G)
      BY <3>2, <3>3, ConcatProperties
    <3>. QED
      BY <3>4 DEF G
  <2>7. due' = Tail(due) /\ UNCHANGED <<rows, jobs, open, data, inCart, menuItems>>
    BY <1>5 DEF UpdateQuantity
  <2>8. ScreenInv'
    BY <2>1, <2>3, <2>6, <2>7 DEF ScreenInv
  <2>. QED
    BY <2>1, <2>7, <2>8 DEF Inv, Lives
<1>6. CASE Find
  <2>1. AtHead("find") /\ jobs # <<>>
    BY <1>6 DEF Find, Then
  <2>. DEFINE next == [Head(jobs) EXCEPT !.op = IF Stored(Product) THEN "update" ELSE "all"]
  <2>2. next \in Jobs(Lives)
    <3>1. Head(jobs) \in Jobs(Lives) /\ Head(jobs).op = "find"
      BY <2>1, HeadJob DEF AtHead
    <3>2. Head(jobs) \in [op: {"find", "all", "insert", "update", "delete"}, what: Whats, live: Lives]
      BY <3>1 DEF Jobs
    <3>3. next \in [op: {"find", "all", "insert", "update", "delete"}, what: Whats, live: Lives]
      BY <3>2
    <3>. QED
      BY <3>3 DEF Jobs
  <2>3. <<next>> \in Seq(Jobs(Lives))
    <3>. HIDE DEF next
    <3>. QED
      BY <2>2
  <2>4. Then("find", <<next>>) /\ UNCHANGED <<rows, open, screen, due>>
    BY <1>6 DEF Find
  <2>. QED
    BY <2>3, <2>4, ThenInv
<1>7. CASE All
  <2>. DEFINE found == InCart(rows) \union {Product}
              w == [p \in found |-> IF p = Product THEN Head(jobs).what[p] ELSE rows[p]]
  <2>1. AtHead("all") /\ Lives = BOOLEAN
    BY <1>7, LiveIsShown DEF All, Then
  <2>2. found \in (SUBSET Products) \ {{}}
    BY <2>1, HeadWrite DEF InCart
  <2>3. \A p \in found : w[p] \in RowsFor(p)
    BY <2>1, <2>2, HeadWrite DEF Inv, Tables
  <2>4. w \in Whats
    <3>1. w = [p \in found |-> w[p]]
      OBVIOUS
    <3>. HIDE DEF w, found
    <3>. QED
      BY <2>2, <2>3, <3>1, WhatOf
  <2>5. <<Job("insert", w)>> \in Seq(Jobs(Lives))
    <3>1. Job("insert", w) \in Jobs(Lives)
      BY <2>1, <2>4 DEF Job, Jobs
    <3>. HIDE DEF w
    <3>. QED
      BY <3>1
  <2>6. Then("all", <<Job("insert", w)>>) /\ UNCHANGED <<rows, open, screen, due>>
    BY <1>7 DEF All
  <2>. QED
    BY <2>5, <2>6, ThenInv
<1>8. CASE Insert
  <2>1. AtHead("insert")
    BY <1>8 DEF Insert, Runs
  <2>2. \A p \in Products :
            (IF p \in DOMAIN Head(jobs).what THEN Head(jobs).what[p] ELSE rows[p]) \in RowsFor(p)
    BY <2>1, HeadWrite DEF Inv, Tables
  <2>3. rows' \in Tables
    BY <1>8, <2>2 DEF Insert, Tables, AllRows
  <2>. QED
    BY <1>8, <2>3, WriteInv DEF Insert
<1>9. CASE Update
  <2>1. Product \in Products /\ Head(jobs).what[Product] \in RowsFor(Product)
    BY <1>9, HeadWrite DEF Update, Runs
  <2>2. rows[Product] \in RowsFor(Product) /\ rows \in Tables
    BY <2>1 DEF Inv, Tables
  <2>3. rows' \in Tables
    <3>1. PICK row \in RowsFor(Product) : rows' = [rows EXCEPT ![Product] = row]
      BY <1>9, <2>1, <2>2 DEF Update
    <3>. QED
      BY <2>1, <2>2, <3>1, RowStored
  <2>. QED
    BY <1>9, <2>3, WriteInv DEF Update
<1>10. CASE Delete
  <2>1. Product \in Products
    BY <1>10, HeadWrite DEF Delete, Runs
  <2>2. NoRow \in RowsFor(Product) /\ rows \in Tables
    BY <2>1, NoRowType DEF Inv
  <2>3. rows' \in Tables
    BY <1>10, <2>1, <2>2, RowStored DEF Delete
  <2>. QED
    BY <1>10, <2>3, WriteInv DEF Delete
<1>11. ASSUME NEW op \in {"cart", "categories", "products", "all"}, Dropped(op) PROVE Inv'
  BY <1>11, WriteInv DEF Dropped, Inv
<1>. QED
  BY <1>1, <1>2, <1>3, <1>4, <1>5, <1>6, <1>7, <1>8, <1>9, <1>10, <1>11 DEF Database

LEMMA InvAlways == Spec => []Inv
<1>1. Init => Inv
  BY InitInv
<1>2. Inv /\ [Next]_vars => Inv'
  <2>. SUFFICES ASSUME Inv, [Next]_vars PROVE Inv'
    OBVIOUS
  <2>1. CASE Next
    BY <2>1, CustomerInv, DatabaseInv DEF Next
  <2>2. CASE UNCHANGED vars
    BY <2>2 DEF vars, screen, Inv, ScreenInv, Lives
  <2>. QED
    BY <2>1, <2>2
<1>. QED
  BY <1>1, <1>2, PTL DEF Spec

(* Whatever the menu, the offers, the cart and the customer's taps, and     *)
(* wherever the preselection came from: a row is only charged for add-ons   *)
(* that its own menu category offers.                                       *)
THEOREM MenuAddOnsKept == Spec => []MenuAddOns
<1>1. Inv => MenuAddOns
  BY DEF Inv, Tables, MenuAddOns
<1>. QED
  BY <1>1, InvAlways, PTL

-----------------------------------------------------------------------------
(* The product of a careful customer.  What it is charged for depends on    *)
(* the categories on the screen being the product's own, each of them once; *)
(* that, on no row of its menu category being there while the screen is     *)
(* loaded.                                                                  *)

Distinct(p) ==
    \A i, j \in 1..Len(Offers[p]) : i # j => Offers[p][i].options \cap Offers[p][j].options = {}

OnceEach(list) ==
    /\ \A i, j \in DOMAIN list : i # j => list[i].options \cap list[j].options = {}
    /\ \A i \in DOMAIN list : list[i].type = "single" => Cardinality(list[i].options) <= 1

(* The categories gs are those p is offered with.                           *)
Own(gs, p) ==
    /\ Len(gs) = Len(Offers[p])
    /\ \A i \in 1..Len(gs) :
        /\ gs[i].type = Offers[p][i].type /\ gs[i].options = Offers[p][i].options
        /\ gs[i].marked \subseteq gs[i].options

Reads == {"cart", "categories", "products"}
Queue == {jobs[i] : i \in 1..Len(jobs)}

JobKept(job, p) ==
    job.op \notin Reads /\ p \in DOMAIN job.what =>
        OnceEach(job.what[p].addOns)

RowKept(p)  == OnceEach(rows[p].addOns)
JobsKept(p) == \A job \in Queue : JobKept(job, p)

(* A table has no row of the menu category of p. *)
Absent(table, p) == \A q \in Mates(p) : table[q].qty = 0

ScreenKept(p) ==
    open = p =>
        /\ Own(groups, p) /\ Absent(inCart, p)
        /\ \/ Absent(rows, p) /\ \A job \in Queue : job.op \in Reads
           \/ \A job \in Queue : job.op \notin Reads

Closed == open = None => inCart = NoRows
Kept(p) == RowKept(p) /\ JobsKept(p) /\ ScreenKept(p)

(* A plus saves each option at most once, and of a radio group at most one. *)
LEMMA SelectionOnce ==
    ASSUME NEW p \in Products, Distinct(p), NEW C, NEW gs \in Seq(GroupsFor(p, C)), Own(gs, p)
    PROVE  OnceEach(Selection(gs))
<1>. DEFINE list == Selection(gs)
<1>1. /\ Len(gs) \in Nat /\ DOMAIN list = 1..Len(gs)
      /\ \A i \in 1..Len(gs) : list[i].type = gs[i].type /\ list[i].options = Selected(gs[i])
  BY GroupItems DEF Selection
<1>2. \A i \in 1..Len(gs) : Selected(gs[i]) \subseteq Offers[p][i].options
  BY DEF Selected, Own
<1>3. \A i \in 1..Len(gs) : gs[i].type = "single" => Cardinality(Selected(gs[i])) <= 1
  <2>. SUFFICES ASSUME NEW i \in 1..Len(gs), gs[i].type = "single"
                PROVE  Cardinality(Selected(gs[i])) <= 1
    OBVIOUS
  <2>1. Selected(gs[i]) = {} \/ Selected(gs[i]) = {gs[i].chosen}
    BY DEF Selected
  <2>2. Cardinality({}) = 0 /\ Cardinality({gs[i].chosen}) = 1
    BY FS_EmptySet, FS_Singleton
  <2>3. CASE Selected(gs[i]) = {}
    BY <2>2, <2>3
  <2>4. CASE Selected(gs[i]) = {gs[i].chosen}
    <3>1. Cardinality(Selected(gs[i])) = 1
      BY <2>2, <2>4, Zenon
    <3>. QED
      BY <3>1
  <2>. QED
    BY <2>1, <2>3, <2>4
<1>. HIDE DEF list
<1>4. \A i, j \in 1..Len(gs) : i # j => list[i].options \cap list[j].options = {}
  <2>. SUFFICES ASSUME NEW i \in 1..Len(gs), NEW j \in 1..Len(gs), i # j
                PROVE  list[i].options \cap list[j].options = {}
    OBVIOUS
  <2>1. Offers[p][i].options \cap Offers[p][j].options = {}
    BY DEF Distinct, Own
  <2>2. list[i].options \subseteq Offers[p][i].options /\ list[j].options \subseteq Offers[p][j].options
    BY <1>1, <1>2
  <2>. QED
    BY <2>1, <2>2, Zenon
<1>5. \A i \in 1..Len(gs) : list[i].type = "single" => Cardinality(list[i].options) <= 1
  <2>. SUFFICES ASSUME NEW i \in 1..Len(gs), list[i].type = "single"
                PROVE  Cardinality(list[i].options) <= 1
    OBVIOUS
  <2>1. list[i].options = Selected(gs[i]) /\ gs[i].type = "single"
    BY <1>1
  <2>. QED
    BY <1>3, <2>1, Zenon
<1>6. OnceEach(list)
  BY <1>1, <1>4, <1>5, Zenon DEF OnceEach
<1>. QED
  BY <1>6 DEF list

(* Preselecting leaves the categories what they are.                        *)
LEMMA ConfiguredOwn ==
    ASSUME NEW p \in Products, NEW C, NEW gs \in Seq(GroupsFor(p, C)), Own(gs, p),
           NEW list, NEW known
    PROVE  Own(Configured(gs, list, known), p)
<1>. DEFINE new == Configured(gs, list, known)
            Same(g, i) == g.type = gs[i].type /\ g.options = gs[i].options /\ g.marked \subseteq g.options
<1>1. Len(gs) \in Nat /\ \A i \in 1..Len(gs) : gs[i] \in GroupsFor(p, C) /\ Same(gs[i], i)
  BY GroupItems DEF Own
<1>2. ASSUME NEW i \in 1..Len(gs) PROVE Same(Preselected(gs[i], gs, list), i)
  <2>1. \E o : Preselected(gs[i], gs, list) \in {gs[i], Picked(gs[i], o)}
    BY Zenon DEF Preselected
  <2>2. \A o : Same(Picked(gs[i], o), i)
    BY <1>1, <1>2 DEF Picked, GroupsFor
  <2>. QED
    BY <1>1, <1>2, <2>1, <2>2
<1>3. ASSUME NEW i \in 1..Len(gs) PROVE Same(Premarked(gs[i], list, known), i)
  <2>. DEFINE matches == IF list = <<>> THEN {} ELSE gs[i].options \cap known
              marks == IF matches = {} THEN {First(gs[i].options)} ELSE matches
  <2>1. CASE gs[i].options = {}
    BY <1>1, <1>3, <2>1 DEF Premarked
  <2>2. CASE gs[i].options # {}
    <3>1. gs[i].options \subseteq Nat
      BY <1>1, <1>3, OptionsType DEF GroupsFor
    <3>2. marks \subseteq gs[i].options
      BY <2>2, <3>1, FirstType
    <3>3. Premarked(gs[i], list, known) = [gs[i] EXCEPT !.marked = marks]
      BY <2>2 DEF Premarked
    <3>. HIDE DEF marks
    <3>. QED
      BY <1>1, <1>3, <3>2, <3>3 DEF GroupsFor
  <2>. QED
    BY <2>1, <2>2
<1>. HIDE DEF Same
<1>4. /\ Len(new) = Len(gs)
      /\ \A i \in 1..Len(gs) :
            new[i] \in {gs[i], Premarked(gs[i], list, known), Preselected(gs[i], gs, list)}
  BY <1>1 DEF Configured
<1>5. \A i \in 1..Len(gs) : Same(new[i], i)
  BY <1>1, <1>2, <1>3, <1>4
<1>. HIDE DEF new
<1>6. Own(new, p)
  BY <1>4, <1>5 DEF Own, Same
<1>. QED
  BY <1>6 DEF new

LEMMA DecodedOwn == ASSUME NEW p \in Products PROVE Own(Decoded(Offers[p]), p)
<1>1. Len(Offers[p]) \in Nat
  BY OffersType, ListItems
<1>2. Len(Decoded(Offers[p])) = Len(Offers[p])
  BY <1>1 DEF Decoded
<1>. QED
  BY <1>1, <1>2 DEF Decoded, Own

LEMMA NothingCharged == OnceEach(NoRow.addOns) /\ NoRow.qty = 0
  BY DEF NoRow, OnceEach

(* How a queue changes.                                                     *)
LEMMA QueueTail ==
    ASSUME NEW S, jobs \in Seq(S), jobs # <<>>, jobs' = Tail(jobs)
    PROVE  Queue' \subseteq Queue /\ Head(jobs) \in Queue
<1>1. /\ Len(jobs) \in Nat \ {0} /\ Len(jobs') = Len(jobs) - 1
      /\ \A i \in 1..Len(jobs') : jobs'[i] = jobs[i + 1]
  OBVIOUS
<1>2. Head(jobs) = jobs[1]
  OBVIOUS
<1>. QED
  BY <1>1, <1>2 DEF Queue

LEMMA QueueAppend ==
    ASSUME NEW S, NEW q \in Seq(S), NEW job
    PROVE  {(q \o <<job>>)[i] : i \in 1..Len(q \o <<job>>)} = {q[i] : i \in 1..Len(q)} \union {job}
<1>. DEFINE r == q \o <<job>>
<1>1. /\ Len(q) \in Nat /\ Len(r) = Len(q) + 1 /\ r[Len(q) + 1] = job
      /\ \A i \in 1..Len(q) : r[i] = q[i]
  OBVIOUS
<1>. HIDE DEF r
<1>2. {r[i] : i \in 1..Len(r)} = {q[i] : i \in 1..Len(q)} \union {job}
  BY <1>1
<1>. QED
  BY <1>2 DEF r

LEMMA QueueThen ==
    ASSUME Inv, NEW op, NEW job, Then(op, <<job>>)
    PROVE  /\ Queue' \subseteq Queue \union {job}
           /\ Head(jobs) \in Queue /\ Head(jobs).op = op
<1>. DEFINE t == Tail(jobs)
            S == Jobs(Lives)
<1>1. jobs \in Seq(S) /\ jobs # <<>> /\ jobs' = t \o <<job>> /\ Head(jobs).op = op
  BY DEF Then, AtHead, Inv
<1>. HIDE DEF S
<1>2. /\ t \in Seq(S) /\ Len(jobs) \in Nat \ {0} /\ Len(t) = Len(jobs) - 1
      /\ \A i \in 1..Len(t) : t[i] = jobs[i + 1]
      /\ Head(jobs) = jobs[1]
  BY <1>1
<1>. HIDE DEF t
<1>3. Queue' = {t[i] : i \in 1..Len(t)} \union {job}
  <2>1. Queue' = {(t \o <<job>>)[i] : i \in 1..Len(t \o <<job>>)}
    BY <1>1 DEF Queue
  <2>2. t \in Seq(S)
    BY <1>2
  <2>3. {(t \o <<job>>)[i] : i \in 1..Len(t \o <<job>>)} = {t[i] : i \in 1..Len(t)} \union {job}
    BY <2>2, QueueAppend
  <2>. QED
    BY <2>1, <2>3
<1>4. {t[i] : i \in 1..Len(t)} \subseteq Queue
  <2>1. \A i \in 1..Len(t) : i + 1 \in 1..Len(jobs)
    BY <1>2
  <2>. QED
    BY <1>2, <2>1 DEF Queue
<1>5. Head(jobs) \in Queue
  BY <1>2 DEF Queue
<1>. QED
  BY <1>1, <1>3, <1>4, <1>5

LEMMA QueueRuns ==
    ASSUME Inv, NEW op, Runs(op)
    PROVE  /\ Queue' \subseteq Queue
           /\ Head(jobs) \in Queue /\ Head(jobs).op = op
  BY QueueTail DEF Runs, AtHead, Inv

(* Operations that only read, and issue others.                             *)
LEMMA ReadKept ==
    ASSUME NEW p \in Careful, Kept(p), NEW job, Queue' \subseteq Queue \union {job},
           JobKept(job, p),
           open = p => (job.op \in Reads <=> \A old \in Queue : old.op \in Reads),
           open = p => Queue # {},
           UNCHANGED <<rows, open, groups, inCart>>
    PROVE  Kept(p)'
<1>1. RowKept(p)' /\ JobsKept(p)'
  BY DEF Kept, RowKept, JobsKept, JobKept, Stored, OnceEach
<1>2. ScreenKept(p)'
  BY DEF Kept, ScreenKept, Absent
<1>. QED
  BY <1>1, <1>2 DEF Kept

(* Operations that only read, and what the screen makes of them.            *)
LEMMA LoadKept ==
    ASSUME NEW p \in Careful, Kept(p), NEW job, Queue' \subseteq Queue \union {job},
           job.op \in Reads, NEW old \in Queue, old.op \in Reads,
           UNCHANGED <<rows, open>>,
           open = p /\ Absent(rows, p) => Own(groups, p)' /\ Absent(inCart', p)
    PROVE  Kept(p)'
<1>1. RowKept(p)' /\ JobsKept(p)'
  BY DEF Kept, RowKept, JobsKept, JobKept, Stored, OnceEach
<1>2. ScreenKept(p)'
  BY DEF Kept, ScreenKept, Absent
<1>. QED
  BY <1>1, <1>2 DEF Kept

LEMMA CareShow ==
    ASSUME Inv, Closed, NEW p \in Careful, Kept(p), NEW q \in Products,
           OpenFromMenu(q) \/ OpenFromCart(q)
    PROVE  Kept(p)'
<1>1. PICK d : Show(q, d) /\ (q = p => d.addOns = Offers[p] /\ \A x \in Mates(p) : ~Stored(x))
  BY DEF OpenFromMenu, OpenFromCart, Mates
<1>2. /\ open = None /\ inCart' = NoRows /\ UNCHANGED rows
      /\ jobs' = <<Job("cart", Nothing), Job("categories", Nothing)>>
  BY <1>1 DEF OpenFromMenu, OpenFromCart, Show, Closed
<1>3. \A job \in Queue' : job.op \in Reads
  BY <1>2 DEF Queue, Job, Reads
<1>4. RowKept(p)' /\ JobsKept(p)'
  BY <1>2, <1>3 DEF Kept, RowKept, JobsKept, JobKept, Stored
<1>5. ScreenKept(p)'
  <2>1. CASE q = p
    <3>1. Own(groups', p)
      BY <1>1, <2>1, DecodedOwn DEF Show
    <3>2. Own(groups, p)'
      BY <3>1 DEF Own
    <3>3. Absent(rows, p)
      <4>1. \A x \in Products : rows[x].qty \in Nat
        BY DEF Inv, Tables, RowsFor
      <4>. QED
        BY <1>1, <2>1, <4>1 DEF Absent, Mates, Stored
    <3>4. Absent(rows, p)' /\ Absent(inCart, p)'
      BY <1>2, <3>3 DEF Absent, NoRows, NoRow, Mates
    <3>. QED
      BY <1>3, <3>2, <3>4 DEF ScreenKept
  <2>2. CASE q # p
    BY <1>1, <2>2 DEF Show, ScreenKept
  <2>. QED
    BY <2>1, <2>2
<1>. QED
  BY <1>4, <1>5 DEF Kept

(* A tap that saves, when nothing is queued if it is p's.                   *)
LEMMA CareSaved ==
    ASSUME Inv, NEW p \in Careful, Kept(p), MayTap, NEW d, NEW op \in {"find", "update", "delete"},
           open = p => OnceEach(d.addOns),
           jobs' = Append(jobs, Job(op, One(open, d))),
           UNCHANGED <<rows, open, groups, inCart>>
    PROVE  Kept(p)'
<1>. DEFINE job == Job(op, One(open, d))
<1>1. Queue' = Queue \union {job}
  <2>. DEFINE S == Jobs(Lives)
  <2>1. jobs \in Seq(S)
    BY DEF Inv
  <2>. HIDE DEF S, job
  <2>2. /\ Len(jobs) \in Nat /\ Len(jobs') = Len(jobs) + 1
        /\ jobs'[Len(jobs) + 1] = job
        /\ \A i \in 1..Len(jobs) : jobs'[i] = jobs[i]
    BY <2>1 DEF job
  <2>. QED
    BY <2>2 DEF Queue
<1>2. job.op = op /\ op \notin Reads /\ job.what = One(open, d)
  BY DEF Job, Reads
<1>3. JobKept(job, p)
  BY <1>2 DEF JobKept, One
<1>. HIDE DEF job
<1>4. open = p => Queue = {}
  BY DEF MayTap, Queue, CustomerAssumption
<1>5. RowKept(p)' /\ JobsKept(p)'
  BY <1>1, <1>3 DEF Kept, RowKept, JobsKept, JobKept, Stored, OnceEach
<1>6. ScreenKept(p)'
  BY <1>1, <1>2, <1>4 DEF Kept, ScreenKept, Own, Absent
<1>. QED
  BY <1>5, <1>6 DEF Kept

LEMMA CareCustomer ==
    ASSUME Inv, Closed, NEW p \in Careful, Distinct(p), Kept(p), Customer
    PROVE  Kept(p)'
<1>. p \in Products /\ p # None
  BY DEF None
<1>1. ASSUME NEW q \in Products, OpenFromMenu(q) \/ OpenFromCart(q) PROVE Kept(p)'
  BY <1>1, CareShow
<1>2. ASSUME NEW i \in DOMAIN groups, NEW o \in groups[i].options, Choose(i, o) PROVE Kept(p)'
  <2>1. /\ open # None /\ UNCHANGED <<rows, jobs, open, inCart>>
        /\ groups' = [groups EXCEPT ![i] = IF @.type = "multiple" THEN Marked(@, o) ELSE Picked(@, o)]
    BY <1>2 DEF Choose, MayTap
  <2>2. PICK C : groups \in Seq(GroupsFor(open, C))
    BY <2>1 DEF Inv, ScreenInv
  <2>3. Len(groups') = Len(groups) /\ Len(groups) \in Nat /\ i \in 1..Len(groups)
        /\ \A k \in 1..Len(groups) : groups[k] \in GroupsFor(open, C)
    BY <2>1, <2>2
  <2>4. \A k \in 1..Len(groups) : k # i => groups'[k] = groups[k]
    BY <2>1, <2>3
  <2>5. groups'[i] \in {Marked(groups[i], o), Picked(groups[i], o)}
    BY <2>1, <2>3
  <2>6. open = p => Own(groups, p)
    BY DEF Kept, ScreenKept
  <2>7. open = p => Own(groups, p)'
    <3>1. Marked(groups[i], o).marked \subseteq groups[i].marked \union {o}
          /\ Marked(groups[i], o).type = groups[i].type /\ Marked(groups[i], o).options = groups[i].options
      BY <2>3 DEF Marked, GroupsFor
    <3>2. Picked(groups[i], o).marked = groups[i].marked
          /\ Picked(groups[i], o).type = groups[i].type /\ Picked(groups[i], o).options = groups[i].options
      BY <2>3 DEF Picked, GroupsFor
    <3>3. /\ groups'[i].marked \subseteq groups[i].marked \union {o}
          /\ groups'[i].type = groups[i].type /\ groups'[i].options = groups[i].options
      BY <2>5, <3>1, <3>2
    <3>. QED
      BY <1>2, <2>3, <2>4, <2>6, <3>3 DEF Own
  <2>8. RowKept(p)' /\ JobsKept(p)' /\ ScreenKept(p)'
    BY <2>1, <2>7 DEF Kept, RowKept, JobsKept, JobKept, ScreenKept, Absent, OnceEach, Queue
  <2>. QED
    BY <2>8 DEF Kept
<1>3. CASE Plus
  <2>1. open = p => OnceEach(data'.addOns)
    <3>. SUFFICES ASSUME open = p PROVE OnceEach(data'.addOns)
      OBVIOUS
    <3>1. PICK C : groups \in Seq(GroupsFor(p, C))
      BY DEF Inv, ScreenInv
    <3>2. data \in RowsFor(p) /\ Own(groups, p)
      BY DEF Inv, ScreenInv, Kept, ScreenKept
    <3>3. OnceEach(Selection(groups))
      BY <3>1, <3>2, SelectionOnce
    <3>4. data'.addOns = Selection(groups)
      BY <1>3 DEF Plus
    <3>. QED
      BY <3>3, <3>4
  <2>. QED
    BY <1>3, <2>1, CareSaved DEF Plus
<1>4. CASE Minus
  <2>. DEFINE op == IF data.qty = 1 THEN "delete" ELSE "update"
  <2>1. open = p => OnceEach(data'.addOns)
    <3>. SUFFICES ASSUME open = p PROVE OnceEach(data'.addOns)
      OBVIOUS
    <3>1. data \in RowsFor(p) /\ data.qty > 0 /\ data' = [data EXCEPT !.qty = data.qty - 1]
          /\ data.addOns = rows[p].addOns
      BY <1>4 DEF Inv, ScreenInv, Minus
    <3>2. data'.addOns = rows[p].addOns
      BY <3>1 DEF RowsFor
    <3>. QED
      BY <3>1, <3>2 DEF Kept, RowKept
  <2>2. /\ MayTap /\ jobs' = Append(jobs, Job(op, One(open, data')))
        /\ UNCHANGED <<rows, open, groups, inCart>>
    BY <1>4 DEF Minus
  <2>3. op \in {"find", "update", "delete"}
    OBVIOUS
  <2>. HIDE DEF op
  <2>. QED
    BY <2>1, <2>2, <2>3, CareSaved
<1>5. CASE Leave
  <2>1. /\ open' = None /\ UNCHANGED rows
        /\ jobs' = [i \in 1..Len(jobs) |-> [jobs[i] EXCEPT !.live = FALSE]]
    BY <1>5 DEF Leave
  <2>2. Len(jobs) \in Nat /\ \A i \in 1..Len(jobs) : jobs[i] \in Jobs(Lives)
    BY DEF Inv
  <2>3. \A i \in 1..Len(jobs) : jobs'[i].op = jobs[i].op /\ jobs'[i].what = jobs[i].what
    BY <2>1, <2>2 DEF Jobs
  <2>4. Len(jobs') = Len(jobs)
    BY <2>1, <2>2
  <2>5. JobsKept(p)'
    BY <2>3, <2>4 DEF Kept, JobsKept, JobKept, Queue
  <2>6. RowKept(p)' /\ ScreenKept(p)'
    BY <2>1 DEF Kept, RowKept, ScreenKept, Stored
  <2>. QED
    BY <2>5, <2>6 DEF Kept
<1>. QED
  BY <1>1, <1>2, <1>3, <1>4, <1>5 DEF Customer

LEMMA CareDatabase ==
    ASSUME Inv, Closed, NEW p \in Careful, Distinct(p), Kept(p), Database
    PROVE  Kept(p)'
<1>. p \in Products /\ p # None
  BY DEF None
<1>1. CASE GetCartData
  <2>1. /\ Runs("cart") /\ inCart' \in {inCart, rows} /\ UNCHANGED <<rows, open>>
        /\ groups' \in {groups, Configured(groups, CartAddOns(inCart'), details')}
    BY <1>1 DEF GetCartData
  <2>2. open = p /\ Absent(rows, p) => Own(groups, p)' /\ Absent(inCart', p)
    <3>. SUFFICES ASSUME open = p, Absent(rows, p) PROVE Own(groups, p)' /\ Absent(inCart', p)
      OBVIOUS
    <3>1. PICK C : groups \in Seq(GroupsFor(p, C))
      BY DEF Inv, ScreenInv
    <3>2. Own(groups, p) /\ Absent(inCart, p)
      BY DEF Kept, ScreenKept
    <3>3. Own(groups', p)
      BY <2>1, <3>1, <3>2, ConfiguredOwn
    <3>. QED
      BY <2>1, <3>2, <3>3 DEF Own
  <2>. DEFINE old == Head(jobs)
  <2>3. Queue' \subseteq Queue \union {old} /\ old \in Queue /\ old.op \in Reads
    BY <2>1, QueueRuns DEF Reads
  <2>. HIDE DEF old
  <2>. QED
    BY <2>1, <2>2, <2>3, LoadKept
<1>2. ASSUME NEW op \in {"categories", "products"}, NEW next \in Reads,
             Then(op, <<Job(next, Nothing)>>), UNCHANGED <<rows, open, groups, inCart>>
      PROVE  Kept(p)'
  <2>. DEFINE job == Job(next, Nothing)
              old == Head(jobs)
  <2>1. Queue' \subseteq Queue \union {job} /\ job.op \in Reads /\ old \in Queue /\ old.op \in Reads
    BY <1>2, QueueThen DEF Reads, Job
  <2>2. open = p => Own(groups, p)' /\ Absent(inCart', p)
    BY <1>2 DEF Kept, ScreenKept, Own, Absent
  <2>. HIDE DEF job, old
  <2>. QED
    BY <1>2, <2>1, <2>2, LoadKept
<1>3. CASE GetCategoryDataDB
  BY <1>2, <1>3 DEF GetCategoryDataDB, screen, Reads
<1>4. CASE GetProductDataDB
  BY <1>2, <1>4 DEF GetProductDataDB, Reads
(* Fewer operations and nothing else.                                       *)
<1>5. ASSUME NEW op, Runs(op), UNCHANGED <<rows, open, groups, inCart>> PROVE Kept(p)'
  <2>1. Queue' \subseteq Queue
    BY <1>5, QueueRuns
  <2>. QED
    BY <1>5, <2>1 DEF Kept, RowKept, JobsKept, JobKept, ScreenKept, Absent, OnceEach, Own
<1>6. CASE NoProducts
  BY <1>5, <1>6 DEF NoProducts
<1>7. ASSUME NEW op, Dropped(op) PROVE Kept(p)'
  BY <1>5, <1>7 DEF Dropped, screen
<1>8. CASE UpdateQuantity
  <2>1. open # None /\ ScreenInv /\ UNCHANGED <<rows, jobs, open, inCart>>
        /\ groups' = groups \o Appended(Head(due))
    BY <1>8 DEF UpdateQuantity, Inv
  <2>2. open = p => groups' = groups
    <3>. SUFFICES ASSUME open = p PROVE groups' = groups
      OBVIOUS
    <3>1. Head(due) \in Mates(p)
      BY <1>8, <2>1 DEF UpdateQuantity, ScreenInv
    <3>2. inCart[Head(due)].qty = 0
      BY <3>1 DEF Kept, ScreenKept, Absent
    <3>3. Appended(Head(due)) = <<>>
      BY <3>2 DEF Appended, InCart
    <3>4. PICK C : groups \in Seq(GroupsFor(p, C))
      BY <2>1 DEF ScreenInv
    <3>. QED
      BY <2>1, <3>3, <3>4, ConcatEmptySeq
  <2>3. RowKept(p)' /\ JobsKept(p)'
    BY <2>1 DEF Kept, RowKept, JobsKept, JobKept, OnceEach, Queue
  <2>4. ScreenKept(p)'
    BY <2>1, <2>2 DEF Kept, ScreenKept, Absent, Own, Queue
  <2>. QED
    BY <2>3, <2>4 DEF Kept
(* Operations that write are of no loading screen.                          *)
<1>9. ASSUME NEW op \in {"find", "all"}, NEW job, Then(op, <<job>>),
             JobKept(job, p), job.op \notin Reads, UNCHANGED <<rows, open, groups, inCart>>
      PROVE  Kept(p)'
  <2>1. Queue' \subseteq Queue \union {job} /\ Head(jobs) \in Queue /\ Head(jobs).op \notin Reads
    BY <1>9, QueueThen DEF Reads
  <2>. QED
    BY <1>9, <2>1, ReadKept
<1>10. CASE Find
  <2>. DEFINE job == [Head(jobs) EXCEPT !.op = IF Stored(Product) THEN "update" ELSE "all"]
  <2>1. Then("find", <<job>>) /\ UNCHANGED <<rows, open, groups, inCart>>
    BY <1>10 DEF Find, screen
  <2>2. Head(jobs) \in Jobs(Lives) /\ Head(jobs).op = "find" /\ Head(jobs) \in Queue
    BY <2>1, HeadJob, QueueThen DEF Then, AtHead
  <2>3. job.op \in {"update", "all"} /\ job.what = Head(jobs).what
    BY <2>2 DEF Jobs
  <2>4. JobKept(job, p) /\ job.op \notin Reads
    BY <2>2, <2>3 DEF Kept, JobsKept, JobKept, Reads
  <2>. HIDE DEF job
  <2>. QED
    BY <1>9, <2>1, <2>4
<1>11. CASE All
  <2>. DEFINE w == [q \in InCart(rows) \union {Product} |->
                      IF q = Product THEN Head(jobs).what[q] ELSE rows[q]]
              job == Job("insert", w)
  <2>1. Then("all", <<job>>) /\ UNCHANGED <<rows, open, groups, inCart>>
    BY <1>11 DEF All, screen
  <2>2. Product \in DOMAIN Head(jobs).what /\ Head(jobs) \in Queue /\ Head(jobs).op = "all"
    <3>1. Head(jobs).what \in Whats
      BY <2>1, HeadWrite DEF Then
    <3>2. DOMAIN Head(jobs).what # {}
      BY <3>1 DEF Whats
    <3>. QED
      BY <2>1, <3>2, QueueThen DEF Product
  <2>3. p \in DOMAIN w => OnceEach(w[p].addOns)
    <3>1. CASE p = Product
      <4>1. w[p] = Head(jobs).what[p] /\ JobKept(Head(jobs), p)
        BY <2>2, <3>1 DEF Kept, JobsKept
      <4>. QED
        BY <2>2, <3>1, <4>1 DEF JobKept, Reads
    <3>2. CASE p # Product
      BY <3>2 DEF Kept, RowKept, InCart
    <3>. QED
      BY <3>1, <3>2
  <2>4. job.what = w /\ job.op = "insert"
    BY DEF Job
  <2>. HIDE DEF w, job
  <2>5. JobKept(job, p) /\ job.op \notin Reads
    BY <2>3, <2>4 DEF JobKept, Reads
  <2>. QED
    BY <1>9, <2>1, <2>5
<1>12. ASSUME NEW op \in {"insert", "update", "delete"}, Runs(op), RowKept(p)',
              UNCHANGED <<open, groups, inCart>>
       PROVE  Kept(p)'
  <2>1. Queue' \subseteq Queue /\ Head(jobs) \in Queue /\ Head(jobs).op \notin Reads
    BY <1>12, QueueRuns DEF Reads
  <2>2. JobsKept(p)'
    BY <2>1 DEF Kept, JobsKept, JobKept, OnceEach
  <2>3. ScreenKept(p)'
    BY <1>12, <2>1 DEF Kept, ScreenKept, Own, Absent
  <2>. QED
    BY <1>12, <2>2, <2>3 DEF Kept
<1>13. ASSUME NEW op \in {"insert", "update", "delete"}, AtHead(op)
       PROVE  JobKept(Head(jobs), p) /\ Head(jobs).op = op /\ Product \in DOMAIN Head(jobs).what
  <2>1. Head(jobs).what \in Whats
    BY <1>13, HeadWrite
  <2>2. DOMAIN Head(jobs).what # {}
    BY <2>1 DEF Whats
  <2>3. Head(jobs) \in Queue
    <3>1. jobs \in Seq(Jobs(Lives)) /\ jobs # <<>>
      BY <1>13 DEF AtHead, Inv
    <3>2. Len(jobs) \in Nat \ {0} /\ Head(jobs) = jobs[1]
      BY <3>1
    <3>. QED
      BY <3>2 DEF Queue
  <2>. QED
    BY <1>13, <2>2, <2>3 DEF AtHead, Kept, JobsKept, Product
<1>. rows \in [Products -> AllRows]
  BY DEF Inv, Tables
<1>14. CASE Insert
  <2>1. /\ JobKept(Head(jobs), p) /\ Head(jobs).op = "insert"
        /\ rows'[p] = IF p \in DOMAIN Head(jobs).what THEN Head(jobs).what[p] ELSE rows[p]
    BY <1>13, <1>14 DEF Insert, Runs
  <2>2. RowKept(p)'
    BY <2>1 DEF Kept, RowKept, JobKept, Stored, OnceEach, Reads
  <2>. QED
    BY <1>12, <1>14, <2>2 DEF Insert, screen
<1>15. CASE Update
  <2>1. JobKept(Head(jobs), p) /\ Head(jobs).op = "update" /\ Product \in DOMAIN Head(jobs).what
    BY <1>13, <1>15 DEF Update, Runs
  <2>2. rows'[p] \in {rows[p]} \union (IF Product = p THEN {Head(jobs).what[p]} ELSE {})
    BY <1>15 DEF Update
  <2>3. RowKept(p)'
    BY <2>1, <2>2 DEF Kept, RowKept, JobKept, Stored, OnceEach, Reads
  <2>. QED
    BY <1>12, <1>15, <2>3 DEF Update, screen
<1>16. CASE Delete
  <2>1. rows'[p] \in {rows[p], NoRow}
    BY <1>16 DEF Delete
  <2>2. RowKept(p)'
    BY <2>1, NothingCharged DEF Kept, RowKept, Stored, OnceEach
  <2>. QED
    BY <1>12, <1>16, <2>2 DEF Delete, screen
<1>. QED
  BY <1>1, <1>3, <1>4, <1>6, <1>7, <1>8, <1>10, <1>11, <1>14, <1>15, <1>16 DEF Database

(* A closed screen has read nothing.                                        *)
LEMMA ClosedStep == ASSUME Inv, Closed, [Next]_vars PROVE Closed'
<1>1. ASSUME UNCHANGED <<open, inCart>> PROVE Closed'
  BY <1>1 DEF Closed
<1>2. ASSUME NEW p \in Products, OpenFromMenu(p) \/ OpenFromCart(p) PROVE Closed'
  BY <1>2 DEF OpenFromMenu, OpenFromCart, Show, Closed
<1>3. CASE Leave
  BY <1>3 DEF Leave, Closed
<1>4. CASE GetCartData
  BY <1>4, LiveIsShown DEF GetCartData, Closed
<1>5. CASE Database /\ ~GetCartData
  BY <1>1, <1>5
     DEF Database, GetCategoryDataDB, GetProductDataDB, NoProducts, UpdateQuantity, Find, All,
         Insert, Update, Delete, Dropped, screen
<1>. QED
  BY <1>1, <1>2, <1>3, <1>4, <1>5 DEF Next, Customer, Choose, Plus, Minus, vars, screen

(* A product that is opened while nothing of its menu category is in the    *)
(* cart, and loaded before it is touched, is charged for no add-on twice,   *)
(* and for one of a radio group at most, if its own categories share none:  *)
(* whatever rows of other categories the preselection reads, and however    *)
(* carelessly the customer treats every other product, beside it on the     *)
(* menu too.                                                                *)
THEOREM ChargedOnceKept ==
    ASSUME \A p \in Careful : Distinct(p)
    PROVE  Spec => []ChargedOnce
<1>. DEFINE Care == \A p \in Careful : Kept(p)
<1>1. Init => Closed /\ Care
  <2>. SUFFICES ASSUME Init, NEW p \in Careful PROVE Closed /\ Kept(p)
    BY DEF Init, Closed
  <2>1. open # p /\ rows[p] = NoRow /\ Queue = {} /\ inCart = NoRows
    BY DEF Init, None, NoRows, Queue
  <2>. QED
    BY <2>1, NothingCharged DEF Closed, NoRows, Kept, RowKept, JobsKept, ScreenKept
<1>2. Inv /\ Closed /\ Care /\ [Next]_vars => (Closed /\ Care)'
  <2>. SUFFICES ASSUME Inv, Closed, Care, [Next]_vars, NEW p \in Careful PROVE Closed' /\ Kept(p)'
    BY ClosedStep
  <2>1. CASE Next
    BY <2>1, ClosedStep, CareCustomer, CareDatabase DEF Next
  <2>2. CASE UNCHANGED vars
    BY <2>2, ClosedStep
       DEF vars, screen, Kept, RowKept, JobsKept, JobKept, ScreenKept, Absent, OnceEach, Own, Queue
  <2>. QED
    BY <2>1, <2>2
<1>3. Care => ChargedOnce
  BY DEF Kept, RowKept, OnceEach, ChargedOnce
<1>. QED
  BY <1>1, <1>2, <1>3, InvAlways, PTL DEF Spec

-----------------------------------------------------------------------------
(* TypeOK.  Inv has most of it; here is what it left open: quantities stay *)
(* within the limit wherever they are, what a screen has selected is among *)
(* what it offers, and the loops of getCartData stop at a category of the  *)
(* row, which is the last row's of a cart that has a last one.             *)
Bounded(S) == \E n \in Nat : \A x \in S : x <= n
Small ==
    {j \in Jobs(BOOLEAN) :
        /\ Bounded(DOMAIN j.what)
        /\ \A p \in DOMAIN j.what : j.what[p].qty \in 0..Limit}
Tidy == {g \in Groups : g.marked \subseteq g.options}

TypeInv ==
    /\ \A p \in Products : rows[p].qty \in 0..Limit
    /\ Bounded(InCart(rows)) /\ Bounded(InCart(inCart))
    /\ data.qty \in 0..Limit
    /\ jobs \in Seq(Small)
    /\ groups \in Seq(Tidy)
    /\ details \subseteq Nat

LEMMA BoundedSets ==
    /\ Bounded({})
    /\ \A n \in Nat : Bounded({n})
    /\ \A S, T \in SUBSET Nat : Bounded(S) /\ Bounded(T) => Bounded(S \union T)
    /\ \A S, T : Bounded(S) /\ T \subseteq S => Bounded(T)
<1>1. Bounded({}) /\ \A n \in Nat : Bounded({n})
  BY DEF Bounded
<1>2. ASSUME NEW S \in SUBSET Nat, NEW T \in SUBSET Nat, Bounded(S), Bounded(T)
      PROVE  Bounded(S \union T)
  <2>1. PICK m \in Nat : \A x \in S : x <= m
    BY <1>2 DEF Bounded
  <2>2. PICK n \in Nat : \A x \in T : x <= n
    BY <1>2 DEF Bounded
  <2>3. m + n \in Nat /\ \A x \in S \union T : x <= m + n
    BY <2>1, <2>2
  <2>. QED
    BY <2>3 DEF Bounded
<1>3. \A S, T : Bounded(S) /\ T \subseteq S => Bounded(T)
  BY DEF Bounded
<1>. QED
  BY <1>1, <1>2, <1>3

(* A cart that is not empty has a last row: the least bound is reached.    *)
LEMMA Largest ==
    ASSUME NEW S \in SUBSET Nat, S # {}, Bounded(S)
    PROVE  \E p \in S : \A q \in S : q <= p
<1>. DEFINE Bounds == {n \in Nat : \A x \in S : x <= n}
            b == First(Bounds)
<1>1. Bounds \in SUBSET Nat /\ Bounds # {}
  <2>1. PICK n \in Nat : \A x \in S : x <= n
    BY DEF Bounded
  <2>. QED
    BY <2>1
<1>2. b \in Bounds /\ \A n \in Bounds : b <= n
  BY <1>1, FirstType
<1>. HIDE DEF b
<1>3. b \in Nat /\ \A x \in S : x <= b
  BY <1>2
<1>4. b \in S
  <2>. SUFFICES ASSUME b \notin S PROVE FALSE
    OBVIOUS
  <2>1. PICK x \in S : TRUE
    OBVIOUS
  <2>2. b # 0
    BY <1>3, <2>1
  <2>3. b - 1 \in Nat /\ \A y \in S : y <= b - 1
    BY <1>3, <2>2
  <2>4. b - 1 \in Bounds
    BY <2>3
  <2>. HIDE DEF Bounds
  <2>5. b <= b - 1
    BY <1>2, <2>4
  <2>. QED
    BY <1>3, <2>5
<1>. QED
  BY <1>3, <1>4

LEMMA CartAddOnsType ==
    ASSUME NEW cart \in Tables, Bounded(InCart(cart))
    PROVE  \E m : CartAddOns(cart) \in AddOnLists(m)
<1>1. CASE InCart(cart) = {}
  BY <1>1, EmptySeq DEF CartAddOns, AddOnLists
<1>2. CASE InCart(cart) # {}
  <2>. DEFINE last == CHOOSE p \in InCart(cart) : \A q \in InCart(cart) : q <= p
  <2>1. InCart(cart) \in SUBSET Nat /\ InCart(cart) \subseteq Products
    BY DEF InCart
  <2>2. \E p \in InCart(cart) : \A q \in InCart(cart) : q <= p
    BY <1>2, <2>1, Largest
  <2>3. last \in Products
    BY <2>1, <2>2
  <2>. HIDE DEF last
  <2>4. cart[last] \in RowsFor(last)
    BY <2>3 DEF Tables
  <2>5. cart[last].addOns \in AddOnLists(MenuOf[last])
    BY <2>4 DEF RowsFor
  <2>6. CartAddOns(cart) = cart[last].addOns
    BY <1>2 DEF CartAddOns, last
  <2>. QED
    BY <2>5, <2>6
<1>. QED
  BY <1>1, <1>2

(* The second loop stops before the first category without options.        *)
LEMMA UsableType ==
    ASSUME NEW m, NEW list \in AddOnLists(m)
    PROVE  Usable(list) \in 0..Len(list)
<1>. DEFINE Empty == {k \in 1..Len(list) : list[k].options = {}}
            Fits(n) == /\ \A k \in 1..n : list[k].options # {}
                       /\ n < Len(list) => list[n + 1].options = {}
<1>1. Len(list) \in Nat
  BY ListItems
<1>2. \E n \in 0..Len(list) : Fits(n)
  <2>1. CASE Empty = {}
    <3>1. Len(list) \in 0..Len(list) /\ Fits(Len(list))
      BY <1>1, <2>1
    <3>. QED
      BY <3>1
  <2>2. CASE Empty # {}
    <3>. DEFINE e == First(Empty)
    <3>0. Empty \in SUBSET Nat
      BY <1>1
    <3>1. e \in Empty /\ \A k \in Empty : e <= k
      <4>. HIDE DEF Empty
      <4>. QED
        BY <2>2, <3>0, FirstType
    <3>. HIDE DEF e
    <3>2. e \in 1..Len(list) /\ list[e].options = {} /\ e - 1 \in 0..Len(list) /\ (e - 1) + 1 = e
      BY <1>1, <3>1
    <3>3. \A k \in 1..(e - 1) : k \in 1..Len(list) /\ ~(e <= k)
      BY <1>1, <3>2
    <3>4. \A k \in 1..(e - 1) : list[k].options # {}
      BY <3>1, <3>3
    <3>5. Fits(e - 1)
      BY <3>2, <3>4
    <3>. QED
      BY <3>2, <3>5
  <2>. QED
    BY <2>1, <2>2
<1>3. Usable(list) = CHOOSE n \in 0..Len(list) : Fits(n)
  BY DEF Usable
<1>. HIDE DEF Fits
<1>. QED
  BY <1>2, <1>3

LEMMA TidyItems ==
    ASSUME NEW gs \in Seq(Tidy)
    PROVE  /\ Len(gs) \in Nat
           /\ \A i \in 1..Len(gs) :
                /\ gs[i] \in Tidy /\ gs[i] \in Groups
                /\ gs[i].options \subseteq Nat /\ gs[i].marked \subseteq gs[i].options
<1>1. Len(gs) \in Nat /\ \A i \in 1..Len(gs) : gs[i] \in Tidy
  OBVIOUS
<1>. QED
  BY <1>1 DEF Tidy, Groups

LEMMA DecodedTidy ==
    ASSUME NEW m, NEW list \in AddOnLists(m)
    PROVE  Decoded(list) \in Seq(Tidy)
<1>1. \A i \in 1..Len(list) :
        [type |-> list[i].type, options |-> list[i].options, marked |-> {}, chosen |-> None] \in Tidy
  BY ListItems, OptionsType DEF Tidy, Groups, None
<1>2. Decoded(list) \in [1..Len(list) -> Tidy]
  BY <1>1 DEF Decoded
<1>. QED
  BY <1>2, ListItems, SeqOf

LEMMA ConfiguredTidy ==
    ASSUME NEW gs \in Seq(Tidy), NEW m, NEW list \in AddOnLists(m), NEW known
    PROVE  Configured(gs, list, known) \in Seq(Tidy)
<1>. DEFINE first == IF list = <<>> THEN gs[1].options
                     ELSE IF Usable(list) = 0 THEN {} ELSE list[Usable(list)].options
<1>1. ASSUME NEW i \in 1..Len(gs) PROVE Preselected(gs[i], gs, list) \in Tidy
  <2>0. gs[i] \in Tidy
    BY TidyItems
  <2>1. first \subseteq Nat
    <3>1. CASE list = <<>>
      <4>1. 1 \in 1..Len(gs)
        BY TidyItems
      <4>. QED
        BY <3>1, <4>1, TidyItems
    <3>2. CASE list # <<>> /\ Usable(list) # 0
      <4>1. Usable(list) \in 1..Len(list)
        BY <3>2, UsableType, ListItems
      <4>2. list[Usable(list)].options \subseteq Nat
        BY <4>1, ListItems, OptionsType
      <4>. QED
        BY <3>2, <4>2
    <3>. QED
      BY <3>1, <3>2
  <2>2. Preselected(gs[i], gs, list) = IF first = {} THEN gs[i] ELSE Picked(gs[i], First(first))
    BY DEF Preselected
  <2>. HIDE DEF first
  <2>3. first # {} => First(first) \in Nat
    BY <2>1, FirstType
  <2>4. first # {} => Picked(gs[i], First(first)) \in Tidy
    BY <2>0, <2>3 DEF Picked, Tidy, Groups
  <2>. QED
    BY <2>0, <2>2, <2>4
<1>2. ASSUME NEW i \in 1..Len(gs) PROVE Premarked(gs[i], list, known) \in Tidy
  <2>. DEFINE matches == IF list = <<>> THEN {} ELSE gs[i].options \cap known
              marks == IF matches = {} THEN {First(gs[i].options)} ELSE matches
  <2>0. gs[i] \in Tidy /\ gs[i].options \subseteq Nat
    BY TidyItems
  <2>1. CASE gs[i].options = {}
    BY <2>0, <2>1 DEF Premarked
  <2>2. CASE gs[i].options # {}
    <3>1. First(gs[i].options) \in gs[i].options
      BY <2>0, <2>2, FirstType
    <3>2. marks \subseteq gs[i].options
      BY <3>1
    <3>3. Premarked(gs[i], list, known) = [gs[i] EXCEPT !.marked = marks]
      BY <2>2 DEF Premarked
    <3>. HIDE DEF marks
    <3>. QED
      BY <2>0, <3>2, <3>3 DEF Tidy, Groups
  <2>. QED
    BY <2>1, <2>2
<1>. DEFINE G(i) == IF i \notin Reached(gs, list) THEN gs[i]
                    ELSE IF gs[i].type = "multiple" THEN Premarked(gs[i], list, known)
                    ELSE Preselected(gs[i], gs, list)
<1>3. \A i \in 1..Len(gs) : G(i) \in Tidy
  BY <1>1, <1>2, TidyItems
<1>4. Configured(gs, list, known) = [i \in 1..Len(gs) |-> G(i)]
  BY DEF Configured
<1>. HIDE DEF G
<1>5. Configured(gs, list, known) \in [1..Len(gs) -> Tidy]
  BY <1>3, <1>4
<1>. QED
  BY <1>5, TidyItems, SeqOf

LEMMA CollectedType ==
    ASSUME NEW m, NEW list \in AddOnLists(m)
    PROVE  Collected(list) \subseteq Nat
<1>1. DOMAIN list = 1..Len(list)
  BY DEF AddOnLists
<1>2. \A j \in DOMAIN list : list[j].options \subseteq Nat
  BY <1>1, ListItems, OptionsType
<1>. QED
  BY <1>2 DEF Collected

LEMMA SmallJobs ==
    /\ \A op \in {"cart", "categories", "products"} : Job(op, Nothing) \in Small
    /\ \A p \in Products, row \in AllRows, op \in {"find", "update", "delete"} :
         row \in RowsFor(p) /\ row.qty \in 0..Limit => Job(op, One(p, row)) \in Small
<1>1. ASSUME NEW op \in {"cart", "categories", "products"} PROVE Job(op, Nothing) \in Small
  <2>1. Job(op, Nothing).what = Nothing /\ DOMAIN Nothing = {}
    BY DEF Job, Nothing
  <2>. QED
    BY <2>1, ReadJob, BoundedSets DEF Small
<1>2. ASSUME NEW p \in Products, NEW row \in RowsFor(p), row.qty \in 0..Limit,
             NEW op \in {"find", "update", "delete"}
      PROVE  Job(op, One(p, row)) \in Small
  <2>1. /\ Job(op, One(p, row)).what = One(p, row) /\ DOMAIN One(p, row) = {p}
        /\ One(p, row)[p] = row
    BY DEF Job, One
  <2>2. Job(op, One(p, row)) \in Jobs(BOOLEAN)
    BY WriteJob
  <2>3. Bounded({p})
    BY BoundedSets
  <2>. QED
    BY <1>2, <2>1, <2>2, <2>3 DEF Small
<1>. QED
  BY <1>1, <1>2

LEMMA SmallAppend ==
    ASSUME NEW q \in Seq(Small), NEW j \in Small
    PROVE  Append(q, j) \in Seq(Small) /\ <<j>> \in Seq(Small)
  OBVIOUS

LEMMA ShowType ==
    ASSUME Inv, TypeInv, NEW p \in Products, NEW d \in RowsFor(p), d.qty \in 0..Limit, Show(p, d)
    PROVE  TypeInv'
<1>1. groups' \in Seq(Tidy)
  BY DecodedTidy DEF Show, RowsFor
<1>2. jobs' \in Seq(Small)
  <2>. DEFINE a == Job("cart", Nothing)
              b == Job("categories", Nothing)
  <2>1. a \in Small /\ b \in Small /\ jobs' = <<a, b>>
    BY SmallJobs DEF Show
  <2>. HIDE DEF a, b
  <2>. QED
    BY <2>1
<1>. QED
  BY <1>1, <1>2 DEF Show, TypeInv, InCart

LEMMA CustomerType == ASSUME Inv, TypeInv, Customer PROVE TypeInv'
<1>1. ASSUME NEW p \in Products, OpenFromMenu(p) PROVE TypeInv'
  <2>. DEFINE d == [qty |-> rows[p].qty, addOns |-> Offers[p]]
  <2>1. rows[p] \in RowsFor(p)
    BY DEF Inv, Tables
  <2>2. d \in RowsFor(p) /\ d.qty \in 0..Limit
    BY <2>1, OffersType DEF RowsFor, TypeInv
  <2>. QED
    BY <1>1, <2>2, ShowType DEF OpenFromMenu
<1>2. ASSUME NEW p \in Products, OpenFromCart(p) PROVE TypeInv'
  <2>1. rows[p] \in RowsFor(p) /\ rows[p].qty \in 0..Limit
    BY DEF Inv, Tables, TypeInv
  <2>. QED
    BY <1>2, <2>1, ShowType DEF OpenFromCart
<1>3. ASSUME NEW i \in DOMAIN groups, NEW o \in groups[i].options, Choose(i, o) PROVE TypeInv'
  <2>1. groups \in Seq(Tidy) /\ i \in 1..Len(groups)
    BY DEF TypeInv
  <2>2. groups[i] \in Tidy /\ o \in Nat
    BY <2>1, TidyItems
  <2>. DEFINE g == IF groups[i].type = "multiple" THEN Marked(groups[i], o) ELSE Picked(groups[i], o)
  <2>3. g \in Tidy
    <3>1. (groups[i].marked \ {o}) \union ({o} \ groups[i].marked) \subseteq groups[i].options
      BY <2>2 DEF Tidy
    <3>2. Marked(groups[i], o) \in Tidy
      BY <2>2, <3>1 DEF Marked, Tidy, Groups
    <3>3. Picked(groups[i], o) \in Tidy
      BY <2>2 DEF Picked, Tidy, Groups
    <3>. QED
      BY <3>2, <3>3
  <2>4. groups' = [groups EXCEPT ![i] = g] /\ UNCHANGED <<rows, jobs, details, inCart>>
    BY <1>3 DEF Choose
  <2>5. groups' \in Seq(Tidy)
    <3>. HIDE DEF g
    <3>. QED
      BY <2>1, <2>3, <2>4
  <2>6. data'.qty = data.qty
    <3>1. data \in RowsFor(open)
      BY <1>3 DEF Choose, MayTap, Inv, ScreenInv
    <3>. QED
      BY <1>3, <3>1 DEF Choose, RowsFor
  <2>. QED
    BY <2>4, <2>5, <2>6 DEF TypeInv, InCart
<1>4. ASSUME NEW row \in RowsFor(open), row.qty \in 0..Limit, data' = row, open \in Products,
             NEW op \in {"find", "update", "delete"}, jobs' = Append(jobs, Job(op, One(open, row))),
             UNCHANGED <<rows, groups, details, inCart>>
      PROVE  TypeInv'
  <2>1. row \in AllRows
    BY <1>4 DEF AllRows
  <2>2. Job(op, One(open, row)) \in Small
    BY <1>4, <2>1, SmallJobs
  <2>3. jobs' \in Seq(Small)
    BY <1>4, <2>2, SmallAppend DEF TypeInv
  <2>. QED
    BY <1>4, <2>3 DEF TypeInv, InCart
<1>5. CASE Plus
  <2>1. open \in Products /\ ScreenInv /\ data.qty < Limit
    BY <1>5 DEF Plus, MayTap, Inv
  <2>2. PICK C : groups \in Seq(GroupsFor(open, C))
    BY <2>1 DEF ScreenInv
  <2>3. data'.qty \in 0..Limit /\ data' \in RowsFor(open)
    BY <1>5, <2>1, <2>2, SelectionType DEF Plus, TypeInv, RowsFor
  <2>. QED
    BY <1>4, <1>5, <2>1, <2>3 DEF Plus
<1>6. CASE Minus
  <2>1. open \in Products /\ ScreenInv /\ data.qty > 0 /\ data \in RowsFor(open)
    BY <1>6 DEF Minus, MayTap, Inv, ScreenInv
  <2>1a. data.qty - 1 \in 0..Limit
    <3>1. data.qty \in 0..Limit
      BY DEF TypeInv
    <3>. QED
      BY <2>1, <3>1
  <2>1b. data' = [data EXCEPT !.qty = data.qty - 1]
    BY <1>6 DEF Minus
  <2>2. data'.qty \in 0..Limit /\ data' \in RowsFor(open)
    BY <2>1, <2>1a, <2>1b DEF RowsFor
  <2>. QED
    BY <1>4, <1>6, <2>1, <2>2 DEF Minus
<1>7. CASE Leave
  <2>1. /\ UNCHANGED rows /\ data' = NoRow /\ groups' = <<>> /\ details' = {} /\ inCart' = NoRows
        /\ jobs' = [i \in 1..Len(jobs) |-> [jobs[i] EXCEPT !.live = FALSE]]
    BY <1>7 DEF Leave
  <2>2. jobs' \in Seq(Small)
    <3>1. Len(jobs) \in Nat /\ \A i \in 1..Len(jobs) : jobs[i] \in Small
      BY DEF TypeInv
    <3>2. \A j \in Small : [j EXCEPT !.live = FALSE] \in Small
      BY DEF Small, Jobs
    <3>3. jobs' \in [1..Len(jobs) -> Small]
      BY <2>1, <3>1, <3>2
    <3>. QED
      BY <3>1, <3>3, SeqOf
  <2>3. InCart(inCart)' = {}
    BY <2>1 DEF InCart, NoRows, NoRow
  <2>4. Bounded(InCart(inCart))' /\ groups' \in Seq(Tidy)
    BY <2>1, <2>3, BoundedSets, EmptySeq
  <2>. QED
    BY <2>1, <2>2, <2>4 DEF TypeInv, NoRow, InCart
<1>. QED
  BY <1>1, <1>2, <1>3, <1>5, <1>6, <1>7 DEF Customer

LEMMA SmallHead ==
    ASSUME TypeInv, jobs # <<>>
    PROVE  Head(jobs) \in Small /\ Tail(jobs) \in Seq(Small)
  BY DEF TypeInv

(* An operation that only reads, and one that writes.                      *)
LEMMA ReadType ==
    ASSUME TypeInv, NEW op, NEW more \in Seq(Small), Then(op, more), UNCHANGED <<rows, screen>>
    PROVE  TypeInv'
<1>1. jobs' \in Seq(Small)
  BY SmallHead, ConcatProperties DEF Then, AtHead
<1>. QED
  BY <1>1 DEF TypeInv, screen, InCart

LEMMA WriteType ==
    ASSUME TypeInv, NEW op, Runs(op), UNCHANGED screen,
           \A p \in Products : rows'[p].qty \in 0..Limit, Bounded(InCart(rows)')
    PROVE  TypeInv'
<1>1. jobs' \in Seq(Small)
  BY SmallHead DEF Runs, AtHead
<1>. QED
  BY <1>1 DEF TypeInv, screen, InCart

LEMMA DatabaseType == ASSUME Inv, TypeInv, Database PROVE TypeInv'
<1>1. CASE GetCartData
  <2>1. /\ inCart' \in {inCart, rows} /\ UNCHANGED <<rows, data>>
        /\ details' = details \union Collected(CartAddOns(inCart'))
        /\ groups' \in {groups, Configured(groups, CartAddOns(inCart'), details')}
        /\ jobs' = Tail(jobs) /\ jobs # <<>>
    BY <1>1 DEF GetCartData, Runs, AtHead
  <2>2. inCart' \in Tables /\ Bounded(InCart(inCart'))
    BY <2>1 DEF Inv, TypeInv
  <2>3. PICK m : CartAddOns(inCart') \in AddOnLists(m)
    BY <2>2, CartAddOnsType
  <2>4. details' \subseteq Nat
    BY <2>1, <2>3, CollectedType DEF TypeInv
  <2>5. groups' \in Seq(Tidy)
    BY <2>1, <2>3, ConfiguredTidy DEF TypeInv
  <2>6. jobs' \in Seq(Small)
    BY <2>1, SmallHead
  <2>. QED
    BY <2>1, <2>2, <2>4, <2>5, <2>6 DEF TypeInv, InCart
<1>2. CASE GetCategoryDataDB
  <2>1. <<Job("products", Nothing)>> \in Seq(Small)
    BY SmallJobs
  <2>. QED
    BY <1>2, <2>1, ReadType DEF GetCategoryDataDB
<1>3. CASE GetProductDataDB
  <2>1. <<Job("cart", Nothing)>> \in Seq(Small)
    BY SmallJobs
  <2>2. /\ jobs' = Tail(jobs) \o <<Job("cart", Nothing)>> /\ jobs # <<>>
        /\ UNCHANGED <<rows, data, groups, details, inCart>>
    BY <1>3 DEF GetProductDataDB, Then, AtHead
  <2>3. jobs' \in Seq(Small)
    BY <2>1, <2>2, SmallHead, ConcatProperties
  <2>. QED
    BY <2>2, <2>3 DEF TypeInv, InCart
<1>4. CASE NoProducts
  <2>1. /\ jobs' = Tail(jobs) /\ jobs # <<>>
        /\ UNCHANGED <<rows, data, groups, details, inCart>>
    BY <1>4 DEF NoProducts, Runs, AtHead
  <2>. QED
    BY <2>1, SmallHead DEF TypeInv, InCart
<1>5. CASE UpdateQuantity
  <2>1. open \in Products /\ ScreenInv
    BY <1>5 DEF UpdateQuantity, Inv
  <2>2. Head(due) \in Products
    BY <1>5, <2>1 DEF UpdateQuantity, ScreenInv, Mates
  <2>3. inCart[Head(due)] \in RowsFor(Head(due))
    BY <2>2 DEF Inv, Tables
  <2>4. Decoded(inCart[Head(due)].addOns) \in Seq(Tidy)
    BY <2>3, DecodedTidy DEF RowsFor
  <2>4a. Appended(Head(due)) \in Seq(Tidy)
    BY <2>4, EmptySeq DEF Appended
  <2>5. groups' \in Seq(Tidy) /\ UNCHANGED <<rows, jobs, data, details, inCart>>
    BY <1>5, <2>4a, ConcatProperties DEF UpdateQuantity, TypeInv
  <2>. QED
    BY <2>5 DEF TypeInv, InCart
<1>6. CASE Find
  <2>. DEFINE next == [Head(jobs) EXCEPT !.op = IF Stored(Product) THEN "update" ELSE "all"]
  <2>1. AtHead("find") /\ Then("find", <<next>>) /\ UNCHANGED <<rows, screen>>
    BY <1>6 DEF Find, Then
  <2>2. Head(jobs) \in Small /\ Head(jobs) \in Jobs(BOOLEAN) /\ Head(jobs).op = "find"
    BY <2>1, SmallHead DEF AtHead, Small
  <2>3. Head(jobs) \in [op: {"find", "all", "insert", "update", "delete"}, what: Whats, live: BOOLEAN]
    BY <2>2 DEF Jobs
  <2>4. /\ next \in [op: {"find", "all", "insert", "update", "delete"}, what: Whats, live: BOOLEAN]
        /\ next.what = Head(jobs).what
    BY <2>3
  <2>. HIDE DEF next
  <2>5. next \in Small
    BY <2>2, <2>4 DEF Small, Jobs
  <2>6. <<next>> \in Seq(Small)
    BY <2>5
  <2>. QED
    BY <2>1, <2>6, ReadType
<1>7. CASE All
  <2>. DEFINE found == InCart(rows) \union {Product}
              w == [p \in found |-> IF p = Product THEN Head(jobs).what[p] ELSE rows[p]]
  <2>1. AtHead("all") /\ Then("all", <<Job("insert", w)>>) /\ UNCHANGED <<rows, screen>>
    BY <1>7 DEF All, Then
  <2>2. /\ Product \in Products /\ Product \in DOMAIN Head(jobs).what
        /\ Head(jobs).what[Product] \in RowsFor(Product)
    <3>1. PICK S \in (SUBSET Products) \ {{}} : Head(jobs).what \in [S -> AllRows]
      BY <2>1, HeadWrite DEF Whats
    <3>. QED
      BY <2>1, <3>1, HeadWrite DEF Product
  <2>3. Head(jobs).what[Product].qty \in 0..Limit
    BY <2>1, <2>2, SmallHead DEF AtHead, Small
  <2>4. /\ found \in (SUBSET Products) \ {{}}
        /\ \A p \in found : w[p] \in RowsFor(p) /\ w[p].qty \in 0..Limit
    BY <2>2, <2>3 DEF InCart, Inv, Tables, TypeInv
  <2>5. Bounded(found)
    <3>1. InCart(rows) \in SUBSET Nat /\ {Product} \in SUBSET Nat /\ Product \in Nat
      BY <2>2 DEF InCart
    <3>. QED
      BY <3>1, BoundedSets DEF TypeInv
  <2>6. w \in Whats /\ DOMAIN w = found
    <3>1. w = [p \in found |-> w[p]] /\ DOMAIN w = found
      OBVIOUS
    <3>. HIDE DEF w, found
    <3>. QED
      BY <2>4, <3>1, WhatOf
  <2>7. Job("insert", w) \in Small
    <3>. HIDE DEF w, found
    <3>1. Job("insert", w) \in Jobs(BOOLEAN) /\ Job("insert", w).what = w
      BY <2>6 DEF Job, Jobs
    <3>. QED
      BY <2>4, <2>5, <2>6, <3>1 DEF Small
  <2>8. <<Job("insert", w)>> \in Seq(Small)
    <3>. HIDE DEF w
    <3>. QED
      BY <2>7
  <2>. QED
    BY <2>1, <2>8, ReadType
<1>8. CASE Insert
  <2>. DEFINE what == Head(jobs).what
  <2>1. AtHead("insert") /\ Runs("insert") /\ UNCHANGED screen
    BY <1>8 DEF Insert, Runs
  <2>2. Head(jobs) \in Small /\ what \in Whats
    BY <2>1, SmallHead, HeadWrite DEF AtHead
  <2>3. rows' = [p \in Products |-> IF p \in DOMAIN what THEN what[p] ELSE rows[p]]
    BY <1>8 DEF Insert
  <2>4. \A p \in Products : rows'[p].qty \in 0..Limit
    BY <2>2, <2>3 DEF Small, TypeInv
  <2>5. /\ InCart(rows') \subseteq InCart(rows) \union DOMAIN what
        /\ InCart(rows) \in SUBSET Nat /\ DOMAIN what \in SUBSET Nat
    BY <2>2, <2>3 DEF InCart, Whats
  <2>6. Bounded(InCart(rows')) /\ InCart(rows)' = InCart(rows')
    <3>1. Bounded(InCart(rows)) /\ Bounded(DOMAIN what)
      BY <2>2 DEF TypeInv, Small
    <3>2. Bounded(InCart(rows) \union DOMAIN what)
      BY <2>5, <3>1, BoundedSets
    <3>. QED
      BY <2>5, <3>2, BoundedSets DEF InCart
  <2>. QED
    BY <2>1, <2>4, <2>6, WriteType
<1>9. CASE Update
  <2>1. AtHead("update") /\ Runs("update") /\ UNCHANGED screen
    BY <1>9 DEF Update, Runs
  <2>2. /\ Product \in Products /\ Product \in DOMAIN Head(jobs).what
        /\ Head(jobs).what[Product] \in RowsFor(Product)
    <3>1. PICK S \in (SUBSET Products) \ {{}} : Head(jobs).what \in [S -> AllRows]
      BY <2>1, HeadWrite DEF Whats
    <3>. QED
      BY <2>1, <3>1, HeadWrite DEF Product
  <2>3. Head(jobs).what[Product].qty \in 0..Limit
    BY <2>1, <2>2, SmallHead DEF AtHead, Small
  <2>4. PICK row : /\ rows' = [rows EXCEPT ![Product] = row] /\ row.qty \in 0..Limit
                   /\ Stored(Product) \/ row = rows[Product]
    BY <1>9, <2>2, <2>3 DEF Update, TypeInv
  <2>5. rows \in [Products -> AllRows]
    BY DEF Inv, Tables
  <2>6. /\ \A p \in Products : rows'[p].qty \in 0..Limit
        /\ InCart(rows)' \subseteq InCart(rows)
    BY <2>2, <2>4, <2>5 DEF TypeInv, InCart, Stored
  <2>7. Bounded(InCart(rows)')
    BY <2>6, BoundedSets DEF TypeInv
  <2>. QED
    BY <2>1, <2>6, <2>7, WriteType
<1>10. CASE Delete
  <2>1. /\ Runs("delete") /\ UNCHANGED screen /\ Product \in Products
        /\ rows' = [rows EXCEPT ![Product] = NoRow]
    BY <1>10, HeadWrite DEF Delete, Runs
  <2>2. rows \in [Products -> AllRows]
    BY DEF Inv, Tables
  <2>3. /\ \A p \in Products : rows'[p].qty \in 0..Limit
        /\ InCart(rows)' \subseteq InCart(rows)
    BY <2>1, <2>2 DEF TypeInv, InCart, NoRow
  <2>4. Bounded(InCart(rows)')
    BY <2>3, BoundedSets DEF TypeInv
  <2>. QED
    BY <2>1, <2>3, <2>4, WriteType
<1>11. ASSUME NEW op \in {"cart", "categories", "products", "all"}, Dropped(op) PROVE TypeInv'
  BY <1>11, WriteType DEF Dropped, InCart, TypeInv
<1>. QED
  BY <1>1, <1>2, <1>3, <1>4, <1>5, <1>6, <1>7, <1>8, <1>9, <1>10, <1>11 DEF Database

(* TypeOK, for any menu and offers and however many categories a screen    *)
(* has gathered: quantities within the limit in the cart and on the        *)
(* screen, only offered options marked, and whatever the preselection      *)
(* picked an option of some category.                                      *)
THEOREM TypeCorrect == Spec => []TypeOK
<1>1. Init => TypeInv
  <2>. SUFFICES ASSUME Init PROVE TypeInv
    OBVIOUS
  <2>1. InCart(rows) = {} /\ InCart(inCart) = {}
    BY DEF Init, InCart, NoRows, NoRow
  <2>2. jobs \in Seq(Small) /\ groups \in Seq(Tidy)
    BY EmptySeq DEF Init
  <2>3. Bounded(InCart(rows)) /\ Bounded(InCart(inCart))
    BY <2>1, BoundedSets
  <2>4. /\ \A p \in Products : rows[p].qty \in 0..Limit
        /\ data.qty \in 0..Limit /\ details \subseteq Nat
    BY DEF Init, NoRows, NoRow
  <2>. QED
    BY <2>2, <2>3, <2>4 DEF TypeInv
<1>2. Inv /\ TypeInv /\ [Next]_vars => TypeInv'
  <2>. SUFFICES ASSUME Inv, TypeInv, [Next]_vars PROVE TypeInv'
    OBVIOUS
  <2>1. CASE Next
    BY <2>1, CustomerType, DatabaseType DEF Next
  <2>2. CASE UNCHANGED vars
    BY <2>2 DEF vars, screen, TypeInv, InCart
  <2>. QED
    BY <2>1, <2>2
<1>3. Inv /\ TypeInv => TypeOK
  <2>. SUFFICES ASSUME Inv, TypeInv PROVE TypeOK
    OBVIOUS
  <2>. DEFINE R == [qty: 0..Limit, addOns: Seq([type: Types, options: SUBSET Nat])]
  <2>1. ASSUME NEW p \in Products PROVE rows[p] \in R
    <3>1. rows[p] \in RowsFor(p) /\ rows[p].qty \in 0..Limit
      BY DEF Inv, Tables, TypeInv
    <3>2. [type: Types, options: SUBSET OptionsIn(MenuOf[p])] \subseteq [type: Types, options: SUBSET Nat]
      BY OptionsType
    <3>3. rows[p].addOns \in Seq([type: Types, options: SUBSET Nat])
      <4>. DEFINE T == [type: Types, options: SUBSET OptionsIn(MenuOf[p])]
                  U == [type: Types, options: SUBSET Nat]
      <4>1. rows[p].addOns \in Seq(T) /\ T \subseteq U
        BY <3>1, <3>2 DEF RowsFor, AddOnLists
      <4>. HIDE DEF T, U
      <4>2. rows[p].addOns \in Seq(U)
        BY <4>1
      <4>. QED
        BY <4>2 DEF U
    <3>. QED
      BY <3>1, <3>3 DEF RowsFor
  <2>. HIDE DEF R
  <2>2. rows \in [Products -> R]
    BY <2>1 DEF Inv, Tables
  <2>3. groups \in Seq(Groups) /\ \A i \in DOMAIN groups : groups[i].marked \subseteq groups[i].options
    BY TidyItems DEF TypeInv, Tidy
  <2>4. \A i \in DOMAIN due : due[i] \in Products
    <3>1. CASE open = None
      BY <3>1 DEF Inv
    <3>2. CASE open # None
      <4>1. due \in Seq(Mates(open))
        BY <3>2 DEF Inv, ScreenInv
      <4>. QED
        BY <4>1 DEF Mates
    <3>. QED
      BY <3>1, <3>2
  <2>. QED
    BY <2>2, <2>3, <2>4 DEF Inv, TypeInv, TypeOK, R
<1>. QED
  BY <1>1, <1>2, <1>3, InvAlways, PTL DEF Spec
=============================================================================
