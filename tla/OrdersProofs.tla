----------------------------- MODULE OrdersProofs -----------------------------
(* Theorems about Orders, for any number of fetches under way, of orders,   *)
(* any size of a page and any bound on the pages.                           *)
EXTENDS Orders, SequenceTheorems, TLAPS

USE OrdersAssumption

Row == Types \X (Nat \ {0})

(* A fetch under way is for a page; a screen that is not there has none.    *)
Inv ==
    /\ TypeOK
    /\ \A f \in Fetches : Flying(f) => fetch[f].page # 0
    /\ kind = "none" => /\ shown = NoRows /\ NoneFlying
                        /\ ~more /\ careful /\ online /\ page = 1

(* How many orders the pages before page p hold. *)
Before(t, p) == IF Offset(p) >= Count[t] THEN Count[t] ELSE Offset(p)

(* What a customer who waits has on the screen. *)
Kept ==
    careful =>
        /\ \A t \in Types : /\ Len(shown[t]) <= Count[t]
                            /\ shown[t] = Pages!Top(t, Len(shown[t]))
        /\ kind = "history" => \A t \in Types \ {selected} : shown[t] = <<>>
        /\ \A f, g \in Fetches : Flying(f) /\ Flying(g) => f = g
        /\ \A f \in Fetches : Flying(f) =>
              /\ fetch[f].type = selected
              /\ fetch[f].page = page
              /\ fetch[f].more => /\ more /\ page # 1
                                  /\ Len(shown[selected]) = Before(selected, page)
              /\ ~fetch[f].more => /\ ~more /\ page = 1 /\ loading
                                   /\ shown[selected] = <<>>
        /\ NoneFlying => ~more
        /\ NoneFlying /\ Displayed =>
              /\ Len(shown[selected]) = Before(selected, page + 1)
              /\ kind = "history" => total = Count[selected]

-----------------------------------------------------------------------------
(* Pages of rows.                                                           *)

LEMMA OffsetNat ==
    ASSUME NEW p \in Nat \ {0}
    PROVE  /\ Offset(p) \in Nat
           /\ Offset(p + 1) = Offset(p) + PageSize
           /\ Offset(1) = 0
<1>1. PageSize \in Nat
  OBVIOUS
<1>2. PICK k \in Nat : p = k + 1
  OBVIOUS
<1>3. k * PageSize \in Nat /\ (k + 1) * PageSize = k * PageSize + PageSize
  BY <1>1
<1>4. p - 1 = k /\ (p + 1) - 1 = k + 1 /\ 1 - 1 = 0 /\ 0 * PageSize = 0
  BY <1>1, <1>2
<1>. QED
  BY <1>3, <1>4 DEF Offset

LEMMA RowsType ==
    ASSUME NEW t \in Types, NEW first \in Nat, NEW n \in Nat
    PROVE  /\ RowsFrom(t, first, n) \in Seq(Row)
           /\ Len(RowsFrom(t, first, n)) = n
           /\ \A i \in 1..n : RowsFrom(t, first, n)[i] = <<t, first + i>>
  BY DEF RowsFrom, Row

(* The rows after the first n, joined to the first n. *)
LEMMA Joined ==
    ASSUME NEW t \in Types, NEW n \in Nat, NEW k \in Nat
    PROVE  Pages!Top(t, n) \o RowsFrom(t, n, k) = Pages!Top(t, n + k)
<1>. DEFINE a == Pages!Top(t, n)
            b == RowsFrom(t, n, k)
            c == Pages!Top(t, n + k)
<1>1. a \in Seq(Row) /\ Len(a) = n /\ \A i \in 1..n : a[i] = <<t, i>>
  BY DEF Pages!Top, Row
<1>2. b \in Seq(Row) /\ Len(b) = k /\ \A i \in 1..k : b[i] = <<t, n + i>>
  BY RowsType
<1>3. c \in Seq(Row) /\ Len(c) = n + k /\ \A i \in 1..(n + k) : c[i] = <<t, i>>
  BY DEF Pages!Top, Row
<1>. HIDE DEF a, b, c
<1>4. /\ a \o b \in Seq(Row)
      /\ Len(a \o b) = n + k
      /\ \A i \in 1..(n + k) : (a \o b)[i] = IF i <= n THEN a[i] ELSE b[i - n]
  BY <1>1, <1>2, ConcatProperties
<1>5. ASSUME NEW i \in 1..(n + k) PROVE (a \o b)[i] = c[i]
  <2>1. CASE i <= n
    <3>1. i \in 1..n
      BY <2>1
    <3>2. (a \o b)[i] = a[i]
      BY <1>4, <2>1
    <3>. QED
      BY <1>1, <1>3, <3>1, <3>2
  <2>2. CASE ~(i <= n)
    <3>1. i - n \in 1..k /\ n + (i - n) = i
      BY <2>2
    <3>2. (a \o b)[i] = b[i - n]
      BY <1>4, <2>2
    <3>. QED
      BY <1>2, <1>3, <3>1, <3>2
  <2>. QED
    BY <2>1, <2>2
<1>6. a \o b = c
  BY <1>3, <1>4, <1>5, SeqEqual
<1>. QED
  BY <1>6 DEF a, b, c

(* A page is rows of its kind, and takes up where the pages before it end.  *)
LEMMA PageType ==
    ASSUME NEW t \in Types, NEW p \in Nat \ {0}
    PROVE  /\ PageLength(t, p) \in Nat
           /\ PageRows(t, p) \in Seq(Row)
           /\ Len(PageRows(t, p)) = PageLength(t, p)
           /\ \A i \in 1..Len(PageRows(t, p)) : PageRows(t, p)[i][1] = t
<1>1. Offset(p) \in Nat /\ Count[t] \in Nat
  BY OffsetNat
<1>2. PageLength(t, p) \in Nat
  BY <1>1 DEF PageLength
<1>3. /\ PageRows(t, p) \in Seq(Row)
      /\ Len(PageRows(t, p)) = PageLength(t, p)
      /\ \A i \in 1..PageLength(t, p) : PageRows(t, p)[i] = <<t, Offset(p) + i>>
  BY <1>1, <1>2, RowsType DEF PageRows
<1>. QED
  BY <1>2, <1>3

LEMMA NextPage ==
    ASSUME NEW t \in Types, NEW p \in Nat \ {0}
    PROVE  /\ Before(t, p) \in 0..Count[t]
           /\ Before(t, p) + PageLength(t, p) = Before(t, p + 1)
           /\ Before(t, 1) = 0
           /\ Pages!Top(t, Before(t, p)) \o PageRows(t, p) = Pages!Top(t, Before(t, p + 1))
<1>1. /\ Offset(p) \in Nat /\ Count[t] \in Nat
      /\ Offset(p + 1) = Offset(p) + PageSize
      /\ Offset(1) = 0
  BY OffsetNat
<1>2. /\ Before(t, p) \in 0..Count[t]
      /\ Before(t, p) + PageLength(t, p) = Before(t, p + 1)
      /\ Before(t, 1) = 0
  BY <1>1 DEF Before, PageLength
<1>3. CASE Offset(p) >= Count[t]
  <2>1. PageLength(t, p) = 0 /\ Before(t, p) = Count[t] /\ Before(t, p + 1) = Count[t]
    BY <1>1, <1>3 DEF PageLength, Before
  <2>2. PageRows(t, p) = <<>>
    BY <1>1, <2>1, RowsType DEF PageRows
  <2>3. Pages!Top(t, Count[t]) \in Seq(Row)
    BY <1>1 DEF Pages!Top, Row
  <2>. QED
    BY <1>2, <2>1, <2>2, <2>3
<1>4. CASE ~(Offset(p) >= Count[t])
  <2>1. Before(t, p) = Offset(p) /\ PageLength(t, p) \in Nat
    BY <1>1, <1>4 DEF PageLength, Before
  <2>2. PageRows(t, p) = RowsFrom(t, Before(t, p), PageLength(t, p)) /\ Before(t, p) \in Nat
    BY <1>1, <2>1 DEF PageRows
  <2>3. Pages!Top(t, Before(t, p)) \o PageRows(t, p)
            = Pages!Top(t, Before(t, p) + PageLength(t, p))
    BY <2>1, <2>2, Joined
  <2>. QED
    BY <1>2, <2>3
<1>. QED
  BY <1>3, <1>4

-----------------------------------------------------------------------------
(* Types, and what a closed screen leaves.                                  *)

LEMMA NoRowsType == NoRows \in [Types -> Seq(Row)]
<1>1. <<>> \in Seq(Row)
  BY EmptySeq
<1>. QED
  BY <1>1 DEF NoRows

LEMMA IdleType ==
    /\ Idle \in [stage: {"off", "check", "sent"}, type: Types, page: 0..MaxPage, more: BOOLEAN]
    /\ 1 \in 1..MaxPage /\ "past" \in Types
<1>1. "past" \in Types /\ 0 \in 0..MaxPage /\ 1 \in 1..MaxPage
  BY DEF Types
<1>. QED
  BY <1>1 DEF Idle

LEMMA ClosedInv ==
    ASSUME Closed
    PROVE  Inv' /\ Kept'
<1>1. shown' \in [Types -> Seq(Row)]
  BY NoRowsType DEF Closed
<1>2. TypeOK'
  <2>1. fetch' \in [Fetches -> [stage: {"off", "check", "sent"}, type: Types,
                                page: 0..MaxPage, more: BOOLEAN]]
    BY IdleType DEF Closed
  <2>. QED
    BY <1>1, <2>1, IdleType DEF Closed, TypeOK, Row
<1>3. \A f \in Fetches : ~Flying(f)'
  BY DEF Closed, Flying, Idle
<1>4. Inv'
  BY <1>2, <1>3 DEF Closed, Inv, NoneFlying
<1>5. \A t \in Types : Len(shown'[t]) = 0 /\ shown'[t] = Pages!Top(t, 0)
  BY DEF Closed, NoRows, Pages!Top
<1>6. Kept'
  BY <1>3, <1>5 DEF Closed, Kept, NoneFlying, Displayed
<1>. QED
  BY <1>4, <1>6

LEMMA InitInv == Init => Inv /\ Kept
<1>. SUFFICES ASSUME Init PROVE Inv /\ Kept
  OBVIOUS
<1>1. shown \in [Types -> Seq(Row)]
  BY NoRowsType DEF Init
<1>2. TypeOK
  <2>1. fetch \in [Fetches -> [stage: {"off", "check", "sent"}, type: Types,
                                page: 0..MaxPage, more: BOOLEAN]]
    BY IdleType DEF Init
  <2>. QED
    BY <1>1, <2>1, IdleType DEF Init, TypeOK, Row
<1>3. \A f \in Fetches : ~Flying(f)
  BY DEF Init, Flying, Idle
<1>4. Inv
  BY <1>2, <1>3 DEF Init, Inv, NoneFlying
<1>5. \A t \in Types : Len(shown[t]) = 0 /\ shown[t] = Pages!Top(t, 0)
  BY DEF Init, NoRows, Pages!Top
<1>6. Kept
  BY <1>3, <1>5 DEF Init, Kept, NoneFlying, Displayed
<1>. QED
  BY <1>4, <1>6

(* A fetch that begins is the only change among the fetches. *)
LEMMA Beginning ==
    ASSUME Inv, NEW f \in Fetches, NEW t \in Types, NEW p \in 1..MaxPage,
           NEW m \in BOOLEAN, Begin(f, t, p, m)
    PROVE  /\ ~Flying(f)
           /\ fetch' \in [Fetches -> [stage: {"off", "check", "sent"}, type: Types,
                                      page: 0..MaxPage, more: BOOLEAN]]
           /\ fetch'[f] = [stage |-> "check", type |-> t, page |-> p, more |-> m]
           /\ \A g \in Fetches \ {f} : fetch'[g] = fetch[g]
           /\ \A g \in Fetches : Flying(g)' => fetch'[g].page # 0
<1>1. [stage |-> "check", type |-> t, page |-> p, more |-> m]
        \in [stage: {"off", "check", "sent"}, type: Types, page: 0..MaxPage, more: BOOLEAN]
  OBVIOUS
<1>2. /\ ~Flying(f)
      /\ fetch' \in [Fetches -> [stage: {"off", "check", "sent"}, type: Types,
                                 page: 0..MaxPage, more: BOOLEAN]]
      /\ fetch'[f] = [stage |-> "check", type |-> t, page |-> p, more |-> m]
      /\ \A g \in Fetches \ {f} : fetch'[g] = fetch[g]
  BY <1>1 DEF Begin, Inv, TypeOK
<1>. QED
  BY <1>2 DEF Flying, Inv

(* A fetch that ends likewise. *)
LEMMA Ending ==
    ASSUME Inv, NEW f \in Fetches, Flying(f), fetch' = [fetch EXCEPT ![f] = Idle]
    PROVE  /\ fetch' \in [Fetches -> [stage: {"off", "check", "sent"}, type: Types,
                                      page: 0..MaxPage, more: BOOLEAN]]
           /\ fetch'[f] = Idle
           /\ \A g \in Fetches \ {f} : fetch'[g] = fetch[g]
           /\ ~Flying(f)'
           /\ \A g \in Fetches : Flying(g)' => Flying(g) /\ fetch'[g] = fetch[g]
           /\ kind # "none"
<1>1. Idle \in [stage: {"off", "check", "sent"}, type: Types, page: 0..MaxPage, more: BOOLEAN]
  BY DEF Idle, Types
<1>2. /\ fetch' \in [Fetches -> [stage: {"off", "check", "sent"}, type: Types,
                                 page: 0..MaxPage, more: BOOLEAN]]
      /\ fetch'[f] = Idle
      /\ \A g \in Fetches \ {f} : fetch'[g] = fetch[g]
  BY <1>1 DEF Inv, TypeOK
<1>. QED
  BY <1>2 DEF Flying, Idle, Inv, NoneFlying

(* The list after an answer. *)
LEMMA GrownType ==
    ASSUME Inv, NEW f \in Fetches, Flying(f)
    PROVE  /\ Target(f) \in Types
           /\ Grown(f) \in Seq(Row)
           /\ TotalRows(fetch[f].type, fetch[f].page) \in Nat
<1>1. fetch[f].type \in Types /\ fetch[f].page \in Nat \ {0}
  BY DEF Inv, TypeOK
<1>2. Target(f) \in Types
  BY <1>1 DEF Target, Inv, TypeOK
<1>3. PageRows(fetch[f].type, fetch[f].page) \in Seq(Row)
  BY <1>1, PageType
<1>4. shown[Target(f)] \in Seq(Row)
  BY <1>2 DEF Inv, TypeOK, Row
<1>5. Grown(f) \in Seq(Row)
  BY <1>3, <1>4, ConcatProperties DEF Grown
<1>. QED
  BY <1>1, <1>2, <1>5 DEF TotalRows

LEMMA NextInv == Inv /\ [Next]_vars => Inv'
<1>. SUFFICES ASSUME Inv, [Next]_vars PROVE Inv'
  OBVIOUS
<1>0. TypeOK /\ \A f \in Fetches : Flying(f) => fetch[f].page # 0
  BY DEF Inv
<1>1. ASSUME NEW k \in {"history", "active"}, Open(k) PROVE Inv'
  <2>1. selected' \in Types /\ 1 \in 1..MaxPage
    BY <1>1 DEF Open, Types
  <2>2. /\ fetch' \in [Fetches -> [stage: {"off", "check", "sent"}, type: Types,
                                   page: 0..MaxPage, more: BOOLEAN]]
        /\ \A g \in Fetches : Flying(g)' => fetch'[g].page # 0
    BY <1>1, <2>1, Beginning DEF Open
  <2>3. kind' \in {"history", "active"} /\ loading'
        /\ UNCHANGED <<shown, page, total, more, online, careful>>
    BY <1>1 DEF Open, listVars
  <2>. QED
    BY <1>0, <2>1, <2>2, <2>3 DEF Inv, TypeOK
<1>2. CASE Leave
  BY <1>2, ClosedInv DEF Leave
<1>3. ASSUME NEW t \in Types, SelectType(t) \/ TapTab(t) PROVE Inv'
  <2>1. /\ fetch' \in [Fetches -> [stage: {"off", "check", "sent"}, type: Types,
                                   page: 0..MaxPage, more: BOOLEAN]]
        /\ \A g \in Fetches : Flying(g)' => fetch'[g].page # 0
    <3>1. PICK f \in Fetches : Begin(f, t, 1, FALSE)
      BY <1>3 DEF SelectType, TapTab
    <3>. QED
      BY <3>1, IdleType, Beginning
  <2>2. shown' \in [Types -> Seq(Row)]
    <3>1. <<>> \in Seq(Row) /\ shown \in [Types -> Seq(Row)]
      BY <1>0, EmptySeq DEF TypeOK, Row
    <3>2. CASE shown' = NoRows
      BY <3>2, NoRowsType
    <3>3. CASE shown' = [shown EXCEPT ![t] = <<>>]
      BY <3>1, <3>3
    <3>. QED
      BY <1>3, <3>2, <3>3 DEF SelectType, TapTab
  <2>3. /\ kind' = kind /\ kind # "none" /\ selected' = t /\ page' = 1 /\ loading' = TRUE
        /\ UNCHANGED <<total, more, online>>
    BY <1>3 DEF SelectType, TapTab
  <2>4. careful' \in BOOLEAN
    <3>1. careful' = (careful /\ NoneFlying)
      BY <1>3 DEF SelectType, TapTab
    <3>. QED
      BY <3>1, Zenon
  <2>5. loading' \in BOOLEAN
    BY <2>3, Zenon
  <2>. QED
    BY <1>0, <2>1, <2>2, <2>3, <2>4, <2>5 DEF Inv, TypeOK, Row
<1>4. CASE Scroll
  <2>1. page + 1 \in 1..MaxPage /\ selected \in Types /\ kind # "none"
    BY <1>0, <1>4 DEF Scroll, TypeOK, Displayed
  <2>2. /\ fetch' \in [Fetches -> [stage: {"off", "check", "sent"}, type: Types,
                                   page: 0..MaxPage, more: BOOLEAN]]
        /\ \A g \in Fetches : Flying(g)' => fetch'[g].page # 0
    BY <1>4, <2>1, Beginning DEF Scroll
  <2>3. page' = page + 1 /\ more' = TRUE
        /\ UNCHANGED <<kind, selected, shown, total, loading, online, careful>>
    BY <1>4 DEF Scroll
  <2>. QED
    BY <1>0, <2>1, <2>2, <2>3 DEF Inv, TypeOK
<1>5. ASSUME NEW f \in Fetches, Offline(f) PROVE Inv'
  <2>1. Flying(f) /\ fetch' = [fetch EXCEPT ![f] = Idle]
    BY <1>5 DEF Offline, Flying
  <2>2. /\ fetch' \in [Fetches -> [stage: {"off", "check", "sent"}, type: Types,
                                   page: 0..MaxPage, more: BOOLEAN]]
        /\ \A g \in Fetches : Flying(g)' => fetch'[g].page # 0
        /\ kind # "none"
    BY <1>0, <2>1, Ending
  <2>3. loading' \in BOOLEAN /\ more' \in BOOLEAN /\ online' \in BOOLEAN
    BY <1>5, Zenon DEF Offline
  <2>. QED
    BY <1>0, <1>5, <2>2, <2>3 DEF Offline, Inv, TypeOK, listVars
<1>6. ASSUME NEW f \in Fetches, Ask(f) PROVE Inv'
  <2>1. Asked(f) \in Types
    BY <1>0 DEF Asked, TypeOK
  <2>2. /\ fetch' \in [Fetches -> [stage: {"off", "check", "sent"}, type: Types,
                                   page: 0..MaxPage, more: BOOLEAN]]
        /\ \A g \in Fetches : fetch'[g].page = fetch[g].page
        /\ \A g \in Fetches : Flying(g)' <=> Flying(g)
    BY <1>0, <1>6, <2>1 DEF Ask, TypeOK, Flying
  <2>. QED
    BY <1>0, <1>6, <2>2 DEF Ask, Inv, TypeOK, listVars, flagVars, NoneFlying
<1>7. ASSUME NEW f \in Fetches, Answered(f) PROVE Inv'
  <2>1. Flying(f) /\ fetch' = [fetch EXCEPT ![f] = Idle]
    BY <1>7 DEF Answered, Flying
  <2>2. /\ fetch' \in [Fetches -> [stage: {"off", "check", "sent"}, type: Types,
                                   page: 0..MaxPage, more: BOOLEAN]]
        /\ \A g \in Fetches : Flying(g)' => fetch'[g].page # 0
        /\ kind # "none"
    BY <1>0, <2>1, Ending
  <2>3. loading' \in BOOLEAN /\ more' \in BOOLEAN
    BY <1>7, Zenon DEF Answered
  <2>4. shown' \in [Types -> Seq(Row)] /\ total' \in Nat
    BY <1>0, <1>7, <2>1, GrownType DEF Answered, TypeOK, Row
  <2>. QED
    BY <1>0, <1>7, <2>2, <2>3, <2>4 DEF Answered, Inv, TypeOK, Row
<1>8. ASSUME NEW f \in Fetches, Refused(f) PROVE Inv'
  <2>1. Flying(f) /\ fetch' = [fetch EXCEPT ![f] = Idle]
    BY <1>8 DEF Refused, Flying
  <2>2. /\ fetch' \in [Fetches -> [stage: {"off", "check", "sent"}, type: Types,
                                   page: 0..MaxPage, more: BOOLEAN]]
        /\ \A g \in Fetches : Flying(g)' => fetch'[g].page # 0
        /\ kind # "none"
    BY <1>0, <2>1, Ending
  <2>3. loading' \in BOOLEAN /\ more' \in BOOLEAN /\ careful' \in BOOLEAN
    BY <1>8, Zenon DEF Refused
  <2>. QED
    BY <1>0, <1>8, <2>2, <2>3 DEF Refused, Inv, TypeOK, listVars
<1>9. CASE UNCHANGED vars
  BY <1>0, <1>9 DEF vars, listVars, flagVars, Inv, TypeOK, Flying, NoneFlying
<1>. QED
  BY <1>1, <1>2, <1>3, <1>4, <1>5, <1>6, <1>7, <1>8, <1>9 DEF Next, Customer, Serve

LEMMA InvAlways == Spec => []Inv
<1>1. Init => Inv
  BY InitInv
<1>. QED
  BY <1>1, NextInv, PTL DEF Spec

(* The state of both screens keeps its types (orderHistoryScreen.dart:30-55, *)
(* activeOrdersScreen.dart:25-45), whatever is fetched, late or lost.       *)
THEOREM TypeCorrect == Spec => []TypeOK
<1>1. Inv => TypeOK
  BY DEF Inv
<1>. QED
  BY <1>1, InvAlways, PTL

-----------------------------------------------------------------------------
(* The flags.                                                               *)

LEMMA FlagsNext == Inv /\ FlagsHaveReason /\ [Next]_vars => FlagsHaveReason'
<1>. SUFFICES ASSUME Inv, FlagsHaveReason, [Next]_vars PROVE FlagsHaveReason'
  OBVIOUS
<1>0. TypeOK
  BY DEF Inv
<1>1. ASSUME NEW f \in Fetches, NEW t \in Types, NEW p \in 1..MaxPage, NEW m \in BOOLEAN,
             Begin(f, t, p, m), m => ~more, more' = (more \/ m)
      PROVE  FlagsHaveReason'
  <2>1. /\ ~Flying(f)
        /\ fetch'[f] = [stage |-> "check", type |-> t, page |-> p, more |-> m]
        /\ \A g \in Fetches \ {f} : fetch'[g] = fetch[g]
    BY <1>1, Beginning
  <2>2. Flying(f)'
    BY <2>1 DEF Flying
  <2>3. ScrollFetches' = ScrollFetches \cup (IF m THEN {f} ELSE {})
    BY <2>1, <2>2 DEF ScrollFetches, Flying
  <2>4. m => ScrollFetches = {}
    BY <1>1 DEF FlagsHaveReason
  <2>. QED
    BY <1>1, <2>2, <2>3, <2>4 DEF FlagsHaveReason, NoneFlying
<1>2. ASSUME NEW f \in Fetches, Flying(f), ~loading', more' = (more /\ ~fetch[f].more),
             fetch' = [fetch EXCEPT ![f] = Idle]
      PROVE  FlagsHaveReason'
  <2>1. /\ ~Flying(f)'
        /\ \A g \in Fetches \ {f} : fetch'[g] = fetch[g]
    BY <1>2, Ending
  <2>2. ScrollFetches' = ScrollFetches \ {f}
    BY <2>1 DEF ScrollFetches, Flying
  <2>3. f \in ScrollFetches <=> fetch[f].more
    BY <1>2 DEF ScrollFetches
  <2>. QED
    BY <1>2, <2>2, <2>3 DEF FlagsHaveReason
<1>3. ASSUME NEW k \in {"history", "active"}, Open(k) PROVE FlagsHaveReason'
  <2>1. selected' \in Types /\ 1 \in 1..MaxPage /\ more' = more
    BY <1>3 DEF Open, Types
  <2>2. PICK f \in Fetches : Begin(f, selected', 1, FALSE)
    BY <1>3 DEF Open
  <2>. QED
    BY <1>0, <1>1, <2>1, <2>2 DEF TypeOK
<1>4. CASE Leave
  BY <1>4 DEF Leave, Closed, FlagsHaveReason, ScrollFetches, Flying, Idle
<1>5. ASSUME NEW t \in Types, SelectType(t) \/ TapTab(t) PROVE FlagsHaveReason'
  <2>1. more' = more
    BY <1>5, Zenon DEF SelectType, TapTab
  <2>2. PICK f \in Fetches : Begin(f, t, 1, FALSE)
    BY <1>5 DEF SelectType, TapTab
  <2>. QED
    BY <1>0, <1>1, <2>1, <2>2, IdleType DEF TypeOK
<1>6. CASE Scroll
  <2>1. page + 1 \in 1..MaxPage /\ selected \in Types /\ ~more /\ more' = TRUE
    BY <1>0, <1>6 DEF Scroll, MayLoadMore, TypeOK
  <2>2. PICK f \in Fetches : Begin(f, selected, page + 1, TRUE)
    BY <1>6 DEF Scroll
  <2>. QED
    BY <1>1, <2>1, <2>2
<1>7. ASSUME NEW f \in Fetches, Offline(f) \/ Answered(f) \/ Refused(f) PROVE FlagsHaveReason'
  BY <1>2, <1>7 DEF Offline, Answered, Refused, Flying
<1>8. ASSUME NEW f \in Fetches, Ask(f) PROVE FlagsHaveReason'
  <2>1. /\ \A g \in Fetches : (Flying(g)' <=> Flying(g)) /\ fetch'[g].more = fetch[g].more
        /\ loading' = loading /\ more' = more
    BY <1>0, <1>8 DEF Ask, TypeOK, Flying, flagVars
  <2>2. ScrollFetches' = ScrollFetches
    BY <2>1 DEF ScrollFetches
  <2>. QED
    BY <2>1, <2>2 DEF FlagsHaveReason, NoneFlying
<1>9. CASE UNCHANGED vars
  BY <1>9 DEF vars, flagVars, FlagsHaveReason, ScrollFetches, Flying, NoneFlying
<1>. QED
  BY <1>3, <1>4, <1>5, <1>6, <1>7, <1>8, <1>9 DEF Next, Customer, Serve

(* No end of a fetch is without the setState that lowers its flag: the      *)
(* shimmer and _isLoadingMore are never left up with nothing to wait for,   *)
(* and _isLoadingMore lets no second page be fetched beside the first.      *)
THEOREM FlagsLowered == Spec => []FlagsHaveReason
<1>1. Init => FlagsHaveReason
  BY DEF Init, FlagsHaveReason, ScrollFetches, Flying, Idle
<1>. QED
  BY <1>1, FlagsNext, InvAlways, PTL DEF Spec

-----------------------------------------------------------------------------
(* The lists of ActiveOrdersScreen, for hasty customers too.                *)

LEMMA OwnNext == Inv /\ OwnOrders /\ [Next]_vars => OwnOrders'
<1>. SUFFICES ASSUME Inv, OwnOrders, [Next]_vars PROVE OwnOrders'
  OBVIOUS
<1>1. ASSUME NEW k \in {"history", "active"}, Open(k) PROVE OwnOrders'
  BY <1>1 DEF Open, Inv, NoRows, OwnOrders, listVars
<1>2. CASE Leave
  BY <1>2 DEF Leave, Closed, OwnOrders
<1>3. ASSUME NEW t \in Types, SelectType(t) \/ TapTab(t) PROVE OwnOrders'
  <2>1. CASE SelectType(t)
    BY <2>1 DEF SelectType, OwnOrders
  <2>2. CASE TapTab(t)
    <3>1. kind = "active" /\ shown \in [Types -> Seq(Row)]
      BY <2>2 DEF TapTab, Inv, TypeOK, Row
    <3>2. shown' = [shown EXCEPT ![t] = <<>>]
      BY <2>2 DEF TapTab
    <3>3. \A u \in Types : shown'[u] = IF u = t THEN <<>> ELSE shown[u]
      BY <3>1, <3>2
    <3>4. \A i \in 1..Len(<<>>) : FALSE
      OBVIOUS
    <3>. QED
      BY <3>1, <3>3, <3>4 DEF OwnOrders
  <2>. QED
    BY <1>3, <2>1, <2>2
<1>4. CASE Scroll
  BY <1>4 DEF Scroll, OwnOrders
<1>5. ASSUME NEW f \in Fetches, Offline(f) \/ Ask(f) \/ Refused(f) PROVE OwnOrders'
  BY <1>5 DEF Offline, Ask, Refused, OwnOrders, listVars
<1>6. ASSUME NEW f \in Fetches, Answered(f) PROVE OwnOrders'
  <2>. SUFFICES ASSUME kind' = "active"
                PROVE  \A t \in Types : \A i \in 1..Len(shown'[t]) : shown'[t][i][1] = t
    BY DEF OwnOrders
  <2>. DEFINE u == fetch[f].type
              rows == PageRows(u, fetch[f].page)
  <2>1. kind = "active" /\ Flying(f)
    BY <1>6 DEF Answered, Flying
  <2>2. u \in Types /\ fetch[f].page \in Nat \ {0}
    BY <2>1 DEF Inv, TypeOK
  <2>3. shown' = [shown EXCEPT ![u] = shown[u] \o rows]
    BY <1>6, <2>1 DEF Answered, Target, Grown
  <2>4. rows \in Seq(Row) /\ \A i \in 1..Len(rows) : rows[i][1] = u
    BY <2>2, PageType
  <2>5. /\ \A t \in Types : shown[t] \in Seq(Row)
        /\ \A t \in Types : \A i \in 1..Len(shown[t]) : shown[t][i][1] = t
        /\ shown \in [Types -> Seq(Row)]
    BY <2>1 DEF OwnOrders, Inv, TypeOK, Row
  <2>. HIDE DEF u, rows
  <2>6. \A i \in 1..Len(shown[u] \o rows) : (shown[u] \o rows)[i][1] = u
    <3>1. shown[u] \in Seq(Row) /\ Len(shown[u]) \in Nat /\ Len(rows) \in Nat
      BY <2>2, <2>4, <2>5
    <3>2. /\ Len(shown[u] \o rows) = Len(shown[u]) + Len(rows)
          /\ \A i \in 1..(Len(shown[u]) + Len(rows)) : (shown[u] \o rows)[i] =
                IF i <= Len(shown[u]) THEN shown[u][i] ELSE rows[i - Len(shown[u])]
      BY <2>4, <3>1, ConcatProperties
    <3>3. ASSUME NEW i \in 1..(Len(shown[u]) + Len(rows))
          PROVE  (shown[u] \o rows)[i][1] = u
      <4>1. CASE i <= Len(shown[u])
        <5>1. i \in 1..Len(shown[u])
          BY <3>1, <4>1
        <5>. QED
          BY <2>2, <2>5, <3>2, <4>1, <5>1
      <4>2. CASE ~(i <= Len(shown[u]))
        <5>1. i - Len(shown[u]) \in 1..Len(rows)
          BY <3>1, <4>2
        <5>. QED
          BY <2>4, <3>2, <4>2, <5>1
      <4>. QED
        BY <4>1, <4>2
    <3>. QED
      BY <3>2, <3>3
  <2>. QED
    BY <2>2, <2>3, <2>5, <2>6
<1>7. CASE UNCHANGED vars
  BY <1>7 DEF vars, listVars, OwnOrders
<1>. QED
  BY <1>1, <1>2, <1>3, <1>4, <1>5, <1>6, <1>7 DEF Next, Customer, Serve

(* On ActiveOrdersScreen no order is ever listed under the other tab, for   *)
(* the answer goes where its request came from (activeOrdersScreen.dart:    *)
(* 392-433).                                                                *)
THEOREM OwnOrdersKept == Spec => []OwnOrders
<1>1. Init => OwnOrders
  BY DEF Init, OwnOrders
<1>. QED
  BY <1>1, OwnNext, InvAlways, PTL DEF Spec

-----------------------------------------------------------------------------
(* The lists of a customer who waits.                                       *)

LEMMA TopType ==
    ASSUME NEW t \in Types, NEW n \in Nat
    PROVE  Pages!Top(t, n) \in Seq(Row) /\ Len(Pages!Top(t, n)) = n
  BY DEF Pages!Top, Row

LEMMA NoRowsTop ==
    ASSUME NEW t \in Types
    PROVE  NoRows[t] = <<>> /\ Len(<<>>) = 0 /\ <<>> = Pages!Top(t, 0)
  BY DEF NoRows, Pages!Top

(* A list that starts again, with nothing else under way. *)
LEMMA FirstPage ==
    ASSUME Inv, NoneFlying, ~more', page' = 1, loading', selected' \in Types,
           NEW f \in Fetches, Begin(f, selected', 1, FALSE),
           shown'[selected'] = <<>>,
           \A t \in Types : /\ Len(shown'[t]) <= Count[t]
                            /\ shown'[t] = Pages!Top(t, Len(shown'[t])),
           kind' = "history" => \A t \in Types \ {selected'} : shown'[t] = <<>>
    PROVE  Kept'
<1>1. /\ fetch'[f] = [stage |-> "check", type |-> selected', page |-> 1, more |-> FALSE]
      /\ \A g \in Fetches \ {f} : fetch'[g] = fetch[g]
  <2>1. 1 \in 1..MaxPage
    OBVIOUS
  <2>. QED
    BY <2>1, Beginning
<1>2. \A g \in Fetches : Flying(g)' <=> g = f
  BY <1>1 DEF NoneFlying, Flying
<1>. QED
  BY <1>1, <1>2 DEF Kept, NoneFlying

(* What an answer that was waited for makes of its list. *)
LEMMA NextRows ==
    ASSUME Inv, Kept, careful, NEW f \in Fetches, Flying(f)
    PROVE  /\ fetch[f].type = selected /\ Target(f) = selected
           /\ fetch[f].page = page /\ page \in Nat \ {0}
           /\ Len(shown[selected]) = Before(selected, page)
           /\ Grown(f) = Pages!Top(selected, Before(selected, page + 1))
<1>1. /\ fetch[f].type = selected /\ fetch[f].page = page
      /\ page \in Nat \ {0} /\ selected \in Types
      /\ shown[selected] = Pages!Top(selected, Len(shown[selected]))
  BY DEF Kept, Inv, TypeOK
<1>2. Target(f) = selected
  BY <1>1 DEF Target
<1>3. /\ Before(selected, page) \in 0..Count[selected]
      /\ Before(selected, 1) = 0
      /\ Pages!Top(selected, Before(selected, page)) \o PageRows(selected, page)
            = Pages!Top(selected, Before(selected, page + 1))
  BY <1>1, NextPage
<1>4. Len(shown[selected]) = Before(selected, page)
  <2>1. CASE fetch[f].more
    BY <2>1 DEF Kept
  <2>2. CASE ~fetch[f].more
    <3>1. page = 1 /\ shown[selected] = <<>>
      BY <2>2 DEF Kept
    <3>. QED
      BY <1>1, <1>3, <3>1, NoRowsTop
  <2>. QED
    BY <2>1, <2>2
<1>5. shown[selected] \o PageRows(selected, page) = Pages!Top(selected, Before(selected, page + 1))
  BY <1>1, <1>3, <1>4
<1>6. page = 1 => PageRows(selected, page) = shown[selected] \o PageRows(selected, page)
  <2>1. SUFFICES ASSUME page = 1
                 PROVE  PageRows(selected, page) = shown[selected] \o PageRows(selected, page)
    OBVIOUS
  <2>2. shown[selected] = <<>>
    BY <1>1, <1>3, <1>4, <2>1, NoRowsTop
  <2>3. PageRows(selected, page) \in Seq(Row)
    BY <1>1, PageType
  <2>. QED
    BY <2>2, <2>3, ConcatEmptySeq
<1>7. Grown(f) = shown[selected] \o PageRows(selected, page)
  BY <1>1, <1>2, <1>6 DEF Grown
<1>. QED
  BY <1>1, <1>2, <1>4, <1>5, <1>7

LEMMA NextKept == Inv /\ Kept /\ [Next]_vars => Kept'
<1>. SUFFICES ASSUME Inv, Kept, [Next]_vars PROVE Kept'
  OBVIOUS
<1>0. TypeOK
  BY DEF Inv
<1>1. ASSUME NEW k \in {"history", "active"}, Open(k) PROVE Kept'
  <2>1. /\ shown' = NoRows /\ NoneFlying /\ ~more' /\ page' = 1 /\ loading'
        /\ selected' \in Types
    BY <1>1 DEF Open, Inv, listVars, Types
  <2>2. \A t \in Types : /\ shown'[t] = <<>> /\ Len(shown'[t]) <= Count[t]
                         /\ shown'[t] = Pages!Top(t, Len(shown'[t]))
    BY <2>1, NoRowsTop
  <2>. QED
    BY <1>1, <2>1, <2>2, FirstPage DEF Open
<1>2. CASE Leave
  BY <1>2, ClosedInv DEF Leave
<1>3. ASSUME NEW t \in Types, SelectType(t) \/ TapTab(t) PROVE Kept'
  <2>1. SUFFICES ASSUME careful' PROVE Kept'
    BY DEF Kept
  <2>2. /\ careful /\ NoneFlying /\ selected' = t /\ page' = 1 /\ loading' /\ more' = more
    BY <1>3, <2>1 DEF SelectType, TapTab
  <2>3. ~more
    BY <2>2 DEF Kept
  <2>4. /\ shown'[t] = <<>>
        /\ \A u \in Types : shown'[u] = <<>> \/ shown'[u] = shown[u]
        /\ kind' = "history" => \A u \in Types : shown'[u] = <<>>
    BY <1>0, <1>3 DEF SelectType, TapTab, NoRows, TypeOK
  <2>5. \A u \in Types : /\ Len(shown'[u]) <= Count[u]
                         /\ shown'[u] = Pages!Top(u, Len(shown'[u]))
    BY <2>2, <2>4, NoRowsTop DEF Kept
  <2>. QED
    BY <1>3, <2>2, <2>3, <2>4, <2>5, FirstPage DEF SelectType, TapTab
<1>4. CASE Scroll
  <2>1. SUFFICES ASSUME careful' PROVE Kept'
    BY DEF Kept
  <2>2. /\ careful /\ Displayed /\ ~loading /\ ~more
        /\ page' = page + 1 /\ more' = TRUE
        /\ UNCHANGED <<kind, selected, shown, total, loading, online>>
    BY <1>4, <2>1 DEF Scroll, Displayed, MayLoadMore
  <2>3. NoneFlying
    BY <2>2 DEF Kept, NoneFlying
  <2>4. Len(shown[selected]) = Before(selected, page + 1) /\ page \in Nat \ {0}
    BY <1>0, <2>2, <2>3 DEF Kept, TypeOK
  <2>5. page + 1 \in 1..MaxPage /\ selected \in Types
    BY <1>0, <1>4 DEF Scroll, TypeOK
  <2>6. PICK f \in Fetches : Begin(f, selected, page + 1, TRUE)
    BY <1>4 DEF Scroll
  <2>7. /\ fetch'[f] = [stage |-> "check", type |-> selected, page |-> page + 1, more |-> TRUE]
        /\ \A g \in Fetches \ {f} : fetch'[g] = fetch[g]
    BY <2>5, <2>6, Beginning
  <2>8. \A g \in Fetches : Flying(g)' <=> g = f
    BY <2>3, <2>7 DEF NoneFlying, Flying
  <2>9. /\ \A t \in Types : /\ Len(shown'[t]) <= Count[t]
                            /\ shown'[t] = Pages!Top(t, Len(shown'[t]))
        /\ kind' = "history" => \A t \in Types \ {selected'} : shown'[t] = <<>>
    BY <2>2 DEF Kept
  <2>. QED
    BY <2>2, <2>4, <2>7, <2>8, <2>9 DEF Kept, NoneFlying
<1>5. ASSUME NEW f \in Fetches, Offline(f) PROVE Kept'
  <2>1. SUFFICES ASSUME careful' PROVE Kept'
    BY DEF Kept
  <2>2. /\ careful /\ Flying(f) /\ ~online' /\ more' = (more /\ ~fetch[f].more)
        /\ fetch' = [fetch EXCEPT ![f] = Idle]
        /\ UNCHANGED <<kind, selected, shown, page>>
    BY <1>5, <2>1 DEF Offline, Flying, listVars
  <2>3. \A g \in Fetches : ~Flying(g)'
    BY <2>2, Ending DEF Kept
  <2>4. ~more'
    BY <2>2 DEF Kept
  <2>. QED
    BY <2>2, <2>3, <2>4 DEF Kept, Displayed
<1>6. ASSUME NEW f \in Fetches, Ask(f) PROVE Kept'
  <2>1. SUFFICES ASSUME careful' PROVE Kept'
    BY DEF Kept
  <2>2. /\ careful /\ Flying(f)
        /\ UNCHANGED <<kind, selected, shown, page, more, loading>>
    BY <1>6, <2>1 DEF Ask, Flying, listVars, flagVars
  <2>3. Asked(f) = selected
    BY <2>2 DEF Asked, Kept
  <2>4. /\ \A g \in Fetches : Flying(g)' <=> Flying(g)
        /\ fetch'[f].type = selected
        /\ fetch'[f].page = fetch[f].page /\ fetch'[f].more = fetch[f].more
        /\ Flying(f)'
    BY <1>0, <1>6, <2>2, <2>3 DEF Ask, TypeOK, Flying
  <2>5. \A g \in Fetches : Flying(g)' => g = f
    BY <2>2, <2>4 DEF Kept
  <2>. QED
    BY <2>2, <2>4, <2>5 DEF Kept, NoneFlying
<1>7. ASSUME NEW f \in Fetches, Answered(f) PROVE Kept'
  <2>1. SUFFICES ASSUME careful' PROVE Kept'
    BY DEF Kept
  <2>2. /\ careful /\ Flying(f) /\ more' = (more /\ ~fetch[f].more)
        /\ fetch' = [fetch EXCEPT ![f] = Idle]
        /\ shown' = [shown EXCEPT ![Target(f)] = Grown(f)]
        /\ total' = IF kind = "history" THEN TotalRows(fetch[f].type, fetch[f].page) ELSE total
        /\ UNCHANGED <<kind, selected, page>>
    BY <1>7, <2>1 DEF Answered, Flying
  <2>3. \A g \in Fetches : ~Flying(g)'
    BY <2>2, Ending DEF Kept
  <2>4. ~more'
    BY <2>2 DEF Kept
  <2>5. /\ Target(f) = selected /\ fetch[f].type = selected
        /\ page \in Nat \ {0} /\ selected \in Types
        /\ Grown(f) = Pages!Top(selected, Before(selected, page + 1))
    BY <1>0, <2>2, NextRows DEF TypeOK
  <2>6. Before(selected, page + 1) \in 0..Count[selected]
    BY <2>5, NextPage
  <2>7. /\ shown'[selected] = Pages!Top(selected, Before(selected, page + 1))
        /\ Len(shown'[selected]) = Before(selected, page + 1)
        /\ \A t \in Types \ {selected} : shown'[t] = shown[t]
    BY <1>0, <2>2, <2>5, <2>6, TopType DEF TypeOK
  <2>8. kind' = "history" => total' = Count[selected]
    BY <2>2, <2>5 DEF TotalRows
  <2>9. \A t \in Types : /\ Len(shown'[t]) <= Count[t]
                         /\ shown'[t] = Pages!Top(t, Len(shown'[t]))
    BY <2>2, <2>5, <2>6, <2>7 DEF Kept
  <2>10. kind' = "history" => \A t \in Types \ {selected'} : shown'[t] = <<>>
    BY <2>2, <2>7 DEF Kept
  <2>. QED
    BY <2>2, <2>3, <2>4, <2>7, <2>8, <2>9, <2>10 DEF Kept
<1>8. ASSUME NEW f \in Fetches, Refused(f) PROVE Kept'
  <2>1. SUFFICES ASSUME careful' PROVE Kept'
    BY DEF Kept
  <2>2. /\ careful /\ Flying(f) /\ more' = (more /\ ~fetch[f].more)
        /\ fetch[f].page = 1
        /\ fetch' = [fetch EXCEPT ![f] = Idle]
        /\ UNCHANGED <<kind, selected, shown, page>>
    BY <1>8, <2>1 DEF Refused, Flying, listVars
  <2>3. \A g \in Fetches : ~Flying(g)'
    BY <2>2, Ending DEF Kept
  <2>4. ~more' /\ shown[selected] = <<>>
    BY <2>2 DEF Kept
  <2>. QED
    BY <2>2, <2>3, <2>4 DEF Kept, Displayed
<1>9. CASE UNCHANGED vars
  BY <1>9 DEF vars, listVars, flagVars, Kept, Flying, NoneFlying, Displayed
<1>. QED
  BY <1>1, <1>2, <1>3, <1>4, <1>5, <1>6, <1>7, <1>8, <1>9 DEF Next, Customer, Serve

LEMMA KeptAlways == Spec => []Kept
<1>1. Init => Kept
  BY InitInv
<1>. QED
  BY <1>1, InvAlways, NextKept, PTL DEF Spec

(* A customer who waits for the answers reaches the end of every list:      *)
(* _LoadMore, although it compares the length of the upcoming orders with   *)
(* the number of past ones (orderHistoryScreen.dart:73-80), never stops     *)
(* before all are there.                                                    *)
THEOREM PagingGoesOn == Spec => []NeverStopsEarly
<1>1. Inv /\ Kept => NeverStopsEarly
  <2>. SUFFICES ASSUME Inv, Kept, careful, NoneFlying, Displayed,
                       Len(shown[selected]) < Count[selected]
                PROVE  MayLoadMore
    BY DEF NeverStopsEarly
  <2>1. ~more
    BY DEF Kept
  <2>2. ASSUME kind = "history"
        PROVE  Len(shown[IF selected = "active" THEN "active" ELSE "upcoming"]) < total
    <3>1. /\ total = Count[selected]
          /\ \A t \in Types \ {selected} : shown[t] = <<>>
          /\ selected \in Types
      BY <2>2 DEF Kept, Inv, TypeOK
    <3>2. CASE selected = "past"
      <4>1. Len(shown["upcoming"]) = 0
        BY <3>1, <3>2, NoRowsTop DEF Types
      <4>2. Len(shown[selected]) \in Nat /\ Count[selected] \in Nat
        BY <3>1 DEF Inv, TypeOK
      <4>. QED
        BY <3>1, <3>2, <4>1, <4>2
    <3>3. CASE selected # "past"
      BY <3>1, <3>3 DEF Types
    <3>. QED
      BY <3>2, <3>3
  <2>. QED
    BY <2>1, <2>2 DEF MayLoadMore
<1>. QED
  BY <1>1, InvAlways, KeptAlways, PTL

-----------------------------------------------------------------------------
(* The screens implement OrderPages.                                        *)

(* Forgetting all lists. *)
LEMMA Forgotten ==
    ASSUME Trusted' = NoRows
    PROVE  Pages!Next
  BY DEF Pages!Next, Pages!Restart, NoRows

LEMMA PagesStep ==
    ASSUME Inv, Kept, [Next]_vars
    PROVE  [Pages!Next]_Trusted
<1>0. TypeOK
  BY DEF Inv
<1>1. ASSUME NEW k \in {"history", "active"}, Open(k) PROVE Trusted' = Trusted
  BY <1>1 DEF Open, Trusted, listVars
<1>2. CASE Leave
  BY <1>2, Forgotten DEF Leave, Closed, Trusted
<1>3. ASSUME NEW t \in Types, SelectType(t) PROVE Pages!Next
  <2>1. Trusted' = NoRows
    BY <1>3 DEF SelectType, Trusted
  <2>. QED
    BY <2>1, Forgotten
<1>4. ASSUME NEW t \in Types, TapTab(t) PROVE Pages!Next
  <2>1. CASE careful'
    <3>1. careful /\ shown' = [shown EXCEPT ![t] = <<>>]
      BY <1>4, <2>1 DEF TapTab
    <3>2. Trusted' = [u \in Types |-> IF u \in {t} THEN <<>> ELSE Trusted[u]]
      BY <1>0, <2>1, <3>1 DEF Trusted, TypeOK
    <3>3. Pages!Restart({t})
      BY <3>2 DEF Pages!Restart
    <3>4. {t} \in SUBSET Types
      OBVIOUS
    <3>. QED
      BY <3>3, <3>4 DEF Pages!Next
  <2>2. CASE ~careful'
    BY <2>2, Forgotten DEF Trusted
  <2>. QED
    BY <2>1, <2>2
<1>5. CASE Scroll
  BY <1>5 DEF Scroll, Trusted
<1>6. ASSUME NEW f \in Fetches, Offline(f) \/ Ask(f) PROVE Trusted' = Trusted
  BY <1>6 DEF Offline, Ask, Trusted, listVars
<1>7. ASSUME NEW f \in Fetches, Answered(f) PROVE [Pages!Next]_Trusted
  <2>1. CASE ~careful
    BY <1>7, <2>1 DEF Answered, Trusted
  <2>2. CASE careful
    <3>1. /\ Flying(f) /\ careful'
          /\ shown' = [shown EXCEPT ![Target(f)] = Grown(f)]
      BY <1>7, <2>2 DEF Answered, Flying
    <3>2. /\ Target(f) = selected /\ page \in Nat \ {0} /\ selected \in Types
          /\ Len(shown[selected]) = Before(selected, page)
          /\ Grown(f) = Pages!Top(selected, Before(selected, page + 1))
      BY <1>0, <2>2, <3>1, NextRows DEF TypeOK
    <3>3. /\ Before(selected, page) \in Nat
          /\ Before(selected, page + 1) \in 0..Count[selected]
          /\ Before(selected, page) + PageLength(selected, page) = Before(selected, page + 1)
          /\ PageLength(selected, page) \in Nat
      <4>1. page + 1 \in Nat \ {0} /\ Count[selected] \in Nat
        BY <3>2
      <4>2. Before(selected, page + 1) \in 0..Count[selected]
        BY <3>2, <4>1, NextPage
      <4>3. /\ Before(selected, page) \in 0..Count[selected]
            /\ Before(selected, page) + PageLength(selected, page) = Before(selected, page + 1)
        BY <3>2, NextPage
      <4>4. PageLength(selected, page) \in Nat
        BY <3>2, PageType
      <4>. QED
        BY <4>1, <4>2, <4>3, <4>4
    <3>4. Trusted = shown /\ Trusted' = shown'
      BY <2>2, <3>1 DEF Trusted
    <3>5. CASE Before(selected, page + 1) = Before(selected, page)
      <4>1. Grown(f) = shown[selected]
        BY <2>2, <3>2, <3>5 DEF Kept
      <4>2. shown' = [shown EXCEPT ![selected] = shown[selected]]
        BY <3>1, <3>2, <4>1
      <4>3. shown' = shown
        BY <1>0, <4>2 DEF TypeOK
      <4>. QED
        BY <3>4, <4>3
    <3>6. CASE Before(selected, page + 1) # Before(selected, page)
      <4>1. Before(selected, page + 1) \in (Len(Trusted[selected]) + 1)..Count[selected]
        BY <3>2, <3>3, <3>4, <3>6
      <4>2. Trusted' = [Trusted EXCEPT ![selected] =
                          Pages!Top(selected, Before(selected, page + 1))]
        BY <3>1, <3>2, <3>4
      <4>3. Pages!Extend(selected)
        BY <4>1, <4>2 DEF Pages!Extend
      <4>. QED
        BY <3>2, <4>3 DEF Pages!Next
    <3>. QED
      BY <3>5, <3>6
  <2>. QED
    BY <2>1, <2>2
<1>8. ASSUME NEW f \in Fetches, Refused(f) PROVE [Pages!Next]_Trusted
  <2>1. CASE careful'
    BY <1>8, <2>1 DEF Refused, Trusted, listVars
  <2>2. CASE ~careful'
    BY <2>2, Forgotten DEF Trusted
  <2>. QED
    BY <2>1, <2>2
<1>9. CASE UNCHANGED vars
  BY <1>9 DEF vars, listVars, Trusted
<1>. QED
  BY <1>1, <1>2, <1>3, <1>4, <1>5, <1>6, <1>7, <1>8, <1>9 DEF Next, Customer, Serve

(* Until the customer chooses while a fetch is under way, or loses a page,  *)
(* every list is a first part of the backend's, without gap or repetition.  *)
THEOREM ImplementsPages == Spec => KeepsPages
<1>1. Init => Pages!Init
  BY DEF Init, Pages!Init, Trusted, NoRows
<1>2. Inv /\ Kept /\ [Next]_vars => [Pages!Next]_Trusted
  BY PagesStep
<1>. QED
  BY <1>1, <1>2, InvAlways, KeptAlways, PTL DEF Spec, KeepsPages, Pages!Spec
=============================================================================
