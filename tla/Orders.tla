-------------------------------- MODULE Orders --------------------------------
(***************************************************************************)
(* The two screens that list orders, OrderHistoryScreen ("history") and    *)
(* ActiveOrdersScreen ("active"), fetch them page by page as the customer  *)
(* scrolls.  A fetch waits twice, for the network check and for the        *)
(* backend, and meanwhile the customer may choose another kind of order:   *)
(* nothing covers the screen.  OrderHistoryScreen then asks for, and files *)
(* under, whatever is selected by then; ActiveOrdersScreen keeps what the  *)
(* fetch was started with.                                                 *)
(*                                                                         *)
(* An order is <<kind of order, its place in the backend's list>>.  Which  *)
(* orders there are does not change during a visit.                        *)
(***************************************************************************)
EXTENDS Naturals, Sequences

CONSTANTS
    Fetches,    \* bound: fetches under way at a time
    Count,      \* how many orders of each kind the backend has
    PageSize,   \* 10 on the history screen, 8 on the other
    MaxPage     \* bound: pages asked for

Types == {"past", "active", "upcoming"}

ASSUME OrdersAssumption ==
    /\ Count \in [Types -> Nat]
    /\ PageSize \in Nat \ {0}
    /\ MaxPage \in Nat \ {0}

VARIABLES
    kind,       \* the screen shown: "history", "active" or "none"
    selected,   \* selectedOrderType, chosen by drop-down or tab
    shown,      \* historyOrders, activeOrders, upcomingOrders
    page,       \* _currentPage
    total,      \* _totalRows of the history screen
    loading,    \* isLoading: a shimmer instead of the list
    more,       \* _isLoadingMore
    online,     \* isInternetConnected, which nothing ever raises again
    fetch,      \* the fetches under way
    careful     \* history: in this visit the customer chose nothing while a
                \* fetch was under way, and no page after the first was lost

listVars == <<shown, page, total>>
flagVars == <<loading, more, online>>
vars == <<kind, selected, listVars, flagVars, fetch, careful>>

Idle == [stage |-> "off", type |-> "past", page |-> 0, more |-> FALSE]

NoRows == [t \in Types |-> <<>>]

Flying(f) == fetch[f].stage # "off"
NoneFlying == \A f \in Fetches : ~Flying(f)

Closed ==
    /\ kind' = "none"
    /\ selected' = "past"
    /\ shown' = NoRows /\ page' = 1 /\ total' = 0
    /\ loading' = FALSE /\ more' = FALSE /\ online' = TRUE
    /\ fetch' = [f \in Fetches |-> Idle]
    /\ careful' = TRUE

Init ==
    /\ kind = "none"
    /\ selected = "past"
    /\ shown = NoRows /\ page = 1 /\ total = 0
    /\ loading = FALSE /\ more = FALSE /\ online = TRUE
    /\ fetch = [f \in Fetches |-> Idle]
    /\ careful = TRUE

(* _fetchData begins with the network check. *)
Begin(f, t, p, m) ==
    /\ ~Flying(f)
    /\ fetch' = [fetch EXCEPT ![f] = [stage |-> "check", type |-> t, page |-> p, more |-> m]]

-----------------------------------------------------------------------------
(* The customer.                                                           *)

(* initState: the first page of past or of active orders. *)
Open(k) ==
    /\ kind = "none"
    /\ kind' = k
    /\ selected' = IF k = "history" THEN "past" ELSE "active"
    /\ loading' = TRUE
    /\ \E f \in Fetches : Begin(f, selected', 1, FALSE)
    /\ UNCHANGED <<listVars, more, online, careful>>

(* The State is disposed of; what it still awaits ends in a catch.         *)
Leave == kind # "none" /\ Closed

(* mutant: the pages are counted from 0 after a choice *)
SelectFromZero(t) ==
    /\ kind = "history"
    /\ selected' = t
    /\ shown' = NoRows
    /\ page' = 0
    /\ loading' = TRUE
    /\ careful' = (careful /\ NoneFlying)
    /\ \E f \in Fetches : Begin(f, t, 0, FALSE)
    /\ UNCHANGED <<kind, total, more, online>>

(* The drop-down (the same entry may be chosen again): runApi.             *)
SelectType(t) ==
    /\ kind = "history"
    /\ selected' = t
    /\ shown' = NoRows
    /\ page' = 1
    /\ loading' = TRUE
    /\ careful' = (careful /\ NoneFlying)
    /\ \E f \in Fetches : Begin(f, t, 1, FALSE)
    /\ UNCHANGED <<kind, total, more, online>>

(* A tap on a tab (the same one may be tapped again): runApi(index).       *)
TapTab(t) ==
    /\ kind = "active" /\ t # "past"
    /\ selected' = t
    /\ shown' = [shown EXCEPT ![t] = <<>>]
    /\ page' = 1
    /\ loading' = TRUE
    /\ careful' = (careful /\ NoneFlying)
    /\ \E f \in Fetches : Begin(f, t, 1, FALSE)
    /\ UNCHANGED <<kind, total, more, online>>

(* The list is on the screen instead of the shimmer or "No Past Orders".   *)
Displayed == kind # "none" /\ online /\ ~loading /\ shown[selected] # <<>>

(* _LoadMore compares the number of active or of upcoming orders, whatever *)
(* is selected, with the rows there are; _activeLoadMore never stops.      *)
MayLoadMore ==
    /\ ~more
    /\ kind = "history" => Len(shown[IF selected = "active" THEN "active" ELSE "upcoming"]) < total

(* mutant: the page asked for is the one there is *)
ScrollSame ==
    /\ Displayed /\ MayLoadMore
    /\ more' = TRUE
    /\ \E f \in Fetches : Begin(f, selected, page, TRUE)
    /\ UNCHANGED <<kind, selected, listVars, loading, online, careful>>

(* At the end of the list: _LoadMore, _activeLoadMore, _upcomingLoadMore.  *)
Scroll ==
    /\ Displayed /\ MayLoadMore
    /\ page < MaxPage
    /\ page' = page + 1
    /\ more' = TRUE
    /\ \E f \in Fetches : Begin(f, selected, page + 1, TRUE)
    /\ UNCHANGED <<kind, selected, shown, total, loading, online, careful>>

-----------------------------------------------------------------------------
(* The fetches.                                                            *)

(* mutant: the shimmer stays *)
OfflineLoading(f) ==
    /\ fetch[f].stage = "check"
    /\ online' = FALSE
    /\ more' = (more /\ ~fetch[f].more)
    /\ fetch' = [fetch EXCEPT ![f] = Idle]
    /\ UNCHANGED <<kind, selected, listVars, loading, careful>>

Offline(f) ==
    /\ fetch[f].stage = "check"
    /\ loading' = FALSE
    /\ online' = FALSE
    /\ more' = (more /\ ~fetch[f].more)
    /\ fetch' = [fetch EXCEPT ![f] = Idle]
    /\ UNCHANGED <<kind, selected, listVars, careful>>

(* GetHistoryRequest: OrderHistoryScreen reads the selection after the     *)
(* await, ActiveOrdersScreen uses its parameter.                           *)
Asked(f) == IF kind = "history" THEN selected ELSE fetch[f].type

Ask(f) ==
    /\ fetch[f].stage = "check"
    /\ fetch' = [fetch EXCEPT ![f].stage = "sent", ![f].type = Asked(f)]
    /\ UNCHANGED <<kind, selected, listVars, flagVars, careful>>

(* The rows of a page, as the backend answers.                             *)
Offset(p) == (p - 1) * PageSize

RowsFrom(t, first, n) == [i \in 1..n |-> <<t, first + i>>]

PageLength(t, p) ==
    IF Offset(p) >= Count[t] THEN 0
    ELSE IF Count[t] - Offset(p) < PageSize THEN Count[t] - Offset(p) ELSE PageSize

PageRows(t, p) == RowsFrom(t, Offset(p), PageLength(t, p))

(* mutant: the rows of the page are taken for the rows there are *)
TotalOfPage(t, p) == PageLength(t, p)

(* total_rows *)
TotalRows(t, p) == Count[t]

(* mutant: both screens file an answer under what is selected by now *)
TargetNow(f) == selected

(* The list an answer goes to: that of the selection by now, or its own.   *)
Target(f) == IF kind = "history" THEN selected ELSE fetch[f].type

(* Only OrderHistoryScreen clears a list when its first page comes.        *)
Grown(f) ==
    LET rows == PageRows(fetch[f].type, fetch[f].page)
    IN  IF kind = "history" /\ fetch[f].page = 1 THEN rows ELSE shown[Target(f)] \o rows

(* getHistoryData, and the end of the load-more that awaited it.           *)
Answered(f) ==
    /\ fetch[f].stage = "sent"
    /\ loading' = FALSE
    /\ more' = (more /\ ~fetch[f].more)
    /\ total' = IF kind = "history" THEN TotalRows(fetch[f].type, fetch[f].page) ELSE total
    /\ shown' = [shown EXCEPT ![Target(f)] = Grown(f)]
    /\ fetch' = [fetch EXCEPT ![f] = Idle]
    /\ UNCHANGED <<kind, selected, page, online, careful>>

(* An error: the page it was for is not asked for again.                   *)
Refused(f) ==
    /\ fetch[f].stage = "sent"
    /\ loading' = FALSE
    /\ more' = (more /\ ~fetch[f].more)
    /\ careful' = (careful /\ fetch[f].page = 1)
    /\ fetch' = [fetch EXCEPT ![f] = Idle]
    /\ UNCHANGED <<kind, selected, listVars, online>>

-----------------------------------------------------------------------------
Customer ==
    \/ \E k \in {"history", "active"} : Open(k)
    \/ Leave
    \/ \E t \in Types : SelectType(t) \/ TapTab(t)
    \/ Scroll

Serve(f) == Offline(f) \/ Ask(f) \/ Answered(f) \/ Refused(f)

Next == Customer \/ \E f \in Fetches : Serve(f)

Spec == Init /\ [][Next]_vars

-----------------------------------------------------------------------------
(* Properties.                                                             *)

(* Every variable has its type; pages are counted from 1.                  *)
TypeOK ==
    /\ kind \in {"none", "history", "active"}
    /\ selected \in Types
    /\ shown \in [Types -> Seq(Types \X (Nat \ {0}))]
    /\ page \in 1..MaxPage
    /\ total \in Nat
    /\ loading \in BOOLEAN /\ more \in BOOLEAN /\ online \in BOOLEAN
    /\ fetch \in [Fetches -> [stage: {"off", "check", "sent"}, type: Types,
                              page: 0..MaxPage, more: BOOLEAN]]
    /\ careful \in BOOLEAN

(* However fast the customer changes tabs, and whatever is late or lost,   *)
(* the list under "Active Orders" has active orders only, and that under   *)
(* "Upcoming Orders" upcoming ones (activeOrdersScreen.dart:410-447).      *)
OwnOrders ==
    kind = "active" =>
        \A t \in Types : \A i \in 1..Len(shown[t]) : shown[t][i][1] = t

(* A customer who waits for each answer and scrolls to the end of a list   *)
(* that is not complete can always fetch more: no count that belongs to    *)
(* another kind of order or to another page stops the paging early.        *)
NeverStopsEarly ==
    careful /\ NoneFlying /\ Displayed /\ Len(shown[selected]) < Count[selected]
        => MayLoadMore

(* The flags are held for a reason, in whatever order fetches begun by a   *)
(* choice and by scrolling end: the shimmer is there only while some fetch *)
(* is under way, and _isLoadingMore is up exactly while one begun by       *)
(* scrolling is, never two of them (orderHistoryScreen.dart:73-92,         *)
(* 551-580).  How long that takes is not the screens': the network check   *)
(* and the request have no timeout.                                        *)
ScrollFetches == {f \in Fetches : Flying(f) /\ fetch[f].more}

FlagsHaveReason ==
    /\ loading => ~NoneFlying
    /\ more <=> ScrollFetches # {}
    /\ \A f, g \in ScrollFetches : f = g

(* Until a customer chooses something while a fetch is under way, or a     *)
(* page after the first is lost, the lists are those OrderPages promises.  *)
Trusted == IF careful THEN shown ELSE NoRows

Pages == INSTANCE OrderPages WITH lists <- Trusted, Types <- Types, Count <- Count

KeepsPages == Pages!Spec
=============================================================================
