---------------------------- MODULE CheckoutProofs ----------------------------
(* Theorems about Checkout, for any number of swipes and coupons, any       *)
(* quantities, minimum and cap, and whatever the customer does.             *)
EXTENDS Checkout, TLAPS

USE CheckoutAssumption

AddsUp(s) ==
    LET q == request[s]
    IN  /\ q.total.of = q.qty
        /\ q.total.less # "none" => /\ q.total.less = q.coupon \/ s \in misled
                                    /\ q.qty >= MinCart

(* When no local work is under way the totals are those of the cart, but   *)
(* for a coupon removed since.                                             *)
MoneyInv ==
    /\ TypeOK
    /\ "read" \notin pending => totalPrice = qty
    /\ pending = {} =>
         /\ grandTotal.of = totalPrice
         /\ grandTotal.less # "none" => /\ grandTotal.less = coupon \/ removed
                                        /\ totalPrice >= MinCart
    /\ \A s \in Swipes : pc[s] = "sent" \/ s \in placed => AddsUp(s)

(* An order swiped when no call was on its way: while it flies the screen  *)
(* is covered and nothing else flies, so nothing can start.                *)
Covered(s) ==
    /\ isLoading /\ ~sheet /\ ~gone
    /\ \A c \in Calls \ {s} : pc[c] \notin Flying

(* The cart does not change between such a swipe and the order. *)
Kept(s) ==
    /\ pc[s] = "check" => asked[s] = qty
    /\ pc[s] = "sent" \/ s \in placed => request[s].qty = asked[s]

AloneInv ==
    /\ TypeOK
    /\ \A s \in placed : pc[s] \notin {"off", "check"}
    /\ \A s \in alone : /\ pc[s] # "off"
                        /\ pc[s] \in Flying => Covered(s)
                        /\ Kept(s)

-----------------------------------------------------------------------------
(* What the discounted total is made of. *)
LEMMA GrandTotalType ==
    ASSUME NEW t \in 0..MaxQty, NEW c \in Coupons
    PROVE  GrandTotal(t, c) \in Amounts
  BY DEF GrandTotal, Amounts, Coupons

LEMMA RequestType ==
    ASSUME NEW q \in 0..MaxQty, NEW c \in Coupons, NEW t \in Amounts
    PROVE  [qty |-> q, coupon |-> c, total |-> t] \in Requests
  BY DEF Requests

LEMMA InitType == Init => TypeOK
<1>. SUFFICES ASSUME Init PROVE TypeOK
  OBVIOUS
<1>1. [of |-> 0, less |-> "none"] \in Amounts
  BY DEF Amounts, Coupons
<1>2. NoRequest \in Requests
  BY <1>1 DEF NoRequest, Requests, Coupons
<1>3. pc \in [Calls -> Stages]
  BY DEF Init, Stages
<1>4. /\ isLoading \in BOOLEAN /\ isStoreOnline \in BOOLEAN
      /\ sheet \in BOOLEAN /\ paying \in BOOLEAN /\ gone \in BOOLEAN
  BY Zenon DEF Init
<1>5. qty \in 0..MaxQty /\ totalPrice \in 0..MaxQty
  BY DEF Init
<1>6. asked \in [Swipes -> 0..MaxQty] /\ request \in [Swipes -> Requests]
  BY <1>2 DEF Init
<1>7. /\ fromSheet \subseteq Redeems /\ pending \subseteq {"read", "grand"}
      /\ coupon \in Coupons /\ grandTotal \in Amounts
      /\ placed \subseteq Swipes /\ alone \subseteq Swipes /\ misled \subseteq Swipes
      /\ account \in BOOLEAN /\ removed \in BOOLEAN
  BY <1>1 DEF Init, Coupons
<1>. QED
  BY <1>3, <1>4, <1>5, <1>6, <1>7 DEF TypeOK

LEMMA NextType == TypeOK /\ [Next]_vars => TypeOK'
<1>. SUFFICES ASSUME TypeOK, [Next]_vars PROVE TypeOK'
  OBVIOUS
<1>. USE DEF Stages, Calls
<1>1. CASE ReadCart
  BY <1>1, GrandTotalType DEF ReadCart, TypeOK, screenVars, orderVars
<1>2. CASE Discounted
  BY <1>2, GrandTotalType DEF Discounted, TypeOK, screenVars, orderVars
<1>3. ASSUME NEW c \in Calls, Offline(c) \/ Ask(c) PROVE TypeOK'
  BY <1>3 DEF Offline, Ask, Ends, TypeOK, screenVars, moneyVars, orderVars
<1>17. ASSUME NEW c \in Calls, Throws(c) PROVE TypeOK'
  BY <1>17 DEF Throws, TypeOK, screenVars, orderVars
<1>4. CASE StatusAnswered
  BY <1>4 DEF StatusAnswered, Ends, TypeOK, moneyVars, orderVars
<1>5. CASE CouponsAnswered
  BY <1>5 DEF CouponsAnswered, Ends, TypeOK, moneyVars, orderVars
<1>6. ASSUME NEW r \in Redeems, CouponAnswered(r) PROVE TypeOK'
  <2>1. sheet' \in BOOLEAN /\ paying' \in BOOLEAN /\ gone' \in BOOLEAN
    <3>1. CASE r \in fromSheet
      BY <1>6, <3>1, Zenon DEF CouponAnswered, PopTop
    <3>2. CASE r \notin fromSheet
      BY <1>6, <3>2 DEF CouponAnswered, TypeOK
    <3>. QED
      BY <3>1, <3>2
  <2>2. pending' \subseteq {"read", "grand"} /\ coupon' \in Coupons
    <3>1. CASE totalPrice >= MinCart /\ totalPrice <= Cap
      BY <1>6, <3>1 DEF CouponAnswered, TypeOK, Coupons
    <3>2. CASE ~(totalPrice >= MinCart /\ totalPrice <= Cap)
      BY <1>6, <3>2 DEF CouponAnswered, TypeOK
    <3>. QED
      BY <3>1, <3>2
  <2>3. pc' \in [Calls -> Stages] /\ isLoading' \in BOOLEAN
    BY <1>6 DEF CouponAnswered, Ends, TypeOK
  <2>4. UNCHANGED <<isStoreOnline, account, fromSheet, qty, totalPrice, grandTotal, removed, orderVars>>
    BY <1>6 DEF CouponAnswered
  <2>. QED
    BY <2>1, <2>2, <2>3, <2>4 DEF TypeOK, orderVars
<1>7. ASSUME NEW r \in Redeems, CouponRefused(r) PROVE TypeOK'
  BY <1>7 DEF CouponRefused, Ends, TypeOK, moneyVars, orderVars
<1>8. ASSUME NEW s \in Swipes, SendOrder(s) PROVE TypeOK'
  BY <1>8, RequestType DEF SendOrder, TypeOK, screenVars
<1>9. ASSUME NEW s \in Swipes, Record(s) PROVE TypeOK'
  BY <1>9 DEF Record, TypeOK, screenVars, moneyVars
<1>10. ASSUME NEW s \in Swipes, OrderAnswered(s) \/ OrderFailed(s) PROVE TypeOK'
  BY <1>10 DEF OrderAnswered, OrderFailed, Ends, TypeOK, moneyVars, orderVars
<1>11. CASE ChangeQuantity
  BY <1>11 DEF ChangeQuantity, TypeOK, screenVars, orderVars
<1>12. CASE OpenSheet \/ CloseSheet \/ BackFromPayment
  BY <1>12 DEF OpenSheet, CloseSheet, BackFromPayment, TypeOK, moneyVars, orderVars
<1>13. CASE RemoveCoupon
  BY <1>13, GrandTotalType DEF RemoveCoupon, TypeOK, screenVars, orderVars, Coupons
<1>14. ASSUME NEW r \in Redeems, Redeem(r) PROVE TypeOK'
  BY <1>14 DEF Redeem, TypeOK, moneyVars, orderVars
<1>15. ASSUME NEW s \in Swipes, Swipe(s) PROVE TypeOK'
  BY <1>15 DEF Swipe, TypeOK, moneyVars
<1>16. CASE UNCHANGED vars
  BY <1>16 DEF vars, screenVars, moneyVars, orderVars, TypeOK
<1>. QED
  BY <1>1, <1>2, <1>3, <1>4, <1>5, <1>6, <1>7, <1>8, <1>9, <1>10, <1>11, <1>12,
     <1>13, <1>14, <1>15, <1>16, <1>17 DEF Next, Local, Network, Customer

(* Every variable of the cart screen keeps its type (cartScreen.dart:50-80) *)
THEOREM TypeCorrect == Spec => []TypeOK
<1>1. QED
  BY InitType, NextType, PTL DEF Spec
-----------------------------------------------------------------------------
(* Orders add up. *)

LEMMA MoneyInit == Init => MoneyInv
  BY InitType DEF Init, MoneyInv, Calls

(* Where neither the totals nor the orders change, and none is sent. *)
LEMMA MoneyStays ==
    ASSUME MoneyInv, TypeOK', UNCHANGED <<moneyVars, orderVars>>,
           \A s \in Swipes : pc'[s] = "sent" => pc[s] = "sent"
    PROVE  MoneyInv'
<1>1. UNCHANGED <<qty, totalPrice, pending, coupon, grandTotal, removed, request, placed, misled>>
  BY DEF moneyVars, orderVars
<1>. QED
  BY <1>1 DEF MoneyInv, AddsUp

(* Where only the totals change, and are those of the cart once settled. *)
LEMMA MoneyMoves ==
    ASSUME MoneyInv, TypeOK', UNCHANGED <<request, placed, misled>>,
           \A s \in Swipes : pc'[s] = "sent" => pc[s] = "sent",
           "read" \notin pending' => totalPrice' = qty',
           pending' = {} =>
             /\ grandTotal'.of = totalPrice'
             /\ grandTotal'.less # "none" => /\ grandTotal'.less = coupon' \/ removed'
                                             /\ totalPrice' >= MinCart
    PROVE  MoneyInv'
  BY DEF MoneyInv, AddsUp

LEMMA TotalOf ==
    ASSUME NEW t \in 0..MaxQty, NEW c \in Coupons
    PROVE  /\ GrandTotal(t, c).of = t
           /\ GrandTotal(t, c).less # "none" => GrandTotal(t, c).less = c /\ t >= MinCart
  BY DEF GrandTotal

LEMMA MoneyNext ==
    ASSUME MoneyInv, [Next]_vars
    PROVE  MoneyInv'
<1>0. TypeOK /\ TypeOK'
  BY NextType DEF MoneyInv
<1>q. /\ qty \in 0..MaxQty /\ totalPrice \in 0..MaxQty /\ coupon \in Coupons
      /\ pending \subseteq {"read", "grand"}
  BY <1>0 DEF TypeOK
<1>. USE DEF Calls
<1>1. CASE ReadCart
  <2>1. /\ totalPrice' = qty /\ qty' = qty /\ coupon' = coupon
        /\ grandTotal' = GrandTotal(qty, coupon)
        /\ UNCHANGED <<pc, request, placed, misled>>
    BY <1>1 DEF ReadCart, orderVars
  <2>. QED
    BY <1>0, <1>q, <2>1, TotalOf, MoneyMoves
<1>2. CASE Discounted
  <2>1. /\ grandTotal' = GrandTotal(totalPrice, coupon)
        /\ "read" \notin pending' => "read" \notin pending
        /\ UNCHANGED <<pc, qty, totalPrice, coupon, request, placed, misled>>
    BY <1>2 DEF Discounted, orderVars
  <2>2. "read" \notin pending' => totalPrice' = qty'
    BY <2>1 DEF MoneyInv
  <2>. QED
    BY <1>0, <1>q, <2>1, <2>2, TotalOf, MoneyMoves
<1>3. ASSUME NEW c \in Calls, Offline(c) \/ Ask(c) PROVE MoneyInv'
  <2>1. UNCHANGED <<moneyVars, orderVars>>
    BY <1>3 DEF Offline, Ask
  <2>2. \A s \in Swipes : pc'[s] = "sent" => pc[s] = "sent"
    BY <1>0, <1>3 DEF Offline, Ask, Ends, TypeOK
  <2>. QED
    BY <1>0, <2>1, <2>2, MoneyStays
<1>4. ASSUME NEW c \in Calls, Throws(c) PROVE MoneyInv'
  <2>1. /\ UNCHANGED <<qty, totalPrice, coupon, grandTotal, removed, request, placed, misled>>
        /\ pending \subseteq pending'
    BY <1>4 DEF Throws, orderVars
  <2>2. \A s \in Swipes : pc'[s] = "sent" => pc[s] = "sent"
    BY <1>0, <1>4 DEF Throws, TypeOK
  <2>3. "read" \notin pending' => totalPrice' = qty'
    BY <2>1 DEF MoneyInv
  <2>4. pending' = {} =>
          /\ grandTotal'.of = totalPrice'
          /\ grandTotal'.less # "none" => /\ grandTotal'.less = coupon' \/ removed'
                                          /\ totalPrice' >= MinCart
    BY <2>1 DEF MoneyInv
  <2>. QED
    BY <1>0, <2>1, <2>2, <2>3, <2>4, MoneyMoves
<1>5. CASE StatusAnswered \/ CouponsAnswered
  BY <1>0, <1>5, MoneyStays DEF StatusAnswered, CouponsAnswered, Ends, TypeOK
<1>6. ASSUME NEW r \in Redeems, CouponAnswered(r) PROVE MoneyInv'
  <2>1. UNCHANGED <<qty, totalPrice, grandTotal, removed, request, placed, misled>>
    BY <1>6 DEF CouponAnswered, orderVars
  <2>2. \A s \in Swipes : pc'[s] = "sent" => pc[s] = "sent"
    BY <1>0, <1>6 DEF CouponAnswered, Ends, TypeOK
  <2>3. \/ pending' = pending \union {"grand"}
        \/ UNCHANGED <<pending, coupon>>
    BY <1>6 DEF CouponAnswered
  <2>. QED
    BY <1>0, <2>1, <2>2, <2>3, MoneyMoves DEF MoneyInv
<1>7. ASSUME NEW r \in Redeems, CouponRefused(r) PROVE MoneyInv'
  BY <1>0, <1>7, MoneyStays DEF CouponRefused, Ends, TypeOK
<1>8. ASSUME NEW s \in Swipes, SendOrder(s) PROVE MoneyInv'
  <2>1. /\ totalPrice = qty /\ grandTotal.of = qty
        /\ grandTotal.less # "none" => /\ grandTotal.less = coupon \/ removed
                                       /\ qty >= MinCart
    BY <1>8 DEF SendOrder, Settled, MoneyInv
  <2>2. /\ request'[s] = [qty |-> qty, coupon |-> coupon, total |-> grandTotal]
        /\ removed => s \in misled'
        /\ misled \subseteq misled'
        /\ \A t \in Swipes \ {s} : request'[t] = request[t] /\ pc'[t] = pc[t]
        /\ UNCHANGED <<qty, totalPrice, coupon, grandTotal, removed, placed>>
        /\ "read" \in pending'
    BY <1>0, <1>8 DEF SendOrder, TypeOK
  <2>3. AddsUp(s)'
    BY <2>1, <2>2 DEF AddsUp
  <2>4. \A t \in Swipes \ {s} : AddsUp(t) => AddsUp(t)'
    BY <2>2 DEF AddsUp
  <2>. QED
    BY <1>0, <2>2, <2>3, <2>4 DEF MoneyInv
<1>9. ASSUME NEW s \in Swipes, Record(s) PROVE MoneyInv'
  <2>1. /\ pc[s] = "sent" /\ placed' = placed \union {s}
        /\ \A t \in Swipes : pc'[t] = "sent" => pc[t] = "sent"
        /\ UNCHANGED <<moneyVars, request, misled>>
    BY <1>0, <1>9 DEF Record, TypeOK
  <2>. QED
    BY <1>0, <2>1 DEF MoneyInv, AddsUp, moneyVars
<1>10. ASSUME NEW s \in Swipes, OrderAnswered(s) \/ OrderFailed(s) PROVE MoneyInv'
  BY <1>0, <1>10, MoneyStays DEF OrderAnswered, OrderFailed, Ends, TypeOK
<1>11. CASE ChangeQuantity
  <2>1. "read" \in pending' /\ UNCHANGED <<pc, request, placed, misled>>
    BY <1>11 DEF ChangeQuantity, orderVars
  <2>. QED
    BY <1>0, <2>1, MoneyMoves
<1>12. CASE OpenSheet \/ CloseSheet \/ BackFromPayment
  BY <1>0, <1>12, MoneyStays DEF OpenSheet, CloseSheet, BackFromPayment
<1>13. CASE RemoveCoupon
  <2>1. /\ grandTotal' = GrandTotal(totalPrice, coupon) /\ removed' = TRUE
        /\ UNCHANGED <<pc, qty, pending, totalPrice, request, placed, misled>>
    BY <1>13 DEF RemoveCoupon, orderVars
  <2>2. "read" \notin pending' => totalPrice' = qty'
    BY <2>1 DEF MoneyInv
  <2>. QED
    BY <1>0, <1>q, <2>1, <2>2, TotalOf, MoneyMoves
<1>14. ASSUME NEW r \in Redeems, Redeem(r) PROVE MoneyInv'
  BY <1>0, <1>14, MoneyStays DEF Redeem, TypeOK
<1>15. ASSUME NEW s \in Swipes, Swipe(s) PROVE MoneyInv'
  <2>1. /\ UNCHANGED <<moneyVars, request, placed, misled>>
        /\ \A t \in Swipes : pc'[t] = "sent" => pc[t] = "sent"
    BY <1>0, <1>15 DEF Swipe, TypeOK
  <2>. QED
    BY <1>0, <2>1 DEF MoneyInv, AddsUp, moneyVars
<1>16. CASE UNCHANGED vars
  BY <1>0, <1>16, MoneyStays DEF vars
<1>. QED
  BY <1>1, <1>2, <1>3, <1>4, <1>5, <1>6, <1>7, <1>8, <1>9, <1>10, <1>11, <1>12,
     <1>13, <1>14, <1>15, <1>16 DEF Next, Local, Network, Customer

(* An order's total is that of its lines, reduced only by the coupon it     *)
(* names and from that coupon's minimum on (_createOrder, getDiscountAmt),  *)
(* whatever the customer does; but a coupon removed since the last grand    *)
(* total is still in it.                                                    *)
THEOREM OrdersAddUp == Spec => []OrderAddsUp
<1>1. MoneyInv => OrderAddsUp
  BY DEF MoneyInv, OrderAddsUp, AddsUp, TypeOK
<1>2. MoneyInv /\ [Next]_vars => MoneyInv'
  BY MoneyNext
<1>. QED
  BY <1>1, <1>2, MoneyInit, PTL DEF Spec
-----------------------------------------------------------------------------
(* Alone. *)

LEMMA AloneInit == Init => AloneInv
  BY InitType DEF Init, AloneInv

(* While such an order flies, nothing is touched and nothing else moves.   *)
LEMMA OnlyTheOrder ==
    ASSUME TypeOK, NEW s \in Swipes, pc[s] \in Flying, Covered(s), [Next]_vars
    PROVE  \/ /\ UNCHANGED <<pc, isLoading, sheet, gone, qty, asked, request, placed, alone>>
           \/ \/ Offline(s) \/ Throws(s) \/ OrderAnswered(s) \/ OrderFailed(s)
              \/ SendOrder(s) \/ Record(s)
<1>. USE DEF Calls
<1>1. ~CanTouch /\ ~sheet
  BY DEF Covered, CanTouch
<1>2. \A c \in Calls : pc[c] \in {"check", "sent", "recorded"} => c = s
  BY DEF Covered, Flying
<1>3. CASE Local
  BY <1>3 DEF Local, ReadCart, Discounted, screenVars, orderVars
<1>4. CASE Network
  <2>1. ~Ask(s) /\ s \notin Redeems /\ s # "status" /\ s # "coupons"
    BY DEF Ask
  <2>2. ~StatusAnswered /\ ~CouponsAnswered
    BY <1>2, <2>1 DEF StatusAnswered, CouponsAnswered
  <2>3. \A r \in Redeems : ~CouponAnswered(r) /\ ~CouponRefused(r)
    BY <1>2, <2>1 DEF CouponAnswered, CouponRefused
  <2>4. \A c \in Calls : Offline(c) \/ Throws(c) \/ Ask(c) => c = s
    BY <1>2 DEF Offline, Throws, Ask
  <2>5. \A t \in Swipes : SendOrder(t) \/ Record(t) \/ OrderAnswered(t) \/ OrderFailed(t) => t = s
    BY <1>2 DEF SendOrder, Record, OrderAnswered, OrderFailed
  <2>. QED
    BY <1>4, <2>1, <2>2, <2>3, <2>4, <2>5 DEF Network
<1>5. CASE Customer
  <2>1. BackFromPayment
    BY <1>1, <1>5 DEF Customer, ChangeQuantity, OpenSheet, CloseSheet, RemoveCoupon, Redeem, Swipe
  <2>. QED
    BY <2>1 DEF BackFromPayment, moneyVars, orderVars
<1>6. CASE UNCHANGED vars
  BY <1>6 DEF vars, screenVars, moneyVars, orderVars
<1>. QED
  BY <1>3, <1>4, <1>5, <1>6 DEF Next

(* What the backend has recorded was sent. *)
LEMMA RecordedWasSent ==
    ASSUME TypeOK, [Next]_vars, \A s \in placed : pc[s] \notin {"off", "check"}
    PROVE  \A s \in placed' : pc'[s] \notin {"off", "check"}
<1>1. \A c \in Calls : pc[c] \notin {"off", "check"} => pc'[c] \notin {"off", "check"}
  BY DEF Next, Local, Network, Customer, vars, ReadCart, Discounted, Offline, Throws, Ask,
         StatusAnswered, CouponsAnswered, CouponAnswered, CouponRefused, SendOrder, Record,
         OrderAnswered, OrderFailed, Ends, ChangeQuantity, OpenSheet, CloseSheet, RemoveCoupon,
         BackFromPayment, Redeem, Swipe, TypeOK
<1>2. \A s \in placed' : s \in placed \/ (s \in Swipes /\ pc'[s] = "recorded")
  BY DEF Next, Local, Network, Customer, vars, ReadCart, Discounted, Offline, Throws, Ask,
         StatusAnswered, CouponsAnswered, CouponAnswered, CouponRefused, SendOrder, Record,
         OrderAnswered, OrderFailed, ChangeQuantity, OpenSheet, CloseSheet, RemoveCoupon,
         BackFromPayment, Redeem, Swipe, TypeOK, orderVars, Calls
<1>. QED
  BY <1>1, <1>2 DEF TypeOK, Calls

(* An order that has ended stays as it was recorded. *)
LEMMA EndedStays ==
    ASSUME TypeOK, [Next]_vars, NEW s \in Swipes, pc[s] \in {"over", "thrown"}
    PROVE  /\ pc'[s] = pc[s] /\ asked'[s] = asked[s] /\ request'[s] = request[s]
           /\ s \in placed' => s \in placed
  BY DEF Next, Local, Network, Customer, vars, ReadCart, Discounted, Offline, Throws, Ask,
         StatusAnswered, CouponsAnswered, CouponAnswered, CouponRefused, SendOrder, Record,
         OrderAnswered, OrderFailed, Ends, ChangeQuantity, OpenSheet, CloseSheet, RemoveCoupon,
         BackFromPayment, Redeem, Swipe, TypeOK, orderVars, Calls

(* Who is new among them has just been swiped. *)
LEMMA NewAlone ==
    ASSUME TypeOK, [Next]_vars, NEW s \in alone', s \notin alone
    PROVE  s \in Swipes /\ Swipe(s) /\ \A c \in Calls : pc[c] \notin Flying
<1>1. PICK t \in Swipes : Swipe(t)
  BY DEF Next, Local, Network, Customer, vars, ReadCart, Discounted, Offline, Throws, Ask,
         StatusAnswered, CouponsAnswered, CouponAnswered, CouponRefused, SendOrder, Record,
         OrderAnswered, OrderFailed, ChangeQuantity, OpenSheet, CloseSheet, RemoveCoupon,
         BackFromPayment, Redeem, orderVars
<1>. QED
  BY <1>1 DEF Swipe

LEMMA AloneNext == AloneInv /\ [Next]_vars => AloneInv'
<1>. SUFFICES ASSUME AloneInv, [Next]_vars PROVE AloneInv'
  OBVIOUS
<1>0. TypeOK /\ TypeOK'
  BY NextType DEF AloneInv
<1>1. \A s \in placed' : pc'[s] \notin {"off", "check"}
  BY RecordedWasSent DEF AloneInv
<1>2. ASSUME NEW s \in alone'
      PROVE  /\ pc'[s] # "off"
             /\ pc'[s] \in Flying => Covered(s)'
             /\ Kept(s)'
  <2>. s \in Swipes /\ s \in Calls
    BY <1>0 DEF TypeOK, Calls
  <2>1. CASE s \notin alone
    <3>1. Swipe(s) /\ \A c \in Calls : pc[c] \notin Flying
      BY <1>0, <2>1, NewAlone
    <3>2. /\ pc'[s] = "check" /\ asked'[s] = qty /\ qty' = qty
          /\ \A c \in Calls \ {s} : pc'[c] = pc[c]
          /\ isLoading' /\ ~sheet' /\ ~gone' /\ placed' = placed /\ pc[s] = "off"
      BY <1>0, <3>1 DEF Swipe, CanTouch, TypeOK, moneyVars
    <3>3. s \notin placed'
      BY <3>2 DEF AloneInv
    <3>. QED
      BY <3>1, <3>2, <3>3 DEF Covered, Kept
  <2>2. CASE s \in alone /\ pc[s] \in Flying
    <3>0. Covered(s) /\ Kept(s)
      BY <2>2 DEF AloneInv
    <3>1. CASE UNCHANGED <<pc, isLoading, sheet, gone, qty, asked, request, placed, alone>>
      BY <2>2, <3>0, <3>1 DEF Covered, Kept, Flying
    <3>2. CASE Offline(s) \/ OrderAnswered(s) \/ OrderFailed(s) \/ Throws(s)
      <4>1. /\ pc'[s] \in {"over", "thrown"}
            /\ UNCHANGED <<asked, request, placed>>
        BY <1>0, <3>2 DEF Offline, OrderAnswered, OrderFailed, Throws, Ends, TypeOK, orderVars
      <4>. QED
        BY <3>0, <4>1 DEF Kept, Flying
    <3>3. CASE SendOrder(s)
      <4>1. /\ pc[s] = "check" /\ pc'[s] = "sent" /\ request'[s].qty = qty
            /\ \A c \in Calls \ {s} : pc'[c] = pc[c]
            /\ UNCHANGED <<isLoading, sheet, gone, asked, placed>>
        BY <1>0, <3>3 DEF SendOrder, TypeOK, screenVars
      <4>. QED
        BY <3>0, <4>1 DEF Covered, Kept, Flying
    <3>4. CASE Record(s)
      <4>1. /\ pc[s] = "sent" /\ pc'[s] = "recorded"
            /\ \A c \in Calls \ {s} : pc'[c] = pc[c]
            /\ UNCHANGED <<isLoading, sheet, gone, asked, request>>
        BY <1>0, <3>4 DEF Record, TypeOK, screenVars
      <4>. QED
        BY <3>0, <4>1 DEF Covered, Kept, Flying
    <3>. QED
      BY <1>0, <2>2, <3>0, <3>1, <3>2, <3>3, <3>4, OnlyTheOrder
  <2>3. CASE s \in alone /\ pc[s] \notin Flying
    <3>1. pc[s] \in {"over", "thrown"} /\ Kept(s)
      BY <1>0, <2>3 DEF AloneInv, TypeOK, Stages, Flying
    <3>2. /\ pc'[s] = pc[s] /\ asked'[s] = asked[s] /\ request'[s] = request[s]
          /\ s \in placed' => s \in placed
      BY <1>0, <3>1, EndedStays
    <3>. QED
      BY <3>1, <3>2 DEF Kept, Flying
  <2>. QED
    BY <2>1, <2>2, <2>3
<1>. QED
  BY <1>0, <1>1, <1>2 DEF AloneInv

(* An order swiped when no call was on its way stays the only call until it *)
(* ends (cartScreen.dart:1190-1203, 1519-1522), and what is ordered is what *)
(* was shown, although _createOrder builds it only after a network check.   *)
THEOREM AsSwiped == Spec => []OrderedAsSwiped
<1>1. AloneInv => OrderedAsSwiped
  BY DEF AloneInv, TypeOK, Covered, Kept, OrderedAsSwiped
<1>. QED
  BY <1>1, AloneInit, AloneNext, PTL DEF Spec
-----------------------------------------------------------------------------
(* The barrier. *)

Raisers == Calls \ {"coupons"}
Busy    == Flying \union {"thrown"}

LEMMA BarrierNext ==
    TypeOK /\ BarrierHasReason /\ [Next]_vars => BarrierHasReason'
<1>. SUFFICES ASSUME TypeOK, BarrierHasReason, [Next]_vars PROVE BarrierHasReason'
  OBVIOUS
<1>. USE DEF Calls
(* A step that leaves the barrier and every call on its way alone. *)
<1>1. ASSUME isLoading' = isLoading, gone' = gone,
             \A c \in Raisers : pc[c] \in Busy => pc'[c] \in Busy
      PROVE  BarrierHasReason'
  BY <1>1 DEF BarrierHasReason, Raisers, Busy
<1>2. CASE Local
  BY <1>1, <1>2 DEF Local, ReadCart, Discounted, screenVars
<1>3. CASE \/ \E c \in Calls : Offline(c)
           \/ StatusAnswered \/ CouponsAnswered
           \/ \E r \in Redeems : CouponAnswered(r) \/ CouponRefused(r)
           \/ \E s \in Swipes : OrderAnswered(s) \/ OrderFailed(s)
  <2>1. isLoading' = FALSE
    BY <1>3 DEF Offline, StatusAnswered, CouponsAnswered, CouponAnswered, CouponRefused,
                OrderAnswered, OrderFailed
  <2>. QED
    BY <2>1 DEF BarrierHasReason
<1>4. ASSUME NEW c \in Calls, Throws(c) \/ Ask(c) PROVE BarrierHasReason'
  <2>1. /\ isLoading' = isLoading /\ gone' = gone
        /\ \A d \in Calls : pc'[d] = pc[d] \/ pc'[d] \in {"thrown", "sent"}
    BY <1>4 DEF Throws, Ask, screenVars, TypeOK
  <2>. QED
    BY <1>1, <2>1 DEF Raisers, Busy, Flying
<1>5. ASSUME NEW s \in Swipes, SendOrder(s) \/ Record(s) PROVE BarrierHasReason'
  <2>1. /\ isLoading' = isLoading /\ gone' = gone
        /\ \A d \in Calls : pc'[d] = pc[d] \/ pc'[d] \in {"sent", "recorded"}
    BY <1>5 DEF SendOrder, Record, screenVars, TypeOK
  <2>. QED
    BY <1>1, <2>1 DEF Raisers, Busy, Flying
<1>6. CASE ChangeQuantity \/ OpenSheet \/ CloseSheet \/ RemoveCoupon \/ BackFromPayment
  BY <1>1, <1>6 DEF ChangeQuantity, OpenSheet, CloseSheet, RemoveCoupon, BackFromPayment, screenVars
<1>7. ASSUME NEW c \in Redeems \union Swipes, pc' = [pc EXCEPT ![c] = "check"]
      PROVE  BarrierHasReason'
  <2>1. c \in Calls \ {"coupons"} /\ pc'[c] \in Flying \union {"thrown"}
    BY <1>7 DEF TypeOK, Flying
  <2>. QED
    BY <2>1 DEF BarrierHasReason
<1>8. CASE (\E r \in Redeems : Redeem(r)) \/ (\E s \in Swipes : Swipe(s))
  BY <1>7, <1>8 DEF Redeem, Swipe
<1>9. CASE UNCHANGED vars
  BY <1>1, <1>9 DEF vars, screenVars
<1>. QED
  BY <1>2, <1>3, <1>4, <1>5, <1>6, <1>8, <1>9 DEF Next, Network, Customer

(* Only a call that raised the barrier and is still unanswered, or one that *)
(* threw, keeps it up (every setState of isLoading, cartScreen.dart:1519-   *)
(* 1715 and 2238-2275).                                                     *)
THEOREM NeverForNothing == Spec => []BarrierHasReason
<1>1. Init => BarrierHasReason
  BY DEF Init, BarrierHasReason, Calls, Flying
<1>. QED
  BY <1>1, InitType, NextType, BarrierNext, PTL DEF Spec
=============================================================================
