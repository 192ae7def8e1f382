------------------------------- MODULE Checkout -------------------------------
(***************************************************************************)
(* The cart screen as a check-out: store status, coupons and the order.    *)
(* Five coroutines share one flag, isLoading, whose ModalBarrier is what   *)
(* keeps the customer from touching the screen: each raises it when it     *)
(* starts (the list of coupons does not) and lowers it when its own answer *)
(* is there, whoever else may still be waiting.  The coupon sheet lies     *)
(* above the barrier.                                                      *)
(*                                                                         *)
(* What is in the cart is one quantity, and an amount of money is kept as  *)
(* what it was computed from: [of: the quantity, less: the coupon].        *)
(***************************************************************************)
EXTENDS Naturals, FiniteSets

CONSTANTS
    Swipes,     \* bound: swipes of "Swipe to Process Order"
    Redeems,    \* bound: coupons asked for
    MaxQty,     \* bound: quantity in the cart
    MinCart,    \* minCartAmt of the coupon
    Cap         \* the 200 dollars above which no coupon applies

ASSUME CheckoutAssumption ==
    /\ MaxQty \in Nat /\ MinCart \in Nat /\ Cap \in Nat
    /\ Swipes \cap Redeems = {}
    /\ {"status", "coupons"} \cap (Swipes \union Redeems) = {}

VARIABLES
    pc,          \* where each coroutine is
    isLoading,   \* the barrier is up
    isStoreOnline,
    account,     \* a profile is stored: userId is a number, not "null"
    sheet,       \* the coupon sheet is open
    fromSheet,   \* the coupons asked for on the sheet (isSheet)
    paying,      \* a payment screen lies above the cart screen
    gone,        \* the cart screen itself was popped
    qty,         \* what the cart shows and the table holds
    pending,     \* local work under way: "read" the table, "grand" total
    totalPrice,
    coupon,      \* couponDetails: a coupon redeemed, or "none"
    grandTotal,
    asked,       \* the quantity shown when each order was swiped
    request,     \* the order sent: its quantity, coupon and grandTotal
    placed,      \* the orders the backend has recorded
    alone,       \* history: the orders swiped when no call was on its way
    removed,     \* history: a coupon was removed since the last grand total
    misled       \* history: the orders sent with such a grand total

screenVars == <<isLoading, isStoreOnline, account, sheet, fromSheet, paying, gone>>
moneyVars  == <<qty, pending, totalPrice, coupon, grandTotal, removed>>
orderVars  == <<asked, request, placed, alone, misled>>
vars == <<pc, screenVars, moneyVars, orderVars>>

Calls     == {"status", "coupons"} \union Redeems \union Swipes
Stages    == {"off", "check", "sent", "recorded", "over", "thrown"}
Flying    == {"check", "sent", "recorded"}
Coupons   == Redeems \union {"none"}
Amounts   == [of: 0..MaxQty, less: Coupons]
NoRequest == [qty |-> 0, coupon |-> "none", total |-> [of |-> 0, less |-> "none"]]
Requests  == [qty: 0..MaxQty, coupon: Coupons, total: Amounts]

(* initState: the table is being read, the status and the coupons asked.   *)
Init ==
    /\ pc = [c \in Calls |-> IF c \in {"status", "coupons"} THEN "check" ELSE "off"]
    /\ isLoading = TRUE
    /\ isStoreOnline = TRUE
    /\ account \in BOOLEAN
    /\ sheet = FALSE /\ fromSheet = {} /\ paying = FALSE /\ gone = FALSE
    /\ qty \in 1..MaxQty
    /\ pending = {"read"}
    /\ totalPrice = 0
    /\ coupon = "none"
    /\ grandTotal = [of |-> 0, less |-> "none"]
    /\ asked = [s \in Swipes |-> 0]
    /\ request = [s \in Swipes |-> NoRequest]
    /\ placed = {} /\ alone = {}
    /\ removed = FALSE /\ misled = {}

-----------------------------------------------------------------------------
(* Totals.                                                                 *)

(* mutant: the coupon's minimum is forgotten *)
GrandTotalAlways(total, code) == [of |-> total, less |-> code]

(* getGrandTotal: getDiscountAmt grants the coupon from its minimum on.    *)
GrandTotal(total, code) ==
    [of |-> total, less |-> IF MinCart <= total THEN code ELSE "none"]

(* The local work takes milliseconds: the customer and the network wait.   *)
Settled == pending = {}

(* mutant: the sum does not start from zero *)
ReadCartOnTop ==
    /\ ~gone /\ "read" \in pending
    /\ totalPrice' = totalPrice + qty
    /\ grandTotal' = GrandTotal(totalPrice + qty, coupon)
    /\ pending' = pending \ {"read"}
    /\ removed' = FALSE
    /\ UNCHANGED <<pc, screenVars, qty, coupon, orderVars>>

(* getCartData and getCartTotal. *)
ReadCart ==
    /\ ~gone /\ "read" \in pending
    /\ totalPrice' = qty
    /\ grandTotal' = GrandTotal(qty, coupon)
    /\ pending' = pending \ {"read"}
    /\ removed' = FALSE
    /\ UNCHANGED <<pc, screenVars, qty, coupon, orderVars>>

(* The end of calculateDiscount, after its 2 ms. *)
Discounted ==
    /\ ~gone /\ "grand" \in pending
    /\ grandTotal' = GrandTotal(totalPrice, coupon)
    /\ pending' = pending \ {"grand"}
    /\ removed' = FALSE
    /\ UNCHANGED <<pc, screenVars, qty, totalPrice, coupon, orderVars>>

-----------------------------------------------------------------------------
(* The customer.                                                           *)

CanTouch == ~gone /\ ~sheet /\ ~paying /\ ~isLoading /\ Settled

(* plus, minus or remove on a line, or "Clear Cart" *)
ChangeQuantity ==
    /\ CanTouch /\ qty > 0
    /\ qty' \in (0..MaxQty) \ {qty}
    /\ pending' = pending \union {"read"}
    /\ UNCHANGED <<pc, screenVars, totalPrice, coupon, grandTotal, removed, orderVars>>

OpenSheet ==
    /\ CanTouch /\ qty > 0
    /\ sheet' = TRUE
    /\ UNCHANGED <<pc, isLoading, isStoreOnline, account, fromSheet, paying, gone, moneyVars, orderVars>>

CloseSheet ==
    /\ ~gone /\ sheet
    /\ sheet' = FALSE
    /\ UNCHANGED <<pc, isLoading, isStoreOnline, account, fromSheet, paying, gone, moneyVars, orderVars>>

(* _fetchCouponData, by "Redeem" on the sheet or "Apply" on the screen. *)
Redeem(r) ==
    /\ pc[r] = "off"
    /\ \/ /\ ~gone /\ sheet /\ Settled
          /\ fromSheet' = fromSheet \union {r}
       \/ /\ CanTouch /\ qty > 0 /\ coupon = "none"
          /\ UNCHANGED fromSheet
    /\ pc' = [pc EXCEPT ![r] = "check"]
    /\ isLoading' = TRUE
    /\ UNCHANGED <<isStoreOnline, account, sheet, paying, gone, moneyVars, orderVars>>

(* "Remove": the grand total is computed before the coupon is forgotten.   *)
RemoveCoupon ==
    /\ CanTouch /\ qty > 0 /\ coupon # "none"
    /\ grandTotal' = GrandTotal(totalPrice, coupon)
    /\ coupon' = "none"
    /\ removed' = TRUE
    /\ UNCHANGED <<pc, screenVars, qty, pending, totalPrice, orderVars>>

(* mutant: the order is placed without the barrier *)
SwipeUncovered(s) ==
    /\ CanTouch /\ qty > 0 /\ isStoreOnline
    /\ pc[s] = "off"
    /\ pc' = [pc EXCEPT ![s] = "check"]
    /\ asked' = [asked EXCEPT ![s] = qty]
    /\ alone' = IF \E c \in Calls : pc[c] \in Flying THEN alone ELSE alone \union {s}
    /\ UNCHANGED <<screenVars, moneyVars, request, placed, misled>>

(* _onSwipeComplete of anyone but a guest: _createOrder starts. *)
Swipe(s) ==
    /\ CanTouch /\ qty > 0 /\ isStoreOnline
    /\ pc[s] = "off"
    /\ pc' = [pc EXCEPT ![s] = "check"]
    /\ asked' = [asked EXCEPT ![s] = qty]
    /\ alone' = IF \E c \in Calls : pc[c] \in Flying THEN alone ELSE alone \union {s}
    /\ isLoading' = TRUE
    /\ UNCHANGED <<isStoreOnline, account, sheet, fromSheet, paying, gone, moneyVars, request,
                   placed, misled>>

BackFromPayment ==
    /\ paying
    /\ paying' = FALSE
    /\ UNCHANGED <<pc, isLoading, isStoreOnline, account, sheet, fromSheet, gone, moneyVars, orderVars>>

-----------------------------------------------------------------------------
(* The answers.                                                            *)

Ends(c) == pc' = [pc EXCEPT ![c] = "over"]

(* mutant: the barrier stays up *)
OfflineCovered(c) ==
    /\ ~gone /\ Settled
    /\ pc[c] = "check"
    /\ Ends(c)
    /\ UNCHANGED <<screenVars, moneyVars, orderVars>>

(* No network: lower the barrier, show a snack bar. *)
Offline(c) ==
    /\ ~gone /\ Settled
    /\ pc[c] = "check"
    /\ Ends(c)
    /\ isLoading' = FALSE
    /\ UNCHANGED <<isStoreOnline, account, sheet, fromSheet, paying, gone, moneyVars, orderVars>>

(* What a coroutine computes after its network check and before its       *)
(* request: int.parse of userId, "null" without a profile, and the vendor  *)
(* of the first line of the cart.                                          *)
Computes(c) ==
    /\ c = "status" \/ account
    /\ c \in Redeems => qty > 0

(* An exception that nobody catches: the coroutine ends, its barrier stays. *)
Throws(c) ==
    /\ ~gone /\ Settled
    /\ pc[c] = "check" /\ ~Computes(c)
    /\ pc' = [pc EXCEPT ![c] = "thrown"]
    /\ pending' = IF c \in Swipes THEN pending \union {"read"} ELSE pending
    /\ UNCHANGED <<screenVars, qty, totalPrice, coupon, grandTotal, removed, orderVars>>

Ask(c) ==
    /\ ~gone /\ Settled
    /\ c \notin Swipes /\ pc[c] = "check" /\ Computes(c)
    /\ pc' = [pc EXCEPT ![c] = "sent"]
    /\ UNCHANGED <<screenVars, moneyVars, orderVars>>

(* _createOrder goes on: getCartData is started, not awaited, and the      *)
(* order is built at once from what the screen has.                        *)
SendOrder(s) ==
    /\ ~gone /\ Settled
    /\ pc[s] = "check" /\ Computes(s)
    /\ pc' = [pc EXCEPT ![s] = "sent"]
    /\ pending' = pending \union {"read"}
    /\ request' = [request EXCEPT ![s] =
                     [qty |-> qty, coupon |-> coupon, total |-> grandTotal]]
    /\ misled' = IF removed THEN misled \union {s} ELSE misled
    /\ UNCHANGED <<screenVars, qty, totalPrice, coupon, grandTotal, removed, asked, placed, alone>>

(* getStoreStatusResponse; an error leaves isStoreOnline alone. *)
StatusAnswered ==
    /\ ~gone /\ Settled
    /\ pc["status"] = "sent"
    /\ Ends("status")
    /\ isLoading' = FALSE
    /\ isStoreOnline' \in BOOLEAN
    /\ UNCHANGED <<account, sheet, fromSheet, paying, gone, moneyVars, orderVars>>

(* getCouponResponse *)
CouponsAnswered ==
    /\ ~gone /\ Settled
    /\ pc["coupons"] = "sent"
    /\ Ends("coupons")
    /\ isLoading' = FALSE
    /\ UNCHANGED <<isStoreOnline, account, sheet, fromSheet, paying, gone, moneyVars, orderVars>>

(* getCouponDetails with an answer of a redeem from the sheet pops the     *)
(* route on top, which it takes to be the sheet.                           *)
PopTop ==
    /\ sheet' = FALSE
    /\ paying' = (paying /\ sheet)
    /\ gone' = (~sheet /\ ~paying)

CouponAnswered(r) ==
    /\ ~gone /\ Settled
    /\ pc[r] = "sent"
    /\ Ends(r)
    /\ isLoading' = FALSE
    /\ IF r \in fromSheet THEN PopTop ELSE UNCHANGED <<sheet, paying, gone>>
    /\ IF totalPrice >= MinCart /\ totalPrice <= Cap
         THEN /\ coupon' = r
              /\ pending' = pending \union {"grand"}
         ELSE UNCHANGED <<coupon, pending>>
    /\ UNCHANGED <<isStoreOnline, account, fromSheet, qty, totalPrice, grandTotal, removed, orderVars>>

CouponRefused(r) ==
    /\ ~gone /\ Settled
    /\ pc[r] = "sent"
    /\ Ends(r)
    /\ isLoading' = FALSE
    /\ UNCHANGED <<isStoreOnline, account, sheet, fromSheet, paying, gone, moneyVars, orderVars>>

(* The backend records an order; its answer may still be lost. *)
Record(s) ==
    /\ pc[s] = "sent"
    /\ pc' = [pc EXCEPT ![s] = "recorded"]
    /\ placed' = placed \union {s}
    /\ UNCHANGED <<screenVars, moneyVars, asked, request, alone, misled>>

(* getCreateOrderResponse: push the payment screen. *)
OrderAnswered(s) ==
    /\ ~gone /\ Settled
    /\ pc[s] = "recorded"
    /\ Ends(s)
    /\ isLoading' = FALSE
    /\ paying' = TRUE
    /\ UNCHANGED <<isStoreOnline, account, sheet, fromSheet, gone, moneyVars, orderVars>>

(* Refused, or the connection broke: an error text nobody sees. *)
OrderFailed(s) ==
    /\ ~gone /\ Settled
    /\ pc[s] \in {"sent", "recorded"}
    /\ Ends(s)
    /\ isLoading' = FALSE
    /\ UNCHANGED <<isStoreOnline, account, sheet, fromSheet, paying, gone, moneyVars, orderVars>>

-----------------------------------------------------------------------------
Local == ReadCart \/ Discounted

Network ==
    \/ \E c \in Calls : Offline(c) \/ Throws(c) \/ Ask(c)
    \/ StatusAnswered \/ CouponsAnswered
    \/ \E r \in Redeems : CouponAnswered(r) \/ CouponRefused(r)
    \/ \E s \in Swipes : SendOrder(s) \/ Record(s) \/ OrderAnswered(s) \/ OrderFailed(s)

Customer ==
    \/ ChangeQuantity \/ OpenSheet \/ CloseSheet \/ RemoveCoupon \/ BackFromPayment
    \/ \E r \in Redeems : Redeem(r)
    \/ \E s \in Swipes : Swipe(s)

Next == Local \/ Network \/ Customer

Spec == Init /\ [][Next]_vars

-----------------------------------------------------------------------------
(* Properties.                                                             *)

(* A sent order has what _createOrder puts in it, the flags are flags.     *)
TypeOK ==
    /\ pc \in [Calls -> Stages]
    /\ isLoading \in BOOLEAN /\ isStoreOnline \in BOOLEAN
    /\ sheet \in BOOLEAN /\ paying \in BOOLEAN /\ gone \in BOOLEAN
    /\ fromSheet \subseteq Redeems
    /\ qty \in 0..MaxQty /\ totalPrice \in 0..MaxQty
    /\ pending \subseteq {"read", "grand"}
    /\ coupon \in Coupons /\ grandTotal \in Amounts
    /\ asked \in [Swipes -> 0..MaxQty]
    /\ request \in [Swipes -> Requests]
    /\ placed \subseteq Swipes /\ alone \subseteq Swipes
    /\ account \in BOOLEAN /\ removed \in BOOLEAN /\ misled \subseteq Swipes

(* "Block interaction" (cartScreen.dart:1193): while an order is being     *)
(* placed no second one can be started.                                    *)
OneOrderAtATime ==
    \A s, t \in Swipes : pc[s] \in Flying /\ pc[t] \in Flying => s = t

(* An order swiped when no call was on its way stays alone under its       *)
(* barrier until it ends, and what it orders is what the customer saw when *)
(* they swiped, although it is only built after a network check.           *)
OrderedAsSwiped ==
    \A s \in alone :
        /\ pc[s] \in Flying => \A c \in Calls \ {s} : pc[c] \notin Flying
        /\ s \in placed => request[s].qty = asked[s]

(* An order adds up: its total is that of its lines, and it is reduced     *)
(* only by the coupon the order names, from that coupon's minimum on; a    *)
(* removed coupon is still in the total until the next grand total.        *)
OrderAddsUp ==
    \A s \in placed :
        LET r == request[s]
        IN  /\ r.total.of = r.qty
            /\ r.total.less # "none" => /\ r.total.less = r.coupon \/ s \in misled
                                        /\ r.qty >= MinCart

(* The barrier is up for a reason: a call that raised it is still on its   *)
(* way (unanswered, maybe for ever, for no request has a time-out), or an  *)
(* exception ended one.                                                    *)
BarrierHasReason ==
    isLoading => \/ gone
                 \/ \E c \in Calls \ {"coupons"} : pc[c] \in Flying \union {"thrown"}
=============================================================================
