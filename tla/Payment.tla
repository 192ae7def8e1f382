------------------------------- MODULE Payment -------------------------------
(***************************************************************************)
(* Paying for an order: PaymentCardScreen and PaymentSuccessfulScreen, the *)
(* three MainViewModel calls they make (getApiToken or                     *)
(* getApiTokenForApplePay, getFinalPaymentApi, successCallback), the       *)
(* Clover servers that turn a card into a token and a token into a charge, *)
(* and the shop's backend, which learns of a charge only when the app      *)
(* reports it.                                                             *)
(*                                                                         *)
(* A tap on "Validate" or on the Apple Pay button starts a coroutine,      *)
(* called an attempt here: check the network, get a token, check the       *)
(* network, charge, check the network, report.  Dart runs it atomically    *)
(* between two awaits; pc[a] is the await it is suspended at.  The         *)
(* loading overlay (isLoading) is the only thing that keeps the customer   *)
(* from starting another one.                                              *)
(***************************************************************************)
EXTENDS Naturals, Sequences, SequencesExt

CONSTANTS
    Orders,     \* orders that may be placed
    Items,      \* what a cart may hold
    Attempts,   \* bound: taps on "Validate" / Apple Pay that may happen
    OrderOf,    \* the order whose payment screen the attempt is made on
    ApplePay,   \* the attempts made with Apple Pay: {} unless Platform.isIOS
    Faults,     \* "loss": a connection may break; "kill": the app may be killed
    Patient     \* customers stay on the cart screen while an order is placed

ASSUME PaymentAssumption ==
    /\ OrderOf \in [Attempts -> Orders]
    /\ ApplePay \subseteq Attempts
    /\ Faults \subseteq {"loss", "kill"}
    /\ Patient \in BOOLEAN

VARIABLES
    cart,         \* the items in the cart table
    ordered,      \* the items each order was requested for, {} before that
    placing,      \* orders whose request the backend has not answered yet
    nav,          \* routes above the shop's own screens: <<page, order>>
    mounted,      \* orders whose PaymentCardScreen State is not disposed
    isLoading,    \* the overlay of each order's payment screen
    exiting,      \* orders whose confirmed exit still waits its 200 ms
    clearing,     \* success screens that have not cleared the cart yet
    pc,           \* where each attempt is
    request,      \* the attempt's request on its way to a server
    reply,        \* what the attempt's connection has delivered
    charges,      \* attempts whose token Clover has charged
    confirmed,    \* history: attempts whose charge the app was told of
    reported      \* attempts whose charge the backend has recorded

screenVars  == <<nav, mounted, exiting, clearing>>
cartVars    == <<cart, ordered, placing>>
attemptVars == <<pc, request, reply>>
serverVars  == <<charges, confirmed, reported>>
vars == <<cartVars, screenVars, isLoading, attemptVars, serverVars>>

Pages  == {"pay", "exit", "done"}
Routes == Pages \X Orders
Stages == {"off", "sheet", "checkToken", "token", "checkCharge", "charge",
           "checkReport", "report", "thrown", "over"}
Calls  == {"token", "charge", "report"}

TypeOK ==
    /\ cart \in SUBSET Items
    /\ ordered \in [Orders -> SUBSET Items]
    /\ placing \in SUBSET Orders
    /\ nav \in Seq(Routes)
    /\ mounted \in SUBSET Orders
    /\ isLoading \in [Orders -> BOOLEAN]
    /\ exiting \in SUBSET Orders
    /\ clearing \in SUBSET Orders
    /\ pc \in [Attempts -> Stages]
    /\ request \in [Attempts -> Calls \union {"unsent", "none"}]
    /\ reply \in [Attempts -> {"none", "ok", "refused", "broken"}]
    /\ charges \in SUBSET Attempts
    /\ reported \in SUBSET Attempts
    /\ confirmed \in SUBSET Attempts

Init ==
    /\ cart = {}
    /\ ordered = [o \in Orders |-> {}]
    /\ placing = {}
    /\ nav = <<>>
    /\ mounted = {}
    /\ isLoading = [o \in Orders |-> FALSE]
    /\ exiting = {}
    /\ clearing = {}
    /\ pc = [a \in Attempts |-> "off"]
    /\ request = [a \in Attempts |-> "none"]
    /\ reply = [a \in Attempts |-> "none"]
    /\ charges = {}
    /\ reported = {}
    /\ confirmed = {}

-----------------------------------------------------------------------------
(* What the customer can reach.                                            *)

Live(a) == pc[a] \notin {"off", "thrown", "over"}

OnTop(page, o) == nav # <<>> /\ Last(nav) = <<page, o>>

\* The customer taps the app itself: not the Apple Pay sheet, and not within
\* the few milliseconds in which a success screen clears the cart.
CustomerActs ==
    /\ \A a \in Attempts : pc[a] # "sheet"
    /\ clearing = {}

\* Mutant of CanPay: the screen has no overlay.
CanPayCovered(o) == OnTop("pay", o)

\* The overlay is a coloured Container on top of the body: it takes the taps.
CanPay(o) == OnTop("pay", o) /\ ~isLoading[o]

\* Mutant of HasContext: a coroutine of a disposed State just goes on.
HasContextForever(a) == a \in Attempts

\* A State that was disposed has no context: a coroutine that resumes on it
\* fails at its first Provider.of(context) or setState.
HasContext(a) == OrderOf[a] \in mounted

SetLoading(o, b) == isLoading' = [isLoading EXCEPT ![o] = b]

Goto(a, stage) == pc' = [pc EXCEPT ![a] = stage]

\* Mutant of Send: the call is made at once, before the stage is changed.
SendEarly(a, call) ==
    /\ Goto(a, call)
    /\ request' = [request EXCEPT ![a] = pc[a]]
    /\ UNCHANGED reply

\* await of an HTTP call: the service waits 2 ms and for its headers first.
Send(a, call) ==
    /\ Goto(a, call)
    /\ request' = [request EXCEPT ![a] = "unsent"]
    /\ UNCHANGED reply

\* The await is over: the coroutine goes on with what has arrived.
Consume(a, stage) ==
    /\ Goto(a, stage)
    /\ reply' = [reply EXCEPT ![a] = "none"]
    /\ UNCHANGED request

\* http.post: nobody looks any more whether the screen is still there.
Post(a) ==
    /\ pc[a] \in Calls
    /\ request[a] = "unsent"
    /\ request' = [request EXCEPT ![a] = pc[a]]
    /\ UNCHANGED <<cartVars, screenVars, isLoading, pc, reply, serverVars>>

-----------------------------------------------------------------------------
(* The shop: the cart is filled, an order is placed from it, and the       *)
(* payment screen of that order opens when the backend answers.  The cart  *)
(* screen's back button is not under its overlay: the customer may be back *)
(* in the menus, or on another cart screen, by then.                       *)

InShop ==
    /\ CustomerActs
    /\ nav = <<>>
    /\ Patient => placing = {}

AddToCart(i) ==
    /\ InShop
    /\ i \notin cart
    /\ cart' = cart \union {i}
    /\ UNCHANGED <<ordered, placing, screenVars, isLoading, attemptVars, serverVars>>

PlaceOrder(o) ==
    /\ InShop
    /\ cart # {}
    /\ ordered[o] = {}
    /\ ordered' = [ordered EXCEPT ![o] = cart]
    /\ placing' = placing \union {o}
    /\ UNCHANGED <<cart, screenVars, isLoading, attemptVars, serverVars>>

\* getCreateOrderResponse: the payment screen goes on top of whatever is
\* shown by now, or the order was refused.
OrderAnswered(o) ==
    /\ o \in placing
    /\ placing' = placing \ {o}
    /\ \/ nav' = Append(nav, <<"pay", o>>) /\ mounted' = mounted \union {o}
       \/ UNCHANGED <<nav, mounted>>
    /\ UNCHANGED <<cart, ordered, exiting, clearing, isLoading,
                   attemptVars, serverVars>>

-----------------------------------------------------------------------------
(* An attempt, await by await.                                             *)

\* _onValidate with a valid form, and the first lines of _getApiToken.
OnValidate(a) ==
    /\ a \notin ApplePay
    /\ pc[a] = "off"
    /\ CustomerActs
    /\ CanPay(OrderOf[a])
    /\ Goto(a, "checkToken")
    /\ SetLoading(OrderOf[a], TRUE)
    /\ UNCHANGED <<cartVars, screenVars, request, reply, serverVars>>

\* makePayment up to the Apple Pay sheet.
MakePayment(a) ==
    /\ a \in ApplePay
    /\ pc[a] = "off"
    /\ CustomerActs
    /\ CanPay(OrderOf[a])
    /\ Goto(a, "sheet")
    /\ SetLoading(OrderOf[a], TRUE)
    /\ UNCHANGED <<cartVars, screenVars, request, reply, serverVars>>

\* The sheet returns payment data and _getApiTokenForApplePay begins, or it
\* is dismissed and the finally block lowers the overlay.
SheetAnswers(a) ==
    /\ pc[a] = "sheet"
    /\ HasContext(a)
    /\ \/ Goto(a, "checkToken") /\ UNCHANGED isLoading
       \/ Goto(a, "over") /\ SetLoading(OrderOf[a], FALSE)
    /\ UNCHANGED <<cartVars, screenVars, request, reply, serverVars>>

\* isConnected() answers: the call is made, or a snack bar is shown and the
\* attempt ends there, whatever it has already achieved.
Connectivity(a, stage, call) ==
    /\ pc[a] = stage
    /\ HasContext(a)
    /\ \/ Send(a, call) /\ UNCHANGED isLoading
       \/ /\ Goto(a, "over")
          /\ SetLoading(OrderOf[a], FALSE)
          /\ UNCHANGED <<request, reply>>
    /\ UNCHANGED <<cartVars, screenVars, serverVars>>

GetApiToken(a)        == Connectivity(a, "checkToken", "token")
GetFinalPaymentApi(a) == Connectivity(a, "checkCharge", "charge")
HitSuccessCallBack(a) == Connectivity(a, "checkReport", "report")

\* The view model's catch block expects a Clover error, JSON inside the
\* exception's text.  A broken connection has none, nor has the exception of
\* a 401 answer, whose message returnResponse decodes as JSON: substring(-1)
\* throws out of the catch, the awaiting coroutine dies and isLoading keeps
\* its value.
\* getApiTokenForApplePay alone looks for the brace before it cuts.
\* Mutant of Unparsed: the catch block of every call copes with any exception.
UnparsedNever(a) == FALSE /\ pc[a] = "charge"

Unparsed(a) ==
    /\ reply[a] = "broken"
    /\ \/ pc[a] = "charge"
       \/ pc[a] = "token" /\ a \notin ApplePay

CallThrows(a) ==
    /\ HasContext(a)
    /\ Unparsed(a)
    /\ Consume(a, "thrown")
    /\ UNCHANGED <<cartVars, screenVars, isLoading, serverVars>>

\* Mutant of CallFails: the overlay is lowered only after success.
CallFailsCovered(a) ==
    /\ pc[a] \in Calls
    /\ HasContext(a)
    /\ reply[a] \in {"refused", "broken"}
    /\ ~Unparsed(a)
    /\ Consume(a, "over")
    /\ UNCHANGED <<cartVars, screenVars, isLoading, serverVars>>

\* The call ends in Status.ERROR: toast, overlay down, nothing more.
CallFails(a) ==
    /\ pc[a] \in Calls
    /\ HasContext(a)
    /\ reply[a] \in {"refused", "broken"}
    /\ ~Unparsed(a)
    /\ Consume(a, "over")
    /\ SetLoading(OrderOf[a], FALSE)
    /\ UNCHANGED <<cartVars, screenVars, serverVars>>

\* getApiTokenResponse lowers the overlay and _getFinalPaymentApi, called
\* without await, raises it again in the same turn.  With Apple Pay the
\* finally block of makePayment then runs too, while the charge is made.
CoveredWhileCharging(a) == a \notin ApplePay

GetApiTokenResponse(a) ==
    /\ pc[a] = "token"
    /\ HasContext(a)
    /\ reply[a] = "ok"
    /\ Consume(a, "checkCharge")
    /\ SetLoading(OrderOf[a], CoveredWhileCharging(a))
    /\ UNCHANGED <<cartVars, screenVars, serverVars>>

\* Mutant of GetFinalPaymentApiResponse: the status is not looked at.
ChargeResponseUnread(a) ==
    /\ pc[a] = "charge"
    /\ HasContext(a)
    /\ reply[a] # "none"
    /\ Consume(a, "checkReport")
    /\ SetLoading(OrderOf[a], TRUE)
    /\ confirmed' = confirmed \union {a}
    /\ UNCHANGED <<cartVars, screenVars, charges, reported>>

GetFinalPaymentApiResponse(a) ==
    /\ pc[a] = "charge"
    /\ HasContext(a)
    /\ reply[a] = "ok"
    /\ Consume(a, "checkReport")
    /\ SetLoading(OrderOf[a], TRUE)
    /\ confirmed' = confirmed \union {a}
    /\ UNCHANGED <<cartVars, screenVars, charges, reported>>

\* Mutant of GetSuccessCallBackResponse: the status is not looked at.
ReportResponseUnread(a) ==
    /\ pc[a] = "report"
    /\ HasContext(a)
    /\ reply[a] # "none"
    /\ Consume(a, "over")
    /\ SetLoading(OrderOf[a], FALSE)
    /\ nav' = Append(nav, <<"done", OrderOf[a]>>)
    /\ clearing' = clearing \union {OrderOf[a]}
    /\ UNCHANGED <<cartVars, mounted, exiting, serverVars>>

\* The success screen goes on top of whatever is shown at that moment.
GetSuccessCallBackResponse(a) ==
    /\ pc[a] = "report"
    /\ HasContext(a)
    /\ reply[a] = "ok"
    /\ Consume(a, "over")
    /\ SetLoading(OrderOf[a], FALSE)
    /\ nav' = Append(nav, <<"done", OrderOf[a]>>)
    /\ clearing' = clearing \union {OrderOf[a]}
    /\ UNCHANGED <<cartVars, mounted, exiting, serverVars>>

\* What the attempt waits for arrives on a State that is gone.
Abandoned(a) ==
    /\ Live(a)
    /\ ~HasContext(a)
    /\ pc[a] \in Calls => reply[a] # "none"
    /\ Consume(a, "over")
    /\ UNCHANGED <<cartVars, screenVars, isLoading, serverVars>>

-----------------------------------------------------------------------------
(* Leaving the screens.  The app bar and the system's back gesture are not *)
(* under the overlay: they work while an attempt runs.                     *)

\* _onBackPressed opens the "Are you sure you want to leave?" dialog; nobody
\* gets through it a second time within the 200 ms of a confirmed exit.
AskToLeave(o) ==
    /\ CustomerActs
    /\ OnTop("pay", o)
    /\ o \notin exiting
    /\ nav' = Append(nav, <<"exit", o>>)
    /\ UNCHANGED <<cartVars, mounted, exiting, clearing, isLoading,
                   attemptVars, serverVars>>

\* Cancel only closes the dialog; Yes schedules a pop 200 ms later.
AnswerExit(o) ==
    /\ CustomerActs
    /\ OnTop("exit", o)
    /\ nav' = Front(nav)
    /\ exiting' \in {exiting, exiting \union {o}}
    /\ UNCHANGED <<cartVars, mounted, clearing, isLoading, attemptVars, serverVars>>

\* Navigator.pop: the top route goes; a payment screen is disposed.
PopRoute ==
    /\ nav # <<>>
    /\ nav' = Front(nav)
    /\ mounted' = IF Last(nav)[1] = "pay" THEN mounted \ {Last(nav)[2]} ELSE mounted

\* The delayed pop of a confirmed exit takes whatever is on top by then: one
\* of the shop's own screens if none of these is left, and nothing if the
\* screen that asked for it was disposed meanwhile.
LeaveNow(o) ==
    /\ o \in exiting
    /\ exiting' = exiting \ {o}
    /\ \/ PopRoute
       \/ (nav = <<>> \/ o \notin mounted) /\ UNCHANGED <<nav, mounted>>
    /\ UNCHANGED <<cartVars, clearing, isLoading, attemptVars, serverVars>>

SystemBack ==
    /\ CustomerActs
    /\ PopRoute
    /\ UNCHANGED <<cartVars, exiting, clearing, isLoading, attemptVars, serverVars>>

\* The success screen's button pushes the home screen over everything; what
\* is below stays mounted, but the back gesture of the home screen leaves the
\* app, and of its other tabs replaces it by itself.  Only the delayed pop of a
\* confirmed exit could uncover it: nobody is that quick.
GoHome ==
    /\ CustomerActs
    /\ exiting = {}
    /\ \E o \in Orders : OnTop("done", o)
    /\ nav' = <<>>
    /\ UNCHANGED <<cartVars, mounted, exiting, clearing, isLoading,
                   attemptVars, serverVars>>

\* The success screen's initializeDatabase empties the cart table.
ClearCart(o) ==
    /\ o \in clearing
    /\ clearing' = clearing \ {o}
    /\ cart' = {}
    /\ UNCHANGED <<ordered, placing, nav, mounted, exiting, isLoading,
                   attemptVars, serverVars>>

-----------------------------------------------------------------------------
(* The servers, the network and the phone.                                 *)

\* Clover or the backend handles a request.  Nobody gets the answer if the
\* connection broke meanwhile or the attempt is over.
Serve(a) ==
    /\ request[a] \in Calls
    /\ request' = [request EXCEPT ![a] = "none"]
    /\ \E answer \in {"ok", "refused"} :
        /\ reply' = IF pc[a] = request[a] /\ reply[a] = "none"
                       THEN [reply EXCEPT ![a] = answer] ELSE reply
        /\ charges' = IF request[a] = "charge" /\ answer = "ok"
                         THEN charges \union {a} ELSE charges
        /\ reported' = IF request[a] = "report" /\ answer = "ok"
                          THEN reported \union {a} ELSE reported
    /\ UNCHANGED <<cartVars, screenVars, isLoading, pc, confirmed>>

\* The connection breaks, with the request lost, still on its way, or
\* already served and its answer lost.
Break(a) ==
    /\ "loss" \in Faults
    /\ pc[a] \in Calls
    /\ request[a] # "unsent"
    /\ reply[a] # "broken"
    /\ reply' = [reply EXCEPT ![a] = "broken"]
    /\ request' \in {request, [request EXCEPT ![a] = "none"]}
    /\ UNCHANGED <<cartVars, screenVars, isLoading, pc, serverVars>>

\* Only the cart table is on disk: neither the order nor a charge that has
\* not been reported yet is remembered.
Kill ==
    /\ "kill" \in Faults
    /\ placing' = {}
    /\ nav' = <<>>
    /\ mounted' = {}
    /\ exiting' = {}
    /\ clearing' = {}
    /\ isLoading' = [o \in Orders |-> FALSE]
    /\ pc' = [a \in Attempts |-> IF pc[a] = "off" THEN "off" ELSE "over"]
    /\ request' = [a \in Attempts |-> IF request[a] = "unsent" THEN "none" ELSE request[a]]
    /\ reply' = [a \in Attempts |-> "none"]
    /\ UNCHANGED <<cart, ordered, serverVars>>

-----------------------------------------------------------------------------

\* An await whose answer is there is over.
Resume(a) ==
    \/ GetApiTokenResponse(a)
    \/ GetFinalPaymentApiResponse(a)
    \/ GetSuccessCallBackResponse(a)
    \/ CallThrows(a)
    \/ CallFails(a)
    \/ Abandoned(a)

\* The customer answers the sheet, the network its check.
Answered(a) ==
    \/ SheetAnswers(a)
    \/ GetApiToken(a)
    \/ GetFinalPaymentApi(a)
    \/ HitSuccessCallBack(a)

Next ==
    \/ \E i \in Items : AddToCart(i)
    \/ \E o \in Orders :
        \/ PlaceOrder(o) \/ OrderAnswered(o) \/ AskToLeave(o)
        \/ AnswerExit(o) \/ LeaveNow(o) \/ ClearCart(o)
    \/ \E a \in Attempts :
        \/ OnValidate(a) \/ MakePayment(a) \/ Answered(a)
        \/ Post(a) \/ Resume(a) \/ Serve(a) \/ Break(a)
    \/ SystemBack
    \/ GoHome
    \/ Kill

Spec == Init /\ [][Next]_vars

\* The event loop runs every coroutine whose await is over.  Nobody owes an
\* answer: neither the customer nor a server, and no request has a time-out.
FairSpec ==
    /\ Spec
    /\ \A a \in Attempts : WF_vars(Post(a)) /\ WF_vars(Resume(a))

-----------------------------------------------------------------------------
(* Properties.                                                             *)

\* The backend is told of a payment (isPaymentSuccessTrue is hard-coded in
\* _hitSuccessCallBack) only for a token that Clover really charged.
ReportedWasCharged == reported \subseteq charges

Paid(o) == \E a \in reported : OrderOf[a] = o

\* "PLACED SUCCESSFULLY" is on the stack of screens only for orders whose
\* payment the backend has recorded.
SuccessMeansPaid ==
    \A i \in 1..Len(nav) : nav[i][1] = "done" => Paid(nav[i][2])

\* The cart a success screen is about to empty holds nothing that was not
\* part of the order just paid (clearAllCartProduct takes the whole table),
\* provided the customer does not go shopping while an order is placed.
OnlyOrderedItemsCleared == \A o \in clearing : cart \subseteq ordered[o]

\* No two charge requests of one order are on their way at the same time,
\* although nothing in the request identifies the order and a failed attempt
\* may be repeated.
ChargesNeverOverlap ==
    \A a, b \in Attempts :
        a # b /\ OrderOf[a] = OrderOf[b] =>
            ~(request[a] = "charge" /\ request[b] = "charge")

\* An attempt on a screen that is still there has the screen to itself, and
\* the overlay is up for as long as it lasts.
OneAttemptPerScreen ==
    \A a \in Attempts : Live(a) /\ HasContext(a) =>
        /\ isLoading[OrderOf[a]]
        /\ \A b \in Attempts \ {a} :
            Live(b) => OrderOf[b] # OrderOf[a]

\* No charge leaves blindly: while one is on its way for an order, the app was
\* told of every other charge Clover has made for that order.  A connection
\* that breaks after the charge was served ends the attempt without an answer;
\* nothing in the request would tell Clover that the next one repeats it.
NoBlindRetry ==
    \A a, b \in Attempts :
        /\ a # b /\ OrderOf[a] = OrderOf[b]
        /\ request[a] = "charge"
        /\ b \in charges
        => b \in confirmed

\* What an attempt waits for that the app has no power over: the Apple Pay
\* sheet, the network check, or a server that has its request.
Awaits(a) ==
    \/ pc[a] \in {"sheet", "checkToken", "checkCharge", "checkReport"}
    \/ pc[a] \in Calls /\ request[a] = pc[a] /\ reply[a] = "none"

\* The overlay of a screen that is still there does not outlast the attempts
\* below it: it is lowered, or something outside the app is waited for, or
\* the exception of CallThrows has left it up.
OverlayLowered ==
    \A o \in Orders :
        isLoading[o] /\ o \in mounted ~>
            \/ ~isLoading[o]
            \/ o \notin mounted
            \/ \E a \in Attempts :
                OrderOf[a] = o /\ (Awaits(a) \/ pc[a] = "thrown")

\* The screens implement the ledger: see OrderLedger.
Ledger == INSTANCE OrderLedger WITH
              cart <- cart, ordered <- ordered, charges <- charges, reported <- reported
KeepsLedger == Ledger!Spec

=============================================================================
