---------------------------- MODULE PaymentProofs ----------------------------
(***************************************************************************)
(* Theorems about Payment, for every set of orders, items and attempts.    *)
(***************************************************************************)
EXTENDS Payment, SequenceTheorems, TLAPS

USE PaymentAssumption DEF PaymentAssumption

\* What Front does to a stack of routes: only the top one is gone.
LEMMA FrontOfStack ==
    ASSUME NEW S, NEW s \in Seq(S), s # <<>>
    PROVE  /\ Front(s) \in Seq(S)
           /\ Len(Front(s)) = Len(s) - 1
           /\ \A i \in 1..Len(Front(s)) : Front(s)[i] = s[i]
           /\ Last(s) \in S
           /\ Len(s) \in Nat \ {0}
<1>1. Len(s) \in Nat \ {0}
    OBVIOUS
<1>2. \A i \in 1..(Len(s) - 1) : s[i] \in S
    OBVIOUS
<1>3. /\ Front(s) \in Seq(S)
      /\ Len(Front(s)) = Len(s) - 1
      /\ \A i \in 1..(Len(s) - 1) : Front(s)[i] = s[i]
    <2> DEFINE n == Len(s) - 1
    <2>1. n \in Nat /\ 1 \in Int /\ n \in Int /\ n - 1 + 1 = n /\ n = Len(s) - 1
        BY <1>1
    <2>2. \A i \in 1..n : s[i] \in S
        BY <1>2
    <2> HIDE DEF n
    <2>3. /\ SubSeq(s, 1, n) \in Seq(S)
          /\ Len(SubSeq(s, 1, n)) = IF 1 <= n THEN n - 1 + 1 ELSE 0
          /\ \A i \in 1..(n - 1 + 1) : SubSeq(s, 1, n)[i] = s[1 + i - 1]
        BY <2>1, <2>2, SubSeqProperties
    <2>4. \A i \in 1..n : s[1 + i - 1] = s[i]
        BY <2>1
    <2>5. Len(SubSeq(s, 1, n)) = n
        BY <2>1, <2>3
    <2>6. Front(s) = SubSeq(s, 1, n)
        BY <2>1 DEF Front
    <2> QED
        BY <2>1, <2>3, <2>4, <2>5, <2>6
<1>4. Last(s) \in S
    BY <1>1 DEF Last
<1>5. \A i \in 1..Len(Front(s)) : Front(s)[i] = s[i]
    BY <1>3
<1> QED
    BY <1>1, <1>3, <1>4, <1>5

\* Every variable keeps its type, whatever the code of Payment does.
THEOREM TypeCorrect == Spec => []TypeOK
<1>1. Init => TypeOK
    BY DEF Init, TypeOK, Stages, Routes
<1>2. TypeOK /\ [Next]_vars => TypeOK'
    <2> SUFFICES ASSUME TypeOK, [Next]_vars PROVE TypeOK'
        OBVIOUS
    <2> USE DEF TypeOK
    <2>1. ASSUME NEW i \in Items, AddToCart(i) PROVE TypeOK'
        BY <2>1 DEF AddToCart, screenVars, attemptVars, serverVars
    <2>2. ASSUME NEW o \in Orders, PlaceOrder(o) PROVE TypeOK'
        BY <2>2 DEF PlaceOrder, screenVars, attemptVars, serverVars
    <2>16. ASSUME NEW o \in Orders, OrderAnswered(o) PROVE TypeOK'
        <3>1. CASE nav' = Append(nav, <<"pay", o>>) /\ mounted' = mounted \union {o}
            BY <2>16, <3>1, AppendProperties
               DEF OrderAnswered, attemptVars, serverVars, Routes, Pages
        <3>2. CASE UNCHANGED <<nav, mounted>>
            BY <2>16, <3>2 DEF OrderAnswered, attemptVars, serverVars
        <3> QED
            BY <2>16, <3>1, <3>2 DEF OrderAnswered
    <2>3. ASSUME NEW a \in Attempts, OnValidate(a) PROVE TypeOK'
        BY <2>3 DEF OnValidate, Goto, SetLoading, Stages,
                    cartVars, screenVars, serverVars
    <2>4. ASSUME NEW a \in Attempts, MakePayment(a) PROVE TypeOK'
        BY <2>4 DEF MakePayment, Goto, SetLoading, Stages,
                    cartVars, screenVars, serverVars
    <2>17. ASSUME NEW a \in Attempts, Post(a) PROVE TypeOK'
        BY <2>17 DEF Post, Calls, cartVars, screenVars, serverVars
    <2>5. ASSUME NEW a \in Attempts, Resume(a) \/ Answered(a) PROVE TypeOK'
        <3> USE DEF Goto, SetLoading, Consume, Send, Stages, Calls,
                    cartVars, screenVars, serverVars
        <3>1. CASE SheetAnswers(a)
            <4>1. pc' \in [Attempts -> Stages] /\ isLoading' \in [Orders -> BOOLEAN]
                <5>1. CASE Goto(a, "checkToken") /\ UNCHANGED isLoading
                    BY <5>1
                <5>2. CASE Goto(a, "over") /\ SetLoading(OrderOf[a], FALSE)
                    BY <5>2
                <5> QED
                    BY <3>1, <5>1, <5>2 DEF SheetAnswers
            <4> QED
                BY <3>1, <4>1 DEF SheetAnswers
        <3>2. ASSUME NEW stage, NEW call \in Calls, Connectivity(a, stage, call)
              PROVE TypeOK'
            <4>1. /\ pc' \in [Attempts -> Stages]
                  /\ isLoading' \in [Orders -> BOOLEAN]
                  /\ request' \in [Attempts -> Calls \union {"unsent", "none"}]
                <5>1. CASE Send(a, call) /\ UNCHANGED isLoading
                    BY <5>1
                <5>2. CASE /\ Goto(a, "over")
                           /\ SetLoading(OrderOf[a], FALSE)
                           /\ UNCHANGED <<request, reply>>
                    BY <5>2
                <5> QED
                    BY <3>2, <5>1, <5>2 DEF Connectivity
            <4>2. UNCHANGED <<cart, ordered, placing, nav, mounted, exiting, clearing,
                              reply, charges, confirmed, reported>>
                BY <3>2 DEF Connectivity
            <4> QED
                BY <4>1, <4>2
        <3>3. CASE GetApiTokenResponse(a)
            BY <3>3 DEF GetApiTokenResponse, CoveredWhileCharging
        <3>4. CASE GetFinalPaymentApiResponse(a)
            BY <3>4 DEF GetFinalPaymentApiResponse
        <3>5. CASE GetSuccessCallBackResponse(a)
            BY <3>5, AppendProperties DEF GetSuccessCallBackResponse, Routes, Pages
        <3>6. CASE CallThrows(a)
            BY <3>6 DEF CallThrows
        <3>7. CASE CallFails(a)
            BY <3>7 DEF CallFails
        <3>8. CASE Abandoned(a)
            BY <3>8 DEF Abandoned
        <3> QED
            BY <2>5, <3>1, <3>2, <3>3, <3>4, <3>5, <3>6, <3>7, <3>8
               DEF Resume, Answered, GetApiToken, GetFinalPaymentApi, HitSuccessCallBack
    <2>6. ASSUME NEW a \in Attempts, Serve(a) PROVE TypeOK'
        BY <2>6 DEF Serve, Stages, Calls, cartVars, screenVars
    <2>7. ASSUME NEW a \in Attempts, Break(a) PROVE TypeOK'
        BY <2>7 DEF Break, Stages, Calls, cartVars, screenVars, serverVars
    <2>8. ASSUME NEW o \in Orders, AskToLeave(o) PROVE TypeOK'
        BY <2>8 DEF AskToLeave, Routes, Pages, cartVars, attemptVars, serverVars
    <2>9. ASSUME NEW o \in Orders, AnswerExit(o) PROVE TypeOK'
        BY <2>9, FrontOfStack
           DEF AnswerExit, OnTop, cartVars, attemptVars, serverVars
    <2>10. ASSUME NEW o \in Orders, LeaveNow(o) PROVE TypeOK'
        <3>1. CASE PopRoute
            BY <2>10, <3>1, FrontOfStack
               DEF LeaveNow, PopRoute, cartVars, attemptVars, serverVars
        <3>2. CASE UNCHANGED <<nav, mounted>>
            BY <2>10, <3>2 DEF LeaveNow, cartVars, attemptVars, serverVars
        <3> QED
            BY <2>10, <3>1, <3>2 DEF LeaveNow
    <2>11. CASE SystemBack
        BY <2>11, FrontOfStack
           DEF SystemBack, PopRoute, cartVars, attemptVars, serverVars
    <2>12. CASE GoHome
        BY <2>12 DEF GoHome, cartVars, attemptVars, serverVars
    <2>13. ASSUME NEW o \in Orders, ClearCart(o) PROVE TypeOK'
        BY <2>13 DEF ClearCart, attemptVars, serverVars
    <2>14. CASE Kill
        BY <2>14 DEF Kill, Stages, cartVars, serverVars
    <2>15. CASE UNCHANGED vars
        BY <2>15 DEF vars, cartVars, screenVars, attemptVars, serverVars
    <2> QED
        BY <2>1, <2>2, <2>3, <2>4, <2>5, <2>6, <2>7, <2>8, <2>9, <2>10,
           <2>11, <2>12, <2>13, <2>14, <2>15, <2>16, <2>17 DEF Next
<1> QED
    BY <1>1, <1>2, PTL DEF Spec
-----------------------------------------------------------------------------
(* What the backend is told was charged, and what the customer is told was *)
(* paid.                                                                   *)

\* What a connection can have delivered, and when.
RequestsInOrder ==
    \A a \in Attempts :
        /\ pc[a] = "off" => request[a] = "none"
        /\ reply[a] \in {"ok", "refused"} => request[a] = "none"
        /\ request[a] = "unsent" => pc[a] \in Calls /\ reply[a] = "none"
        /\ request[a] \in Calls /\ Live(a) => pc[a] = request[a]
        /\ reply[a] # "none" => pc[a] \in Calls

\* An attempt gets as far as reporting, and its success screen, only with
\* the charge, and the report, behind it.
ChargeBehindReport ==
    \A a \in Attempts :
        /\ pc[a] = "charge" /\ reply[a] = "ok" => a \in charges
        /\ pc[a] \in {"checkReport", "report"} => a \in charges
        /\ request[a] = "report" => a \in charges
        /\ pc[a] = "report" /\ reply[a] = "ok" => a \in reported
        /\ a \in reported => a \in charges

InOrder == RequestsInOrder /\ ChargeBehindReport

\* Both are kept by every step, on Android and with Apple Pay alike.
LEMMA InOrderStep ==
    ASSUME TypeOK, InOrder, [Next]_vars
    PROVE  InOrder'
<1> USE DEF TypeOK, InOrder, RequestsInOrder, ChargeBehindReport, Live, Calls, Stages
<1>1. CASE UNCHANGED <<attemptVars, serverVars>>
    BY <1>1 DEF attemptVars, serverVars
<1>2. ASSUME NEW a \in Attempts, OnValidate(a) \/ MakePayment(a)
      PROVE  InOrder'
    <2>1. /\ pc[a] = "off" /\ UNCHANGED <<request, reply, charges, reported>>
          /\ \E stage \in {"checkToken", "sheet"} : pc' = [pc EXCEPT ![a] = stage]
        BY <1>2 DEF OnValidate, MakePayment, Goto, serverVars
    <2>2. request[a] = "none" /\ reply[a] = "none"
        BY <2>1
    <2> QED
        BY <2>1, <2>2
<1>3. ASSUME NEW a \in Attempts, SheetAnswers(a) PROVE InOrder'
    <2>1. \/ pc' = [pc EXCEPT ![a] = "checkToken"]
          \/ pc' = [pc EXCEPT ![a] = "over"]
        BY <1>3 DEF SheetAnswers, Goto
    <2>2. UNCHANGED <<request, reply, charges, reported>> /\ pc[a] = "sheet"
        BY <1>3 DEF SheetAnswers, serverVars
    <2> QED
        BY <2>1, <2>2
<1>4. ASSUME NEW a \in Attempts, NEW stage \in Stages, NEW call \in Calls,
             Connectivity(a, stage, call),
             stage \notin Calls \union {"off", "over"},
             call = "report" => stage = "checkReport"
      PROVE  InOrder'
    <2>1. UNCHANGED <<reply, charges, reported>> /\ pc[a] = stage /\ reply[a] = "none"
        BY <1>4 DEF Connectivity, Send, serverVars
    <2>2. CASE Send(a, call)
        BY <1>4, <2>1, <2>2 DEF Send, Goto
    <2>3. CASE Goto(a, "over") /\ UNCHANGED <<request, reply>>
        BY <1>4, <2>1, <2>3 DEF Goto
    <2> QED
        BY <1>4, <2>2, <2>3 DEF Connectivity
<1>5. ASSUME NEW a \in Attempts,
             \/ GetApiTokenResponse(a)
             \/ GetFinalPaymentApiResponse(a)
             \/ GetSuccessCallBackResponse(a)
             \/ CallThrows(a)
             \/ CallFails(a)
             \/ Abandoned(a)
      PROVE  InOrder'
    <2>1. CASE GetApiTokenResponse(a)
        BY <2>1 DEF GetApiTokenResponse, Consume, Goto, serverVars
    <2>2. CASE GetFinalPaymentApiResponse(a)
        BY <2>2 DEF GetFinalPaymentApiResponse, Consume, Goto, serverVars
    <2>3. CASE GetSuccessCallBackResponse(a)
        BY <2>3 DEF GetSuccessCallBackResponse, Consume, Goto, serverVars
    <2>4. CASE CallThrows(a)
        BY <2>4 DEF CallThrows, Unparsed, Consume, Goto, serverVars
    <2>5. CASE CallFails(a)
        BY <2>5 DEF CallFails, Consume, Goto, serverVars
    <2>6. CASE Abandoned(a)
        BY <2>6 DEF Abandoned, Consume, Goto, serverVars
    <2> QED
        BY <1>5, <2>1, <2>2, <2>3, <2>4, <2>5, <2>6
<1>6. ASSUME NEW a \in Attempts, Serve(a) PROVE InOrder'
    <2>1. PICK answer \in {"ok", "refused"} :
            /\ reply' = IF pc[a] = request[a] /\ reply[a] = "none"
                           THEN [reply EXCEPT ![a] = answer] ELSE reply
            /\ charges' = IF request[a] = "charge" /\ answer = "ok"
                             THEN charges \union {a} ELSE charges
            /\ reported' = IF request[a] = "report" /\ answer = "ok"
                              THEN reported \union {a} ELSE reported
        BY <1>6 DEF Serve
    <2>2. request[a] \in Calls /\ request' = [request EXCEPT ![a] = "none"] /\ pc' = pc
        BY <1>6 DEF Serve
    <2>3. RequestsInOrder'
        BY <2>1, <2>2
    <2>4. ChargeBehindReport'
        BY <2>1, <2>2
    <2> QED
        BY <2>3, <2>4
<1>7. ASSUME NEW a \in Attempts, Break(a) \/ Post(a) PROVE InOrder'
    <2>1. CASE Break(a)
        BY <2>1 DEF Break, serverVars
    <2>2. CASE Post(a)
        BY <2>2 DEF Post, serverVars
    <2> QED
        BY <1>7, <2>1, <2>2
<1>8. CASE Kill
    BY <1>8 DEF Kill, serverVars
<1>9. CASE \/ \E i \in Items : AddToCart(i)
           \/ \E o \in Orders : \/ PlaceOrder(o) \/ OrderAnswered(o)
                                \/ AskToLeave(o) \/ AnswerExit(o)
                                \/ LeaveNow(o) \/ ClearCart(o)
           \/ SystemBack
           \/ GoHome
           \/ UNCHANGED vars
    <2>1. UNCHANGED <<attemptVars, serverVars>>
        BY <1>9 DEF AddToCart, PlaceOrder, OrderAnswered, AskToLeave, AnswerExit,
                    LeaveNow, ClearCart, SystemBack, GoHome, vars
    <2> QED
        BY <1>1, <2>1
<1> QED
    <2>1. ASSUME NEW a \in Attempts, Resume(a) \/ Answered(a) PROVE InOrder'
        BY <2>1, <1>3, <1>4, <1>5
           DEF Resume, Answered, GetApiToken, GetFinalPaymentApi, HitSuccessCallBack
    <2> HIDE DEF TypeOK, InOrder
    <2>2. ASSUME NEW a \in Attempts,
                 \/ OnValidate(a) \/ MakePayment(a) \/ Answered(a)
                 \/ Post(a) \/ Resume(a) \/ Serve(a) \/ Break(a)
          PROVE  InOrder'
        BY <1>2, <1>6, <1>7, <2>1, <2>2
    <2> QED
        BY <1>8, <1>9, <2>2 DEF Next

LEMMA InOrderAlways == Spec => []InOrder
<1>1. Init => InOrder
    BY DEF Init, InOrder, RequestsInOrder, ChargeBehindReport, Calls
<1>2. TypeOK /\ InOrder /\ [Next]_vars => InOrder'
    BY InOrderStep
<1> QED
    BY <1>1, <1>2, TypeCorrect, PTL DEF Spec

\* The backend never records a payment that Clover has not taken: whatever
\* is lost, whenever the app is killed, however attempts interleave.
THEOREM ReportedCharged == Spec => []ReportedWasCharged
<1>1. TypeOK /\ InOrder => ReportedWasCharged
    BY DEF TypeOK, InOrder, ChargeBehindReport, ReportedWasCharged
<1> QED
    BY <1>1, TypeCorrect, InOrderAlways, PTL

\* How a step may change the stack of screens.
Covered ==
    \E r \in Routes :
        /\ nav' = Append(nav, r)
        /\ r[1] = "pay" => r[2] \in placing /\ mounted' = mounted \union {r[2]}
        /\ r[1] # "pay" => mounted' = mounted
        /\ r[1] = "done" =>
            \E a \in Attempts : OrderOf[a] = r[2] /\ pc[a] = "report" /\ reply[a] = "ok"

Uncovered ==
    /\ nav # <<>>
    /\ nav' = Front(nav)
    /\ \/ mounted' = mounted /\ Last(nav)[1] # "pay"
       \/ mounted' = mounted \ {Last(nav)[2]} /\ Last(nav)[1] = "pay"

LEMMA NavStep ==
    ASSUME TypeOK, [Next]_vars
    PROVE  \/ nav' = nav /\ mounted' = mounted
           \/ nav' = <<>> /\ mounted' \in {mounted, {}}
           \/ Covered
           \/ Uncovered
<1>1. ASSUME NEW o \in Orders, OrderAnswered(o)
      PROVE  Covered \/ (nav' = nav /\ mounted' = mounted)
    <2>1. <<"pay", o>> \in Routes
        BY DEF Routes, Pages
    <2> QED
        BY <1>1, <2>1 DEF OrderAnswered, Covered
<1>2. ASSUME NEW a \in Attempts, GetSuccessCallBackResponse(a) PROVE Covered
    <2>1. <<"done", OrderOf[a]>> \in Routes
        BY DEF Routes, Pages
    <2> QED
        BY <1>2, <2>1 DEF GetSuccessCallBackResponse, Covered
<1>3. ASSUME NEW o \in Orders, AskToLeave(o) PROVE Covered
    <2>1. <<"exit", o>> \in Routes
        BY DEF Routes, Pages
    <2> QED
        BY <1>3, <2>1 DEF AskToLeave, Covered
<1>4. ASSUME NEW o \in Orders, AnswerExit(o) PROVE Uncovered
    BY <1>4 DEF AnswerExit, OnTop, Uncovered
<1>5. ASSUME PopRoute PROVE Uncovered
    BY <1>5 DEF PopRoute, Uncovered
<1>6. ASSUME NEW a \in Attempts, Resume(a) \/ Answered(a), ~GetSuccessCallBackResponse(a)
      PROVE  nav' = nav /\ mounted' = mounted
    BY <1>6 DEF Resume, Answered, SheetAnswers, GetApiToken, GetApiTokenResponse,
                GetFinalPaymentApi, GetFinalPaymentApiResponse, HitSuccessCallBack,
                CallThrows, CallFails, Abandoned, Connectivity, screenVars
<1>7. CASE \/ \E i \in Items : AddToCart(i)
           \/ \E o \in Orders : PlaceOrder(o) \/ ClearCart(o)
           \/ \E a \in Attempts : \/ OnValidate(a) \/ MakePayment(a)
                                  \/ Post(a) \/ Serve(a) \/ Break(a)
           \/ UNCHANGED vars
    BY <1>7 DEF AddToCart, PlaceOrder, ClearCart, OnValidate, MakePayment, Post, Serve,
                Break, screenVars, vars
<1>8. CASE GoHome \/ Kill
    BY <1>8 DEF GoHome, Kill
<1> QED
    BY <1>1, <1>2, <1>3, <1>4, <1>5, <1>6, <1>7, <1>8 DEF Next, LeaveNow, SystemBack

LEMMA ReportedGrows ==
    ASSUME [Next]_vars
    PROVE  reported \subseteq reported'
BY DEF Next, AddToCart, PlaceOrder, OrderAnswered, AskToLeave, AnswerExit,
       LeaveNow, ClearCart, OnValidate, MakePayment, Resume, Answered, Post, SheetAnswers,
       GetApiToken, GetApiTokenResponse, GetFinalPaymentApi,
       GetFinalPaymentApiResponse, HitSuccessCallBack,
       GetSuccessCallBackResponse, CallThrows, CallFails, Abandoned,
       Connectivity, Serve, Break, SystemBack, GoHome, Kill, serverVars, vars

\* No success screen without a recorded payment of its order.
THEOREM SuccessPaid == Spec => []SuccessMeansPaid
<1>1. Init => SuccessMeansPaid
    BY DEF Init, SuccessMeansPaid
<1>2. ASSUME TypeOK, InOrder, SuccessMeansPaid, [Next]_vars
      PROVE  SuccessMeansPaid'
    <2>1. reported \subseteq reported'
        BY <1>2, ReportedGrows
    <2>2. \A o : Paid(o) => Paid(o)'
        BY <2>1 DEF Paid
    <2>3. CASE nav' = nav \/ nav' = <<>>
        BY <1>2, <2>2, <2>3 DEF SuccessMeansPaid
    <2>4. CASE Covered
        <3>1. PICK r \in Routes :
                /\ nav' = Append(nav, r)
                /\ r[1] = "done" => \E a \in Attempts :
                     OrderOf[a] = r[2] /\ pc[a] = "report" /\ reply[a] = "ok"
            BY <2>4 DEF Covered
        <3>2. r[1] = "done" => Paid(r[2])
            BY <1>2, <3>1 DEF InOrder, ChargeBehindReport, Paid
        <3>3. /\ Len(nav') = Len(nav) + 1
              /\ nav'[Len(nav) + 1] = r
              /\ \A i \in 1..Len(nav) : nav'[i] = nav[i]
            BY <1>2, <3>1, AppendProperties DEF TypeOK
        <3>4. Len(nav) \in Nat
            BY <1>2 DEF TypeOK
        <3> QED
            BY <1>2, <2>2, <3>2, <3>3, <3>4 DEF SuccessMeansPaid
    <2>5. CASE Uncovered
        <3>1. /\ Len(nav') = Len(nav) - 1
              /\ Len(nav) \in Nat
              /\ \A i \in 1..Len(nav') : nav'[i] = nav[i]
            <4>1. nav \in Seq(Routes)
                BY <1>2 DEF TypeOK
            <4>2. nav # <<>> /\ nav' = Front(nav)
                BY <2>5 DEF Uncovered
            <4>3. /\ Len(Front(nav)) = Len(nav) - 1
                  /\ Len(nav) \in Nat \ {0}
                  /\ \A i \in 1..Len(Front(nav)) : Front(nav)[i] = nav[i]
                BY <4>1, <4>2, FrontOfStack
            <4> QED
                BY <4>2, <4>3
        <3> QED
            BY <1>2, <2>2, <3>1 DEF SuccessMeansPaid
    <2> QED
        BY <1>2, <2>3, <2>4, <2>5, NavStep
<1> QED
    BY <1>1, <1>2, TypeCorrect, InOrderAlways, PTL DEF Spec

-----------------------------------------------------------------------------
(* One attempt at a time, where there is no Apple Pay.                     *)

\* A payment screen that can be reached is there once, and is there.
ScreensMounted ==
    /\ \A i \in 1..Len(nav) : nav[i][1] = "pay" => nav[i][2] \in mounted
    /\ \A i, j \in 1..Len(nav) : nav[i] = nav[j] /\ nav[i][1] = "pay" => i = j

\* It was opened for an order that was requested, and was not open before
\* the answer came.
ScreensOrdered ==
    /\ \A o \in mounted \union placing : ordered[o] # {}
    /\ mounted \intersect placing = {}
    /\ \A a \in Attempts : pc[a] # "off" =>
        ordered[OrderOf[a]] # {} /\ OrderOf[a] \notin placing

Screens == ScreensMounted /\ ScreensOrdered

\* Running, or over with a charge still under way.
Busy(a) == Live(a) \/ request[a] = "charge"

\* Attempts that are busy are covered by the overlay and alone.
BusyIsCovered ==
    /\ \A a \in Attempts : Busy(a) /\ HasContext(a) => isLoading[OrderOf[a]]
    /\ \A a, b \in Attempts :
        Busy(a) /\ Busy(b) /\ OrderOf[a] = OrderOf[b] => a = b

LEMMA TopIsMounted ==
    ASSUME TypeOK, ScreensMounted, NEW o \in Orders, OnTop("pay", o)
    PROVE  o \in mounted
<1>1. Len(nav) \in 1..Len(nav) /\ nav[Len(nav)] = <<"pay", o>>
    BY DEF TypeOK, OnTop, Last
<1> QED
    BY <1>1 DEF ScreensMounted

LEMMA ScreensMountedStep ==
    ASSUME TypeOK, Screens, [Next]_vars
    PROVE  ScreensMounted'
<1> USE DEF Screens, ScreensMounted
<1>1. CASE nav' = nav /\ mounted' = mounted
    BY <1>1
<1>2. CASE nav' = <<>>
    BY <1>2
<1>3. CASE Covered
    <2>1. PICK r \in Routes :
            /\ nav' = Append(nav, r)
            /\ r[1] = "pay" => r[2] \in placing /\ mounted' = mounted \union {r[2]}
            /\ r[1] # "pay" => mounted' = mounted
        BY <1>3 DEF Covered
    <2>2. /\ Len(nav) \in Nat
          /\ Len(nav') = Len(nav) + 1
          /\ nav'[Len(nav) + 1] = r
          /\ \A i \in 1..Len(nav) : nav'[i] = nav[i]
        BY <2>1, AppendProperties DEF TypeOK
    <2>3. \A i \in 1..Len(nav) : r[1] = "pay" => nav[i] # r
        BY <2>1 DEF ScreensOrdered
    <2>4. mounted \subseteq mounted' /\ (r[1] = "pay" => r[2] \in mounted')
        BY <2>1
    <2>5. \A i \in 1..Len(nav') : i \in 1..Len(nav) \/ i = Len(nav) + 1
        BY <2>2
    <2> QED
        BY <2>2, <2>3, <2>4, <2>5
<1>4. CASE Uncovered
    <2>1. /\ Len(nav') = Len(nav) - 1
          /\ Len(nav) \in Nat \ {0}
          /\ \A i \in 1..Len(nav') : nav'[i] = nav[i]
          /\ Last(nav) = nav[Len(nav)]
        BY <1>4, FrontOfStack DEF TypeOK, Uncovered, Last
    <2>2. \A i \in 1..Len(nav') : i \in 1..Len(nav) /\ i # Len(nav)
        BY <2>1
    <2>3. \A i \in 1..Len(nav) : nav[i] = <<nav[i][1], nav[i][2]>>
        BY DEF TypeOK, Routes
    <2>4. \A i \in 1..Len(nav') : nav'[i][1] = "pay" => nav'[i][2] \in mounted'
        <3> SUFFICES ASSUME NEW i \in 1..Len(nav'), nav'[i][1] = "pay"
                     PROVE  nav'[i][2] \in mounted'
            OBVIOUS
        <3>1. nav[i][2] \in mounted /\ nav[i][1] = "pay" /\ nav'[i] = nav[i]
            BY <2>1, <2>2
        <3>2. Last(nav)[1] = "pay" => Last(nav)[2] # nav[i][2]
            <4>1. Len(nav) \in 1..Len(nav) /\ i \in 1..Len(nav) /\ i # Len(nav)
                BY <2>1, <2>2
            <4>2. nav[i] = <<"pay", nav[i][2]>>
                BY <2>3, <3>1, <4>1
            <4>3. Last(nav) = <<Last(nav)[1], Last(nav)[2]>>
                BY <2>1, <2>3, <4>1
            <4>4. nav[i] # nav[Len(nav)]
                BY <3>1, <4>1
            <4> QED
                BY <2>1, <4>2, <4>3, <4>4
        <3> QED
            BY <1>4, <3>1, <3>2 DEF Uncovered
    <2> QED
        BY <2>1, <2>2, <2>4
<1> QED
    BY <1>1, <1>2, <1>3, <1>4, NavStep

LEMMA ScreensOrderedStep ==
    ASSUME TypeOK, Screens, [Next]_vars
    PROVE  ScreensOrdered'
<1> USE DEF TypeOK, Screens, ScreensOrdered
<1>1. ASSUME UNCHANGED <<ordered, placing, pc>>, mounted' \subseteq mounted
      PROVE  ScreensOrdered'
    BY <1>1
<1>2. ASSUME NEW o \in Orders, PlaceOrder(o) PROVE ScreensOrdered'
    BY <1>2 DEF PlaceOrder, screenVars, attemptVars
<1>3. ASSUME NEW o \in Orders, OrderAnswered(o) PROVE ScreensOrdered'
    BY <1>3 DEF OrderAnswered, attemptVars
<1>4. ASSUME NEW a \in Attempts, OnValidate(a) \/ MakePayment(a)
      PROVE  ScreensOrdered'
    <2>1. OrderOf[a] \in mounted
        BY <1>4, TopIsMounted DEF OnValidate, MakePayment, CanPay
    <2> QED
        BY <1>4, <2>1 DEF OnValidate, MakePayment, Goto, cartVars, screenVars
<1>5. ASSUME NEW a \in Attempts, Resume(a) \/ Answered(a) PROVE ScreensOrdered'
    <2>1. pc[a] # "off" /\ \E stage \in Stages : pc' = [pc EXCEPT ![a] = stage]
        BY <1>5 DEF Resume, Answered, SheetAnswers, GetApiToken, GetApiTokenResponse,
            GetFinalPaymentApi, GetFinalPaymentApiResponse, HitSuccessCallBack,
            GetSuccessCallBackResponse, CallThrows, CallFails, Abandoned,
            Connectivity, Unparsed, Live, Send, Consume, Goto, Stages, Calls
    <2>2. UNCHANGED <<ordered, placing, mounted>>
        BY <1>5 DEF Resume, Answered, SheetAnswers, GetApiToken, GetApiTokenResponse,
            GetFinalPaymentApi, GetFinalPaymentApiResponse, HitSuccessCallBack,
            GetSuccessCallBackResponse, CallThrows, CallFails, Abandoned,
            Connectivity, cartVars, screenVars
    <2> QED
        BY <2>1, <2>2
<1>6. CASE Kill
    BY <1>6 DEF Kill, Live
<1>7. CASE \/ \E i \in Items : AddToCart(i)
           \/ \E o \in Orders : \/ AskToLeave(o) \/ AnswerExit(o)
                                \/ LeaveNow(o) \/ ClearCart(o)
           \/ \E a \in Attempts : Post(a) \/ Serve(a) \/ Break(a)
           \/ SystemBack
           \/ GoHome
           \/ UNCHANGED vars
    <2>1. UNCHANGED <<ordered, placing, pc>> /\ mounted' \subseteq mounted
        BY <1>7 DEF AddToCart, AskToLeave, AnswerExit, LeaveNow, ClearCart, Post, Serve,
            Break, SystemBack, GoHome, PopRoute, cartVars, screenVars, attemptVars, vars
    <2> QED
        BY <1>1, <2>1
<1> HIDE DEF TypeOK, ScreensOrdered
<1> QED
    BY <1>2, <1>3, <1>4, <1>5, <1>6, <1>7 DEF Next

LEMMA ScreensAlways == Spec => []Screens
<1>1. Init => Screens
    BY DEF Init, Screens, ScreensMounted, ScreensOrdered
<1>2. TypeOK /\ Screens /\ [Next]_vars => Screens'
    BY ScreensMountedStep, ScreensOrderedStep DEF Screens
<1> QED
    BY <1>1, <1>2, TypeCorrect, PTL DEF Spec

LEMMA BusyStep ==
    ASSUME ApplePay = {}, TypeOK, InOrder, Screens, BusyIsCovered, [Next]_vars
    PROVE  BusyIsCovered'
<1> USE DEF TypeOK, Stages, Calls
\* Nothing gets busier, no overlay is lowered, no screen appears.
<1>1. ASSUME \A a \in Attempts : Busy(a)' => Busy(a),
             UNCHANGED isLoading, mounted' \subseteq mounted
      PROVE  BusyIsCovered'
    BY <1>1 DEF BusyIsCovered, HasContext
\* One attempt stops being busy, whatever becomes of its overlay.
<1>2. ASSUME NEW a \in Attempts, Busy(a), ~Busy(a)',
             \A b \in Attempts \ {a} : Busy(b)' => Busy(b),
             \A o \in Orders \ {OrderOf[a]} : isLoading'[o] = isLoading[o],
             UNCHANGED mounted
      PROVE  BusyIsCovered'
    BY <1>2 DEF BusyIsCovered, HasContext
\* One attempt goes on under a raised overlay.
<1>3. ASSUME NEW a \in Attempts, Busy(a),
             \A b \in Attempts \ {a} : Busy(b)' => Busy(b),
             isLoading'[OrderOf[a]],
             \A o \in Orders \ {OrderOf[a]} : isLoading'[o] = isLoading[o],
             UNCHANGED mounted
      PROVE  BusyIsCovered'
    BY <1>3 DEF BusyIsCovered, HasContext
<1>4. ASSUME NEW a \in Attempts, OnValidate(a) PROVE BusyIsCovered'
    <2>1. OrderOf[a] \in mounted /\ ~isLoading[OrderOf[a]]
        BY <1>4, TopIsMounted DEF OnValidate, CanPay, Screens
    <2>2. \A b \in Attempts : OrderOf[b] = OrderOf[a] => ~Busy(b)
        BY <2>1 DEF BusyIsCovered, HasContext
    <2>3. \A b \in Attempts \ {a} : Busy(b)' => Busy(b)
        BY <1>4 DEF OnValidate, Goto, Busy, Live
    <2>4. isLoading' = [isLoading EXCEPT ![OrderOf[a]] = TRUE] /\ mounted' = mounted
        BY <1>4 DEF OnValidate, SetLoading, screenVars
    <2> QED
        BY <2>2, <2>3, <2>4 DEF BusyIsCovered, HasContext
<1>5. ASSUME NEW o \in Orders, OrderAnswered(o) PROVE BusyIsCovered'
    <2>1. \A a \in Attempts : OrderOf[a] = o => ~Busy(a)
        BY <1>5 DEF OrderAnswered, Screens, ScreensOrdered, InOrder,
                    RequestsInOrder, Busy, Live
    <2>2. \A a \in Attempts : Busy(a)' = Busy(a)
        BY <1>5 DEF OrderAnswered, Busy, Live, attemptVars
    <2>3. mounted' \subseteq mounted \union {o} /\ UNCHANGED isLoading
        BY <1>5 DEF OrderAnswered
    <2> QED
        BY <2>1, <2>2, <2>3 DEF BusyIsCovered, HasContext
<1>6. ASSUME NEW a \in Attempts, SheetAnswers(a) PROVE BusyIsCovered'
    <2>1. /\ Busy(a) /\ request[a] = "none" /\ UNCHANGED <<request, mounted>>
        BY <1>6 DEF SheetAnswers, InOrder, RequestsInOrder, Busy, Live, screenVars
    <2>2. CASE Goto(a, "checkToken") /\ UNCHANGED isLoading
        BY <1>1, <2>1, <2>2 DEF Goto, Busy, Live
    <2>3. CASE Goto(a, "over") /\ SetLoading(OrderOf[a], FALSE)
        BY <1>2, <2>1, <2>3 DEF Goto, SetLoading, Busy, Live
    <2> QED
        BY <1>6, <2>2, <2>3 DEF SheetAnswers
<1>7. ASSUME NEW a \in Attempts, NEW stage \in {"checkToken", "checkCharge", "checkReport"},
             NEW call, Connectivity(a, stage, call)
      PROVE  BusyIsCovered'
    <2>1. /\ Busy(a) /\ request[a] = "none" /\ UNCHANGED mounted
        BY <1>7 DEF Connectivity, InOrder, RequestsInOrder, Busy, Live, screenVars
    <2>2. CASE Send(a, call) /\ UNCHANGED isLoading
        BY <1>1, <2>1, <2>2 DEF Send, Goto, Busy, Live
    <2>3. CASE Goto(a, "over") /\ SetLoading(OrderOf[a], FALSE) /\ UNCHANGED request
        BY <1>2, <2>1, <2>3 DEF Goto, SetLoading, Busy, Live
    <2> QED
        BY <1>7, <2>2, <2>3 DEF Connectivity
<1>8. ASSUME NEW a \in Attempts,
             GetApiTokenResponse(a) \/ GetFinalPaymentApiResponse(a)
      PROVE  BusyIsCovered'
    <2>1. /\ Busy(a)
          /\ UNCHANGED <<request, mounted>>
          /\ \E stage \in Stages : pc' = [pc EXCEPT ![a] = stage]
        BY <1>8 DEF GetApiTokenResponse, GetFinalPaymentApiResponse, Consume,
                    Goto, Busy, Live, screenVars
    <2>2. isLoading' = [isLoading EXCEPT ![OrderOf[a]] = TRUE]
        BY <1>8 DEF GetApiTokenResponse, GetFinalPaymentApiResponse, SetLoading,
                    CoveredWhileCharging
    <2> QED
        BY <1>3, <2>1, <2>2 DEF Busy, Live
<1>9. ASSUME NEW a \in Attempts, GetSuccessCallBackResponse(a) \/ CallFails(a)
      PROVE  BusyIsCovered'
    <2>1. /\ Live(a)
          /\ pc' = [pc EXCEPT ![a] = "over"]
          /\ isLoading' = [isLoading EXCEPT ![OrderOf[a]] = FALSE]
          /\ UNCHANGED <<request, mounted>>
        BY <1>9 DEF GetSuccessCallBackResponse, CallFails, Consume, Goto,
                    SetLoading, Live, screenVars
    <2>2. request[a] # "charge"
        BY <1>9 DEF GetSuccessCallBackResponse, CallFails, Unparsed, InOrder,
                    RequestsInOrder, Live
    <2> QED
        BY <1>2, <2>1, <2>2 DEF Busy, Live
<1>10. ASSUME NEW a \in Attempts, CallThrows(a) \/ Abandoned(a)
       PROVE  BusyIsCovered'
    <2>1. /\ Live(a)
          /\ \E end \in {"over", "thrown"} : pc' = [pc EXCEPT ![a] = end]
          /\ UNCHANGED <<request, isLoading, mounted>>
        BY <1>10 DEF CallThrows, Abandoned, Unparsed, Consume, Goto, Live, screenVars
    <2> QED
        BY <1>1, <2>1 DEF Busy, Live
<1>11. ASSUME NEW a \in Attempts, Post(a) \/ Serve(a) \/ Break(a) PROVE BusyIsCovered'
    <2>1. /\ UNCHANGED <<pc, isLoading, mounted>>
          /\ \/ request' \in {request, [request EXCEPT ![a] = "none"]}
             \/ Live(a) /\ request' = [request EXCEPT ![a] = pc[a]]
        BY <1>11 DEF Post, Serve, Break, Live, screenVars
    <2> QED
        BY <1>1, <2>1 DEF Busy, Live
<1>12. CASE Kill
    <2>1. /\ \A a \in Attempts : request'[a] = "charge" => request[a] = "charge"
          /\ mounted' = {}
          /\ \A a \in Attempts : ~Live(a)'
        BY <1>12 DEF Kill, Live
    <2> QED
        BY <2>1 DEF BusyIsCovered, HasContext, Busy
<1>13. CASE \/ \E i \in Items : AddToCart(i)
            \/ \E o \in Orders : \/ PlaceOrder(o) \/ AskToLeave(o) \/ AnswerExit(o)
                                 \/ LeaveNow(o) \/ ClearCart(o)
            \/ SystemBack
            \/ GoHome
            \/ UNCHANGED vars
    <2>1. UNCHANGED <<pc, request, isLoading>> /\ mounted' \subseteq mounted
        BY <1>13 DEF AddToCart, PlaceOrder, AskToLeave, AnswerExit, LeaveNow,
            ClearCart, SystemBack, GoHome, PopRoute, cartVars, screenVars,
            attemptVars, vars
    <2> QED
        BY <1>1, <2>1 DEF Busy, Live
<1> HIDE DEF TypeOK
<1>14. \A a \in Attempts : ~MakePayment(a)
    BY DEF MakePayment
<1>15. ASSUME NEW a \in Attempts, Resume(a) \/ Answered(a) PROVE BusyIsCovered'
    BY <1>6, <1>7, <1>8, <1>9, <1>10, <1>15
       DEF Resume, Answered, GetApiToken, GetFinalPaymentApi, HitSuccessCallBack
<1> QED
    BY <1>4, <1>5, <1>11, <1>12, <1>13, <1>14, <1>15 DEF Next

LEMMA BusyAlways ==
    ASSUME ApplePay = {}
    PROVE  Spec => []BusyIsCovered
<1>1. Init => BusyIsCovered
    BY DEF Init, BusyIsCovered, Busy, Live
<1>2. TypeOK /\ InOrder /\ Screens /\ BusyIsCovered /\ [Next]_vars => BusyIsCovered'
    BY BusyStep
<1> QED
    BY <1>1, <1>2, TypeCorrect, InOrderAlways, ScreensAlways, PTL DEF Spec

\* Without Apple Pay, a payment screen never runs two attempts and covers the
\* one it runs until the end, whatever the customer does around it.
THEOREM AttemptsAlone ==
    ASSUME ApplePay = {}
    PROVE  Spec => []OneAttemptPerScreen
<1>1. BusyIsCovered => OneAttemptPerScreen
    BY DEF BusyIsCovered, OneAttemptPerScreen, Busy
<1> QED
    BY <1>1, BusyAlways, PTL

\* Without Apple Pay, an order never has two charges on their way: not even
\* after a broken connection, whose charge may still be served.
THEOREM ChargesAlone ==
    ASSUME ApplePay = {}
    PROVE  Spec => []ChargesNeverOverlap
<1>1. BusyIsCovered => ChargesNeverOverlap
    BY DEF BusyIsCovered, ChargesNeverOverlap, Busy
<1> QED
    BY <1>1, BusyAlways, PTL

-----------------------------------------------------------------------------
(* A charge whose answer was lost, where there is no Apple Pay.            *)

\* Clover is asked for the charge of an attempt once, and only the answer to
\* that takes the attempt on.
AskedOnce ==
    \A a \in Attempts :
        /\ pc[a] \in {"off", "sheet", "checkToken", "token", "checkCharge"}
            => a \notin charges /\ request[a] # "charge"
        /\ request[a] = "charge" => a \notin charges
        /\ pc[a] = "charge" /\ (request[a] = "unsent" \/ reply[a] = "refused")
            => a \notin charges
        /\ pc[a] \in {"checkReport", "report"} => a \in confirmed

\* What the app does not know to be charged keeps its overlay up, and its
\* order to itself.
LostIsCovered ==
    \A b \in charges \ confirmed :
        /\ HasContext(b) => isLoading[OrderOf[b]]
        /\ \A a \in Attempts \ {b} : Busy(a) => OrderOf[a] # OrderOf[b]

LEMMA AskedOnceStep ==
    ASSUME TypeOK, InOrder, AskedOnce, [Next]_vars
    PROVE  AskedOnce'
<1> USE DEF TypeOK, InOrder, RequestsInOrder, AskedOnce, Live, Calls, Stages
<1>1. CASE UNCHANGED <<attemptVars, serverVars>>
    BY <1>1 DEF attemptVars, serverVars
<1>2. ASSUME NEW a \in Attempts, OnValidate(a) \/ MakePayment(a)
      PROVE  AskedOnce'
    <2>1. /\ pc[a] = "off" /\ UNCHANGED <<request, reply, charges, confirmed>>
          /\ \E stage \in {"checkToken", "sheet"} : pc' = [pc EXCEPT ![a] = stage]
        BY <1>2 DEF OnValidate, MakePayment, Goto, serverVars
    <2> QED
        BY <2>1
<1>3. ASSUME NEW a \in Attempts, SheetAnswers(a) PROVE AskedOnce'
    <2>1. /\ pc[a] = "sheet" /\ UNCHANGED <<request, reply, charges, confirmed>>
          /\ \E stage \in {"checkToken", "over"} : pc' = [pc EXCEPT ![a] = stage]
        BY <1>3 DEF SheetAnswers, Goto, serverVars
    <2> QED
        BY <2>1
<1>4. ASSUME NEW a \in Attempts,
             \/ Connectivity(a, "checkToken", "token")
             \/ Connectivity(a, "checkCharge", "charge")
             \/ Connectivity(a, "checkReport", "report")
      PROVE  AskedOnce'
    <2>1. /\ UNCHANGED <<reply, charges, confirmed>>
          /\ \/ pc[a] = "checkToken" /\ pc' = [pc EXCEPT ![a] = "token"]
             \/ pc[a] = "checkCharge" /\ pc' = [pc EXCEPT ![a] = "charge"]
             \/ pc[a] = "checkReport" /\ pc' = [pc EXCEPT ![a] = "report"]
             \/ pc' = [pc EXCEPT ![a] = "over"]
          /\ request' \in {request, [request EXCEPT ![a] = "unsent"]}
        BY <1>4 DEF Connectivity, Send, Goto, serverVars
    <2>2. reply[a] = "none" /\ request[a] = "none"
        BY <1>4 DEF Connectivity
    <2> QED
        BY <2>1, <2>2
<1>5. ASSUME NEW a \in Attempts, Resume(a) PROVE AskedOnce'
    <2>1. CASE GetApiTokenResponse(a)
        BY <2>1 DEF GetApiTokenResponse, Consume, Goto, serverVars
    <2>2. CASE GetFinalPaymentApiResponse(a)
        BY <2>2 DEF GetFinalPaymentApiResponse, Consume, Goto
    <2>3. ASSUME \E end \in {"over", "thrown"} : Consume(a, end), UNCHANGED serverVars
          PROVE  AskedOnce'
        BY <2>3 DEF Consume, Goto, serverVars
    <2> QED
        BY <1>5, <2>1, <2>2, <2>3
           DEF Resume, GetSuccessCallBackResponse, CallThrows, CallFails, Abandoned
<1>6. ASSUME NEW a \in Attempts, Post(a) PROVE AskedOnce'
    BY <1>6 DEF Post, serverVars
<1>7. ASSUME NEW a \in Attempts, Serve(a) PROVE AskedOnce'
    <2>1. PICK answer \in {"ok", "refused"} :
            /\ reply' = IF pc[a] = request[a] /\ reply[a] = "none"
                           THEN [reply EXCEPT ![a] = answer] ELSE reply
            /\ charges' = IF request[a] = "charge" /\ answer = "ok"
                             THEN charges \union {a} ELSE charges
        BY <1>7 DEF Serve
    <2>2. /\ request[a] \in Calls /\ request' = [request EXCEPT ![a] = "none"]
          /\ pc' = pc /\ confirmed' = confirmed
        BY <1>7 DEF Serve
    <2>3. request[a] = "charge" => pc[a] \notin {"off", "sheet", "checkToken", "token", "checkCharge"}
        OBVIOUS
    <2>4. request[a] = "charge" /\ reply[a] = "refused" => FALSE
        OBVIOUS
    <2> QED
        BY <2>1, <2>2, <2>3, <2>4
<1>8. ASSUME NEW a \in Attempts, Break(a) PROVE AskedOnce'
    BY <1>8 DEF Break, serverVars
<1>9. CASE Kill
    BY <1>9 DEF Kill, serverVars
<1>10. CASE \/ \E i \in Items : AddToCart(i)
            \/ \E o \in Orders : \/ PlaceOrder(o) \/ OrderAnswered(o)
                                 \/ AskToLeave(o) \/ AnswerExit(o)
                                 \/ LeaveNow(o) \/ ClearCart(o)
            \/ SystemBack
            \/ GoHome
            \/ UNCHANGED vars
    <2>1. UNCHANGED <<attemptVars, serverVars>>
        BY <1>10 DEF AddToCart, PlaceOrder, OrderAnswered, AskToLeave, AnswerExit,
                     LeaveNow, ClearCart, SystemBack, GoHome, vars
    <2> QED
        BY <1>1, <2>1
<1>11. ASSUME NEW a \in Attempts, Answered(a) PROVE AskedOnce'
    BY <1>3, <1>4, <1>11 DEF Answered, GetApiToken, GetFinalPaymentApi, HitSuccessCallBack
<1> HIDE DEF TypeOK, InOrder, AskedOnce
<1>12. ASSUME NEW a \in Attempts,
              \/ OnValidate(a) \/ MakePayment(a) \/ Answered(a)
              \/ Post(a) \/ Resume(a) \/ Serve(a) \/ Break(a)
       PROVE  AskedOnce'
    BY <1>2, <1>5, <1>6, <1>7, <1>8, <1>11, <1>12
<1> QED
    BY <1>9, <1>10, <1>12 DEF Next

LEMMA LostStep ==
    ASSUME ApplePay = {}, TypeOK, InOrder, Screens, BusyIsCovered, BusyIsCovered',
           AskedOnce, LostIsCovered, [Next]_vars
    PROVE  LostIsCovered'
<1> USE DEF TypeOK, Stages, Calls
\* Nothing is charged or gets busier, no overlay is lowered, no screen appears.
<1>1. ASSUME charges' \ confirmed' \subseteq charges \ confirmed,
             \A a \in Attempts : Busy(a)' => Busy(a),
             UNCHANGED isLoading, mounted' \subseteq mounted
      PROVE  LostIsCovered'
    BY <1>1 DEF LostIsCovered, HasContext
\* The overlay of one running attempt changes, and that attempt's charge is
\* not one the app does not know of.
<1>2. ASSUME NEW a \in Attempts, Live(a), a \notin charges' \ confirmed',
             charges' \ confirmed' \subseteq charges \ confirmed,
             \A b \in Attempts : Busy(b)' => Busy(b),
             \A o \in Orders \ {OrderOf[a]} : isLoading'[o] = isLoading[o],
             UNCHANGED mounted
      PROVE  LostIsCovered'
    <2>1. \A b \in charges \ confirmed : b # a => OrderOf[b] # OrderOf[a]
        BY <1>2 DEF LostIsCovered, Busy
    <2> QED
        BY <1>2, <2>1 DEF LostIsCovered, HasContext
<1>3. ASSUME NEW a \in Attempts, OnValidate(a) PROVE LostIsCovered'
    <2>1. OrderOf[a] \in mounted /\ ~isLoading[OrderOf[a]]
        BY <1>3, TopIsMounted DEF OnValidate, CanPay, Screens
    <2>2. \A b \in charges \ confirmed : OrderOf[b] # OrderOf[a]
        BY <2>1 DEF LostIsCovered, HasContext
    <2>3. \A b \in Attempts \ {a} : Busy(b)' => Busy(b)
        BY <1>3 DEF OnValidate, Goto, Busy, Live
    <2>4. /\ isLoading' = [isLoading EXCEPT ![OrderOf[a]] = TRUE]
          /\ UNCHANGED <<mounted, charges, confirmed>>
        BY <1>3 DEF OnValidate, SetLoading, screenVars, serverVars
    <2> QED
        BY <2>2, <2>3, <2>4 DEF LostIsCovered, HasContext
<1>4. ASSUME NEW o \in Orders, OrderAnswered(o) PROVE LostIsCovered'
    <2>1. \A a \in charges : OrderOf[a] # o
        BY <1>4 DEF OrderAnswered, Screens, ScreensOrdered, AskedOnce
    <2>2. \A a \in Attempts : Busy(a)' = Busy(a)
        BY <1>4 DEF OrderAnswered, Busy, Live, attemptVars
    <2>3. mounted' \subseteq mounted \union {o} /\ UNCHANGED <<isLoading, charges, confirmed>>
        BY <1>4 DEF OrderAnswered, serverVars
    <2> QED
        BY <2>1, <2>2, <2>3 DEF LostIsCovered, HasContext
<1>5. ASSUME NEW a \in Attempts, Answered(a) PROVE LostIsCovered'
    <2>1. /\ pc[a] \in {"sheet", "checkToken", "checkCharge", "checkReport"}
          /\ UNCHANGED <<mounted, charges, confirmed>>
          /\ \E stage \in Stages : pc' = [pc EXCEPT ![a] = stage]
          /\ request' \in {request, [request EXCEPT ![a] = "unsent"]}
          /\ isLoading' \in {isLoading, [isLoading EXCEPT ![OrderOf[a]] = FALSE]}
        BY <1>5 DEF Answered, SheetAnswers, GetApiToken, GetFinalPaymentApi,
            HitSuccessCallBack, Connectivity, Send, Goto, SetLoading, screenVars, serverVars
    <2>2. Live(a) /\ a \notin charges \ confirmed
        BY <2>1 DEF Live, AskedOnce
    <2>3. \A b \in Attempts : Busy(b)' => Busy(b)
        BY <2>1 DEF Busy, Live
    <2> QED
        BY <1>2, <2>1, <2>2, <2>3
<1>6. ASSUME NEW a \in Attempts,
             \/ GetApiTokenResponse(a)
             \/ GetFinalPaymentApiResponse(a)
             \/ GetSuccessCallBackResponse(a)
             \/ CallFails(a)
      PROVE  LostIsCovered'
    <2>1. /\ Live(a)
          /\ UNCHANGED <<mounted, request, charges>>
          /\ \E stage \in Stages : pc' = [pc EXCEPT ![a] = stage]
          /\ \E b \in BOOLEAN : isLoading' = [isLoading EXCEPT ![OrderOf[a]] = b]
          /\ confirmed' \in {confirmed, confirmed \union {a}}
        BY <1>6 DEF GetApiTokenResponse, GetFinalPaymentApiResponse, CoveredWhileCharging,
            GetSuccessCallBackResponse, CallFails, Consume, Goto, SetLoading, Live,
            screenVars, serverVars
    <2>2. a \notin charges' \ confirmed'
        <3>1. CASE GetFinalPaymentApiResponse(a)
            BY <3>1 DEF GetFinalPaymentApiResponse
        <3>2. CASE GetApiTokenResponse(a) \/ GetSuccessCallBackResponse(a)
            BY <2>1, <3>2 DEF GetApiTokenResponse, GetSuccessCallBackResponse, AskedOnce
        <3>3. CASE CallFails(a)
            BY <2>1, <3>3 DEF CallFails, Unparsed, AskedOnce
        <3> QED
            BY <1>6, <3>1, <3>2, <3>3
    <2>3. \A b \in Attempts : Busy(b)' => Busy(b)
        BY <2>1 DEF Busy, Live
    <2> QED
        BY <1>2, <2>1, <2>2, <2>3
<1>7. ASSUME NEW a \in Attempts, \/ CallThrows(a) \/ Abandoned(a) \/ Post(a) \/ Break(a)
      PROVE  LostIsCovered'
    <2>1. UNCHANGED <<isLoading, mounted, charges, confirmed>>
        BY <1>7 DEF CallThrows, Abandoned, Post, Break, screenVars, serverVars
    <2>2. /\ Live(a)
          /\ \A b \in Attempts \ {a} : pc'[b] = pc[b] /\ request'[b] = request[b]
        BY <1>7 DEF CallThrows, Abandoned, Unparsed, Post, Break, Consume, Goto, Live
    <2> QED
        BY <1>1, <2>1, <2>2 DEF Busy, Live
<1>8. ASSUME NEW a \in Attempts, Serve(a) PROVE LostIsCovered'
    <2>1. /\ UNCHANGED <<pc, isLoading, mounted, confirmed>>
          /\ request' = [request EXCEPT ![a] = "none"]
          /\ \/ charges' = charges
             \/ charges' = charges \union {a} /\ Busy(a)
        BY <1>8 DEF Serve, Busy, screenVars
    <2>2. \A b \in Attempts : Busy(b)' => Busy(b)
        BY <2>1 DEF Busy, Live
    <2>3. ASSUME Busy(a)
          PROVE  /\ HasContext(a) => isLoading[OrderOf[a]]
                 /\ \A b \in Attempts \ {a} : Busy(b) => OrderOf[b] # OrderOf[a]
        BY <2>3 DEF BusyIsCovered
    <2> QED
        BY <2>1, <2>2, <2>3 DEF LostIsCovered, HasContext
<1>9. CASE Kill
    <2>1. /\ mounted' = {} /\ UNCHANGED <<charges, confirmed>>
          /\ \A a \in Attempts : Busy(a)' => Busy(a)
        BY <1>9 DEF Kill, Busy, Live, serverVars
    <2> QED
        BY <2>1 DEF LostIsCovered, HasContext
<1>10. CASE \/ \E i \in Items : AddToCart(i)
            \/ \E o \in Orders : \/ PlaceOrder(o) \/ AskToLeave(o) \/ AnswerExit(o)
                                 \/ LeaveNow(o) \/ ClearCart(o)
            \/ SystemBack
            \/ GoHome
            \/ UNCHANGED vars
    <2>1. UNCHANGED <<pc, request, isLoading, charges, confirmed>> /\ mounted' \subseteq mounted
        BY <1>10 DEF AddToCart, PlaceOrder, AskToLeave, AnswerExit, LeaveNow,
            ClearCart, SystemBack, GoHome, PopRoute, cartVars, screenVars,
            attemptVars, serverVars, vars
    <2> QED
        BY <1>1, <2>1 DEF Busy, Live
<1> HIDE DEF TypeOK
<1>11. ASSUME NEW a \in Attempts,
              \/ OnValidate(a) \/ MakePayment(a) \/ Answered(a)
              \/ Post(a) \/ Resume(a) \/ Serve(a) \/ Break(a)
       PROVE  LostIsCovered'
    <2>1. ~MakePayment(a)
        BY DEF MakePayment
    <2> QED
        BY <1>3, <1>5, <1>6, <1>7, <1>8, <1>11, <2>1 DEF Resume
<1> QED
    BY <1>4, <1>9, <1>10, <1>11 DEF Next

\* Without Apple Pay, no charge leaves for an order of which Clover has made
\* another one that the app was not told of.  What sees to that is the
\* exception that leaves the overlay up.
THEOREM NeverBlindly ==
    ASSUME ApplePay = {}
    PROVE  Spec => []NoBlindRetry
<1>1. Init => AskedOnce /\ LostIsCovered
    BY DEF Init, AskedOnce, LostIsCovered
<1>2. TypeOK /\ InOrder /\ AskedOnce /\ [Next]_vars => AskedOnce'
    BY AskedOnceStep
<1>3. TypeOK /\ InOrder /\ Screens /\ BusyIsCovered /\ BusyIsCovered' /\ AskedOnce
        /\ LostIsCovered /\ [Next]_vars => LostIsCovered'
    BY LostStep
<1>4. TypeOK /\ LostIsCovered => NoBlindRetry
    BY DEF TypeOK, LostIsCovered, NoBlindRetry, Busy
<1> QED
    BY <1>1, <1>2, <1>3, <1>4, TypeCorrect, InOrderAlways, ScreensAlways, BusyAlways,
       PTL DEF Spec

-----------------------------------------------------------------------------
(* The screens implement the ledger.                                       *)

ClearingPaid == \A o \in clearing : Paid(o)

LEMMA ClearingPaidAlways == Spec => []ClearingPaid
<1>1. Init => ClearingPaid
    BY DEF Init, ClearingPaid
<1>2. ASSUME TypeOK, InOrder, ClearingPaid, [Next]_vars
      PROVE  ClearingPaid'
    <2>1. \A o : Paid(o) => Paid(o)'
        BY <1>2, ReportedGrows DEF Paid
    <2>2. ASSUME NEW a \in Attempts, GetSuccessCallBackResponse(a)
          PROVE  ClearingPaid'
        <3>1. a \in reported
            BY <1>2, <2>2 DEF GetSuccessCallBackResponse, InOrder, ChargeBehindReport
        <3> QED
            BY <1>2, <2>1, <2>2, <3>1 DEF GetSuccessCallBackResponse, ClearingPaid, Paid
    <2>3. CASE clearing' \subseteq clearing
        BY <1>2, <2>1, <2>3 DEF ClearingPaid
    <2>4. clearing' \subseteq clearing
            \/ \E a \in Attempts : GetSuccessCallBackResponse(a)
        BY <1>2 DEF Next, AddToCart, PlaceOrder, OrderAnswered, AskToLeave,
            AnswerExit, LeaveNow, ClearCart, OnValidate, MakePayment, Resume,
            Answered, Post, SheetAnswers, GetApiToken, GetApiTokenResponse, GetFinalPaymentApi,
            GetFinalPaymentApiResponse, HitSuccessCallBack, CallThrows,
            CallFails, Abandoned, Connectivity, Serve, Break, SystemBack,
            GoHome, Kill, screenVars, vars
    <2> QED
        BY <2>2, <2>3, <2>4
<1> QED
    BY <1>1, <1>2, TypeCorrect, InOrderAlways, PTL DEF Spec

LEMMA LedgerStep ==
    ASSUME TypeOK, InOrder, Screens, ClearingPaid, [Next]_vars
    PROVE  [Ledger!Next]_(Ledger!vars)
<1> USE DEF TypeOK, Ledger!Next, Ledger!vars
<1>1. ASSUME NEW i \in Items, AddToCart(i) PROVE Ledger!Next
    BY <1>1 DEF AddToCart, Ledger!Add, serverVars
<1>2. ASSUME NEW o \in Orders, PlaceOrder(o) PROVE Ledger!Next
    BY <1>2 DEF PlaceOrder, Ledger!Place, serverVars
<1>3. ASSUME NEW o \in Orders, ClearCart(o) PROVE Ledger!Next
    BY <1>3 DEF ClearCart, ClearingPaid, Paid, Ledger!Close, serverVars
<1>4. ASSUME NEW a \in Attempts, Serve(a) PROVE [Ledger!Next]_(Ledger!vars)
    <2>1. request[a] \in Calls /\ UNCHANGED <<cart, ordered>>
        BY <1>4 DEF Serve, cartVars
    <2>2. ordered[OrderOf[a]] # {}
        BY <2>1 DEF InOrder, RequestsInOrder, Screens, ScreensOrdered, Calls
    <2>3. PICK answer \in {"ok", "refused"} :
            /\ charges' = IF request[a] = "charge" /\ answer = "ok"
                             THEN charges \union {a} ELSE charges
            /\ reported' = IF request[a] = "report" /\ answer = "ok"
                              THEN reported \union {a} ELSE reported
        BY <1>4 DEF Serve
    <2>4. CASE request[a] = "charge" /\ answer = "ok"
        <3>1. Ledger!Charge(a)
            BY <2>1, <2>2, <2>3, <2>4 DEF Ledger!Charge
        <3> QED
            BY <3>1
    <2>5. CASE request[a] = "report" /\ answer = "ok"
        <3>1. a \in charges
            BY <2>5 DEF InOrder, ChargeBehindReport
        <3>2. Ledger!Report(a)
            BY <2>1, <2>3, <2>5, <3>1 DEF Ledger!Report
        <3> QED
            BY <3>2
    <2> QED
        BY <2>1, <2>3, <2>4, <2>5
<1>5. CASE \/ \E o \in Orders : \/ OrderAnswered(o) \/ AskToLeave(o)
                                \/ AnswerExit(o) \/ LeaveNow(o)
           \/ \E a \in Attempts : \/ OnValidate(a) \/ MakePayment(a)
                                  \/ Resume(a) \/ Answered(a)
                                  \/ Post(a) \/ Break(a)
           \/ SystemBack
           \/ GoHome
           \/ Kill
           \/ UNCHANGED vars
    BY <1>5 DEF OrderAnswered, AskToLeave, AnswerExit, LeaveNow, OnValidate,
        MakePayment, Resume, Answered, SheetAnswers, GetApiToken, GetApiTokenResponse,
        GetFinalPaymentApi, GetFinalPaymentApiResponse, HitSuccessCallBack,
        GetSuccessCallBackResponse, CallThrows, CallFails, Abandoned,
        Connectivity, Post, Break, SystemBack, GoHome, Kill, cartVars, serverVars, vars
<1> HIDE DEF TypeOK, Ledger!Next, Ledger!vars
<1> QED
    BY <1>1, <1>2, <1>3, <1>4, <1>5 DEF Next

\* Every behaviour of the screens, with or without Apple Pay, is one of the
\* ledger.
THEOREM ImplementsLedger == Spec => KeepsLedger
<1>1. Init => Ledger!Init
    BY DEF Init, Ledger!Init
<1>2. TypeOK /\ InOrder /\ Screens /\ ClearingPaid /\ [Next]_vars
        => [Ledger!Next]_(Ledger!vars)
    BY LedgerStep
<1> QED
    BY <1>1, <1>2, TypeCorrect, InOrderAlways, ScreensAlways, ClearingPaidAlways,
       PTL DEF Spec, KeepsLedger, Ledger!Spec
-----------------------------------------------------------------------------
(* What a success screen clears, where customers wait for their order and  *)
(* there is no Apple Pay.                                                  *)

\* Such a customer has one payment screen, at the bottom of the stack.
OneScreen == \A i \in 1..Len(nav) : nav[i][1] = "pay" <=> i = 1

\* A running attempt is this screen's, and has not ended in a success below.
RunsHere ==
    \A a \in Attempts : Live(a) /\ HasContext(a) =>
        /\ nav # <<>> /\ nav[1] = <<"pay", OrderOf[a]>>
        /\ \A i \in 1..Len(nav) : nav[i][1] # "done"

\* They wait in the shop for one order at a time.
OneOrder ==
    /\ placing # {} => nav = <<>>
    /\ \A o, p \in placing : o = p

\* Nothing was added to the cart since it was ordered.
Bought ==
    /\ \A o \in placing \union clearing : cart \subseteq ordered[o]
    /\ nav # <<>> => cart \subseteq ordered[nav[1][2]]

Purchase == OneScreen /\ RunsHere /\ OneOrder /\ Bought

\* Another dialog, or the success screen, comes on top of the payment screen.
LEMMA OpenedAbove ==
    ASSUME TypeOK, OneScreen, OneOrder, Bought, nav # <<>>,
           NEW r \in Routes, r[1] # "pay", nav' = Append(nav, r),
           UNCHANGED <<cart, ordered, placing>>,
           \A o \in clearing' \ clearing : o = nav[1][2]
    PROVE  /\ OneScreen' /\ OneOrder' /\ Bought'
           /\ nav' # <<>> /\ nav'[1] = nav[1]
           /\ \A i \in 1..Len(nav') : nav'[i] = r \/ \E j \in 1..Len(nav) : nav'[i] = nav[j]
<1> USE DEF TypeOK
<1>1. /\ Len(nav) \in Nat \ {0}
      /\ Len(nav') = Len(nav) + 1
      /\ nav'[Len(nav) + 1] = r
      /\ \A i \in 1..Len(nav) : nav'[i] = nav[i]
    BY AppendProperties
<1>2. nav' # <<>> /\ nav'[1] = nav[1]
    BY <1>1
<1>3. OneScreen'
    <2>1. \A i \in 1..Len(nav') : i \in 1..Len(nav) \/ (i = Len(nav) + 1 /\ i # 1)
        BY <1>1
    <2> QED
        BY <1>1, <2>1 DEF OneScreen
<1>4. placing = {}
    BY DEF OneOrder
<1>5. OneOrder' /\ Bought'
    BY <1>2, <1>4 DEF OneOrder, Bought
<1> QED
    BY <1>1, <1>2, <1>3, <1>5

\* A screen is left: the payment screen with its attempts, or one above it.
LEMMA LeftAbove ==
    ASSUME TypeOK, Purchase, PopRoute,
           UNCHANGED <<cart, ordered, placing, clearing, pc>>
    PROVE  Purchase'
<1> USE DEF TypeOK, Purchase
<1>1. /\ Len(nav) \in Nat \ {0}
      /\ nav' \in Seq(Routes)
      /\ Len(nav') = Len(nav) - 1
      /\ \A i \in 1..Len(nav') : nav'[i] = nav[i]
      /\ nav # <<>> /\ Last(nav) = nav[Len(nav)]
    BY FrontOfStack DEF PopRoute, Last
<1>2. OneScreen' /\ OneOrder'
    BY <1>1 DEF OneScreen, OneOrder
<1>3. CASE Len(nav) = 1
    <2>1. Last(nav) = nav[1] /\ nav[1][1] = "pay"
        BY <1>1, <1>3 DEF OneScreen
    <2>2. mounted' = mounted \ {nav[1][2]} /\ nav' = <<>>
        BY <1>1, <1>3, <2>1 DEF PopRoute
    <2>3. RunsHere'
        BY <2>2 DEF RunsHere, HasContext, Live
    <2> QED
        BY <1>2, <2>2, <2>3 DEF Bought
<1>4. CASE Len(nav) > 1
    <2>1. Last(nav)[1] # "pay"
        BY <1>1, <1>4 DEF OneScreen
    <2>2. mounted' = mounted /\ nav' # <<>> /\ nav'[1] = nav[1]
        BY <1>1, <1>4, <2>1 DEF PopRoute
    <2>3. RunsHere'
        BY <1>1, <2>2 DEF RunsHere, HasContext, Live
    <2> QED
        BY <1>1, <1>2, <2>2, <2>3 DEF Bought
<1> QED
    BY <1>1, <1>3, <1>4

LEMMA PurchaseStep ==
    ASSUME ApplePay = {}, Patient, TypeOK, Screens, BusyIsCovered, Purchase, [Next]_vars
    PROVE  Purchase'
<1> USE DEF TypeOK, Purchase
\* No screen comes or goes and no attempt starts.
<1>1. ASSUME UNCHANGED <<nav, mounted, ordered, placing>>,
             cart' \subseteq cart, clearing' \subseteq clearing,
             \A a \in Attempts : Live(a)' => Live(a)
      PROVE  Purchase'
    BY <1>1 DEF OneScreen, RunsHere, OneOrder, Bought, HasContext
<1>2. ASSUME NEW i \in Items, AddToCart(i) PROVE Purchase'
    BY <1>2 DEF AddToCart, InShop, CustomerActs, OneScreen, RunsHere, OneOrder, Bought,
                HasContext, Live, screenVars, attemptVars
<1>3. ASSUME NEW o \in Orders, PlaceOrder(o) PROVE Purchase'
    BY <1>3 DEF PlaceOrder, InShop, CustomerActs, OneScreen, RunsHere, OneOrder, Bought,
                HasContext, Live, screenVars, attemptVars
<1>4. ASSUME NEW o \in Orders, OrderAnswered(o) PROVE Purchase'
    <2>1. nav = <<>> /\ placing' = {} /\ cart \subseteq ordered[o]
          /\ UNCHANGED <<cart, ordered, clearing, pc>>
        BY <1>4 DEF OrderAnswered, OneOrder, Bought, attemptVars
    <2>2. CASE nav' = Append(nav, <<"pay", o>>) /\ mounted' = mounted \union {o}
        <3>1. Len(nav') = 1 /\ nav' # <<>> /\ nav'[1] = <<"pay", o>>
            BY <2>1, <2>2
        <3>2. \A a \in Attempts : ~(Live(a) /\ HasContext(a)')
            <4>1. \A a \in Attempts : ~(Live(a) /\ HasContext(a))
                BY <2>1 DEF RunsHere
            <4>2. \A a \in Attempts : OrderOf[a] = o => ~Live(a)
                BY <1>4 DEF OrderAnswered, Screens, ScreensOrdered, Live
            <4> QED
                BY <2>2, <4>1, <4>2 DEF HasContext
        <3>3. RunsHere'
            BY <2>1, <3>2 DEF RunsHere, Live, HasContext
        <3> QED
            BY <2>1, <3>1, <3>3 DEF OneScreen, OneOrder, Bought
    <2>3. CASE UNCHANGED <<nav, mounted>>
        BY <2>1, <2>3 DEF OneScreen, RunsHere, OneOrder, Bought, HasContext, Live
    <2> QED
        BY <1>4, <2>2, <2>3 DEF OrderAnswered
<1>5. ASSUME NEW a \in Attempts, OnValidate(a) PROVE Purchase'
    <2>1. /\ nav # <<>> /\ Len(nav) \in Nat \ {0} /\ nav[Len(nav)] = <<"pay", OrderOf[a]>>
          /\ UNCHANGED <<cart, ordered, placing, nav, mounted, clearing>>
          /\ \A b \in Attempts \ {a} : pc'[b] = pc[b]
        BY <1>5 DEF OnValidate, CanPay, OnTop, Last, Goto, cartVars, screenVars
    <2>2. Len(nav) = 1
        <3>1. Len(nav) \in 1..Len(nav) /\ nav[Len(nav)][1] = "pay"
            BY <2>1
        <3> QED
            BY <3>1 DEF OneScreen
    <2>3. RunsHere'
        BY <2>1, <2>2 DEF RunsHere, HasContext, Live
    <2> QED
        BY <2>1, <2>3 DEF OneScreen, OneOrder, Bought
<1>6. ASSUME NEW a \in Attempts, GetSuccessCallBackResponse(a) PROVE Purchase'
    <2> DEFINE r == <<"done", OrderOf[a]>>
    <2>1. /\ nav # <<>> /\ nav[1] = <<"pay", OrderOf[a]>>
          /\ r \in Routes /\ r[1] # "pay"
          /\ nav' = Append(nav, r)
          /\ clearing' = clearing \union {OrderOf[a]}
          /\ UNCHANGED <<cart, ordered, placing, mounted>>
          /\ pc' = [pc EXCEPT ![a] = "over"]
          /\ Live(a) /\ HasContext(a)
        BY <1>6 DEF GetSuccessCallBackResponse, Consume, Goto, cartVars, Routes, Pages,
                    RunsHere, Live
    <2>2. \A b \in Attempts : ~(Live(b)' /\ HasContext(b)')
        <3> SUFFICES ASSUME NEW b \in Attempts, Live(b)', HasContext(b)' PROVE FALSE
            OBVIOUS
        <3>1. b # a /\ Live(b) /\ HasContext(b)
            BY <2>1 DEF Live, HasContext
        <3>2. OrderOf[b] = OrderOf[a]
            BY <2>1, <3>1 DEF RunsHere
        <3> QED
            BY <2>1, <3>1, <3>2 DEF BusyIsCovered, Busy
    <2>3. RunsHere'
        BY <2>2 DEF RunsHere
    <2>4. \A o \in clearing' \ clearing : o = nav[1][2]
        BY <2>1
    <2> HIDE DEF r
    <2> QED
        BY <2>1, <2>3, <2>4, OpenedAbove
<1>7. ASSUME NEW o \in Orders, AskToLeave(o) PROVE Purchase'
    <2> DEFINE r == <<"exit", o>>
    <2>1. /\ nav # <<>> /\ r \in Routes /\ r[1] \notin {"pay", "done"}
          /\ nav' = Append(nav, r)
          /\ UNCHANGED <<cart, ordered, placing, mounted, clearing, pc>>
        BY <1>7 DEF AskToLeave, OnTop, cartVars, attemptVars, Routes, Pages
    <2> HIDE DEF r
    <2>2. /\ OneScreen' /\ OneOrder' /\ Bought'
          /\ nav' # <<>> /\ nav'[1] = nav[1]
          /\ \A i \in 1..Len(nav') : nav'[i] = r \/ \E j \in 1..Len(nav) : nav'[i] = nav[j]
        BY <2>1, OpenedAbove
    <2>3. RunsHere'
        BY <2>1, <2>2 DEF RunsHere, Live, HasContext
    <2> QED
        BY <2>2, <2>3
<1>8. ASSUME NEW o \in Orders, AnswerExit(o) PROVE Purchase'
    <2>1. PopRoute
        BY <1>8 DEF AnswerExit, OnTop, PopRoute
    <2> QED
        BY <1>8, <2>1, LeftAbove DEF AnswerExit, cartVars, attemptVars
<1>9. ASSUME (\E o \in Orders : LeaveNow(o)) \/ SystemBack PROVE Purchase'
    <2>1. UNCHANGED <<cart, ordered, placing, clearing, pc>>
        BY <1>9 DEF LeaveNow, SystemBack, cartVars, attemptVars
    <2>2. PopRoute \/ UNCHANGED <<nav, mounted>>
        BY <1>9 DEF LeaveNow, SystemBack
    <2> QED
        BY <1>1, <2>1, <2>2, LeftAbove DEF Live
<1>10. CASE GoHome
    <2>1. /\ Len(nav) \in 1..Len(nav) /\ nav[Len(nav)][1] = "done" /\ nav' = <<>>
          /\ UNCHANGED <<cart, ordered, placing, mounted, clearing, pc>>
        BY <1>10 DEF GoHome, OnTop, Last, cartVars, attemptVars
    <2>2. \A a \in Attempts : ~(Live(a) /\ HasContext(a))
        BY <2>1 DEF RunsHere
    <2>3. RunsHere'
        BY <2>1, <2>2 DEF RunsHere, Live, HasContext
    <2> QED
        BY <2>1, <2>3 DEF OneScreen, OneOrder, Bought
<1>11. CASE Kill
    BY <1>11 DEF Kill, OneScreen, RunsHere, OneOrder, Bought, HasContext
<1>12. ASSUME NEW a \in Attempts, Resume(a) \/ Answered(a), ~GetSuccessCallBackResponse(a)
       PROVE  Purchase'
    <2>1. Live(a) /\ \E stage \in Stages : pc' = [pc EXCEPT ![a] = stage]
        BY <1>12 DEF Resume, Answered, SheetAnswers, GetApiToken, GetApiTokenResponse,
            GetFinalPaymentApi, GetFinalPaymentApiResponse, HitSuccessCallBack,
            CallThrows, CallFails, Abandoned, Connectivity, Unparsed, Live, Send,
            Consume, Goto, Stages, Calls
    <2>2. UNCHANGED <<cart, ordered, placing, nav, mounted, clearing>>
        BY <1>12 DEF Resume, Answered, SheetAnswers, GetApiToken, GetApiTokenResponse,
            GetFinalPaymentApi, GetFinalPaymentApiResponse, HitSuccessCallBack,
            CallThrows, CallFails, Abandoned, Connectivity, cartVars, screenVars
    <2> QED
        BY <1>1, <2>1, <2>2 DEF Live
<1>13. CASE \/ \E o \in Orders : ClearCart(o)
            \/ \E a \in Attempts : Post(a) \/ Serve(a) \/ Break(a)
            \/ UNCHANGED vars
    BY <1>1, <1>13 DEF ClearCart, Post, Serve, Break, Live, cartVars, screenVars, attemptVars, vars
<1> QED
    BY <1>2, <1>3, <1>4, <1>5, <1>6, <1>7, <1>8, <1>9, <1>10, <1>11, <1>12, <1>13
       DEF Next, MakePayment

\* A success screen clears nothing but what was ordered, although it deletes
\* the whole table (clearAllCartProduct), for customers who stay where they
\* are until their order is answered and who pay by card.
THEOREM ClearsOrdered ==
    ASSUME ApplePay = {}, Patient
    PROVE  Spec => []OnlyOrderedItemsCleared
<1>1. Init => Purchase
    BY DEF Init, Purchase, OneScreen, RunsHere, OneOrder, Bought, Live
<1>2. TypeOK /\ Screens /\ BusyIsCovered /\ Purchase /\ [Next]_vars => Purchase'
    BY PurchaseStep
<1>3. Purchase => OnlyOrderedItemsCleared
    BY DEF Purchase, Bought, OnlyOrderedItemsCleared
<1> QED
    BY <1>1, <1>2, <1>3, TypeCorrect, ScreensAlways, BusyAlways, PTL DEF Spec
=============================================================================
