---------------------------- MODULE SessionProofs ----------------------------
(***************************************************************************)
(* Theorems about Session, for every set of vendors, tokens and shops and  *)
(* any depth of the stack, about a customer who is slower than the servers.*)
(***************************************************************************)
EXTENDS Session, SequenceTheorems, TLAPS

USE SessionAssumption DEF SessionAssumption

(* The screens on which nobody is in the shop, and asks nothing for it. *)
Account == {"splash", "welcome", "login", "register", "otp", "forgot", "code", "newPassword"}

(* The routes that are popped for the one that opened them. *)
Opener == [place \in {"otp", "code", "newPassword"} |->
              CASE place = "otp" -> "register"
                [] place = "code" -> "forgot"
                [] OTHER -> "code"]

StackType == stack \in Seq(Routes) /\ Len(stack) \in 1..MaxDepth

Layered ==
    \A i \in 1..Len(stack) :
        stack[i].at \in DOMAIN Opener => i > 1 /\ stack[i - 1].at = Opener[stack[i].at]

NoExpired == \A i \in 1..Len(stack) : stack[i].at # "expired"

-----------------------------------------------------------------------------
(* What the navigator does to the stack.                                    *)

LEMMA RoutesOf ==
    /\ \A place \in Places : At(place) \in Routes /\ At(place).at = place
    /\ \A s \in Shops : Shop(s) \in Routes /\ Shop(s).at = "shop"
  BY DEF At, Shop, Routes, Places

(* The first n routes. *)
LEMMA Bottom ==
    ASSUME StackType, NEW n \in 0..Len(stack)
    PROVE  /\ SubSeq(stack, 1, n) \in Seq(Routes)
           /\ Len(SubSeq(stack, 1, n)) = n
           /\ \A i \in 1..n : SubSeq(stack, 1, n)[i] = stack[i]
<1>1. \A i \in 1..n : stack[i] \in Routes
  BY DEF StackType
<1>2. n \in Int /\ 1 \in Int /\ n - 1 + 1 = n
  OBVIOUS
<1>3. /\ SubSeq(stack, 1, n) \in Seq(Routes)
      /\ Len(SubSeq(stack, 1, n)) = IF 1 <= n THEN n - 1 + 1 ELSE 0
      /\ \A i \in 1..(n - 1 + 1) : SubSeq(stack, 1, n)[i] = stack[1 + i - 1]
  BY <1>1, <1>2, SubSeqProperties
<1>4. \A i \in 1..n : 1 + i - 1 = i
  BY <1>2
<1>. QED
  BY <1>2, <1>3, <1>4

LEMMA Pushed ==
    ASSUME StackType, NEW r \in Routes, Push(r)
    PROVE  /\ StackType'
           /\ Shown' = r.at
           /\ NoExpired /\ r.at # "expired" => NoExpired'
           /\ Layered /\ (r.at \in DOMAIN Opener => Shown = Opener[r.at]) => Layered'
<1>1. /\ stack' \in Seq(Routes)
      /\ Len(stack') = Len(stack) + 1
      /\ \A i \in 1..Len(stack) : stack'[i] = stack[i]
      /\ stack'[Len(stack) + 1] = r
      /\ Len(stack') <= MaxDepth
      /\ Len(stack) \in Nat \ {0}
  BY DEF StackType, Push
<1>2. \A i \in 1..Len(stack') : i \in 1..Len(stack) \/ i = Len(stack) + 1
  BY <1>1
<1>3. StackType' /\ Shown' = r.at
  BY <1>1 DEF StackType, Shown, Last
<1>4. NoExpired /\ r.at # "expired" => NoExpired'
  BY <1>1, <1>2 DEF NoExpired
<1>5. ASSUME Layered, r.at \in DOMAIN Opener => Shown = Opener[r.at]
      PROVE  Layered'
  <2>. SUFFICES ASSUME NEW i \in 1..Len(stack'), stack'[i].at \in DOMAIN Opener
                PROVE  i > 1 /\ stack'[i - 1].at = Opener[stack'[i].at]
    BY DEF Layered
  <2>1. CASE i \in 1..Len(stack)
    <3>1. i > 1 /\ stack[i - 1].at = Opener[stack[i].at]
      BY <1>1, <1>5, <2>1 DEF Layered
    <3>2. i - 1 \in 1..Len(stack)
      BY <1>1, <2>1, <3>1
    <3>. QED
      BY <1>1, <2>1, <3>1, <3>2
  <2>2. CASE i = Len(stack) + 1
    <3>1. i - 1 = Len(stack) /\ i - 1 \in 1..Len(stack) /\ i > 1
      BY <1>1, <2>2
    <3>. QED
      BY <1>1, <1>5, <2>2, <3>1 DEF Shown, Last
  <2>. QED
    BY <1>2, <2>1, <2>2
<1>. QED
  BY <1>3, <1>4, <1>5

LEMMA Replaced ==
    ASSUME StackType, NEW r \in Routes, Replace(r)
    PROVE  /\ StackType'
           /\ Shown' = r.at
           /\ NoExpired /\ r.at # "expired" => NoExpired'
           /\ Layered /\ r.at \notin DOMAIN Opener => Layered'
<1>. DEFINE n == Len(stack) - 1
<1>1. n \in 0..Len(stack) /\ n \in Nat /\ Len(stack) = n + 1 /\ n + 1 <= MaxDepth
  BY DEF StackType
<1>2. /\ Front(stack) \in Seq(Routes)
      /\ Len(Front(stack)) = n
      /\ \A i \in 1..n : Front(stack)[i] = stack[i]
  BY <1>1, Bottom DEF Front
<1>. HIDE DEF n
<1>3. /\ stack' \in Seq(Routes)
      /\ Len(stack') = n + 1
      /\ \A i \in 1..n : stack'[i] = stack[i]
      /\ stack'[n + 1] = r
  BY <1>1, <1>2 DEF Replace
<1>4. \A i \in 1..Len(stack') : i \in 1..n \/ i = n + 1
  BY <1>1, <1>3
<1>5. StackType' /\ Shown' = r.at
  BY <1>1, <1>3 DEF StackType, Shown, Last
<1>6. NoExpired /\ r.at # "expired" => NoExpired'
  BY <1>1, <1>3, <1>4 DEF NoExpired
<1>7. ASSUME Layered, r.at \notin DOMAIN Opener PROVE Layered'
  <2>. SUFFICES ASSUME NEW i \in 1..Len(stack'), stack'[i].at \in DOMAIN Opener
                PROVE  i > 1 /\ stack'[i - 1].at = Opener[stack'[i].at]
    BY DEF Layered
  <2>1. i \in 1..n
    BY <1>3, <1>4, <1>7
  <2>2. i > 1 /\ stack[i - 1].at = Opener[stack[i].at]
    BY <1>1, <1>3, <1>7, <2>1 DEF Layered
  <2>3. i - 1 \in 1..n
    BY <1>1, <2>1, <2>2
  <2>. QED
    BY <1>3, <2>1, <2>2, <2>3
<1>. QED
  BY <1>5, <1>6, <1>7

LEMMA Alone ==
    ASSUME NEW r \in Routes, Only(r)
    PROVE  /\ StackType'
           /\ Shown' = r.at
           /\ r.at # "expired" => NoExpired'
           /\ r.at \notin DOMAIN Opener => Layered'
<1>1. stack' \in Seq(Routes) /\ Len(stack') = 1 /\ stack'[1] = r
  BY DEF Only
<1>2. \A i \in 1..Len(stack') : i = 1
  BY <1>1
<1>. QED
  BY <1>1, <1>2 DEF StackType, Shown, Last, NoExpired, Layered

LEMMA Popped ==
    ASSUME StackType, NEW n \in {1, 2}, Pop(n)
    PROVE  /\ StackType'
           /\ NoExpired => NoExpired' /\ Shown' # "expired"
           /\ Layered => Layered'
           /\ Layered /\ n = 1 /\ Shown \in DOMAIN Opener => Shown' = Opener[Shown]
           /\ Layered /\ n = 2 /\ Shown = "newPassword" => Shown' = "forgot"
<1>. DEFINE k == Len(stack) - n
<1>1. /\ k \in 0..Len(stack) /\ k \in Nat \ {0} /\ k <= MaxDepth
      /\ Len(stack) = k + n /\ Len(stack) \in Nat
  BY DEF StackType, Pop
<1>2. stack' = SubSeq(stack, 1, k)
  BY DEF Pop
<1>. HIDE DEF k
<1>3. /\ stack' \in Seq(Routes)
      /\ Len(stack') = k
      /\ \A i \in 1..k : stack'[i] = stack[i]
  BY <1>1, <1>2, Bottom
<1>4. \A i \in 1..k : i \in 1..Len(stack)
  BY <1>1
<1>5. StackType' /\ Shown' = stack[k].at /\ k \in 1..Len(stack)
  BY <1>1, <1>3, <1>4 DEF StackType, Shown, Last
<1>6. NoExpired => NoExpired' /\ Shown' # "expired"
  BY <1>1, <1>3, <1>4, <1>5 DEF NoExpired
<1>7. ASSUME Layered PROVE Layered'
  <2>. SUFFICES ASSUME NEW i \in 1..k, stack[i].at \in DOMAIN Opener
                PROVE  i > 1 /\ stack'[i - 1].at = Opener[stack[i].at]
    BY <1>3, <1>4 DEF Layered
  <2>1. i > 1 /\ stack[i - 1].at = Opener[stack[i].at]
    BY <1>3, <1>4, <1>7 DEF Layered
  <2>2. i - 1 \in 1..k
    BY <1>1, <2>1
  <2>. QED
    BY <1>3, <1>4, <2>1, <2>2
<1>8. ASSUME Layered, Shown \in DOMAIN Opener
      PROVE  stack[Len(stack) - 1].at = Opener[Shown]
  BY <1>1, <1>8 DEF Layered, Shown, Last
<1>9. Layered /\ n = 1 /\ Shown \in DOMAIN Opener => Shown' = Opener[Shown]
  BY <1>1, <1>5, <1>8
<1>10. ASSUME Layered, n = 2, Shown = "newPassword" PROVE Shown' = "forgot"
  <2>1. Len(stack) - 1 = k + 1 /\ k + 1 \in 1..Len(stack) /\ (k + 1) - 1 = k
    BY <1>1, <1>10
  <2>2. stack[k + 1].at = "code"
    BY <1>8, <1>10, <2>1 DEF Opener
  <2>3. stack[k].at = "forgot"
    BY <1>10, <2>1, <2>2 DEF Layered, Opener
  <2>. QED
    BY <1>5, <2>3
<1>. QED
  BY <1>5, <1>6, <1>7, <1>9, <1>10

-----------------------------------------------------------------------------
(* Types.                                                                   *)

Splashes == [stage: {"asking", "delay", "over"}, token: Stored,
             vendor: Vendors \union {"none"}, mounted: BOOLEAN]

OtpCalls == [verifying: 0 .. MaxCalls, resending: 0 .. MaxCalls,
             isLoading: BOOLEAN, resendOtp: BOOLEAN, calm: BOOLEAN]

(* What is not on the stack. *)
Fields ==
    /\ token \in Stored
    /\ vendor \in Vendors \union {"none"} /\ settings \in Vendors \union {"none"}
    /\ splash \in Splashes
    /\ timer \in BOOLEAN /\ signingIn \in {"none", "login", "register"}
    /\ request \in {"none", "signUp", "code", "password"}
    /\ otp \in OtpCalls
    /\ chosen \in Vendors \union {"none"} /\ call \in Vendors \union {"none"}
    /\ asked \in [Shops -> Stored \union {"idle"}]
    /\ valid \subseteq given /\ given \subseteq Tokens
    /\ kills \in 0 .. MaxKills
    /\ signedIn \in BOOLEAN /\ unsettled \in BOOLEAN /\ exposed \in BOOLEAN

LEMMA TypeParts == (TypeOK <=> StackType /\ Fields) /\ (TypeOK' <=> StackType' /\ Fields')
  BY DEF TypeOK, StackType, Fields, Splashes, OtpCalls

Moved ==
    \/ UNCHANGED stack
    \/ \E r \in Routes : Push(r) \/ Replace(r) \/ Only(r)
    \/ Pop(1) \/ Pop(2)

LEMMA MovedType == ASSUME StackType, Moved PROVE StackType'
<1>1. CASE UNCHANGED stack
  BY <1>1 DEF StackType
<1>2. CASE \E r \in Routes : Push(r) \/ Replace(r) \/ Only(r)
  BY <1>2, Pushed, Replaced, Alone
<1>3. CASE Pop(1) \/ Pop(2)
  BY <1>3, Popped
<1>. QED
  BY <1>1, <1>2, <1>3 DEF Moved

LEMMA CustomerMoves == ASSUME Customer PROVE Moved
<1>. USE RoutesOf DEF Moved, Places
<1>1. ASSUME GetStarted \/ ForgotPassword \/ BackToLogin \/ BackFromForgot \/ SignIn PROVE Moved
  BY <1>1 DEF GetStarted, ForgotPassword, BackToLogin, BackFromForgot, SignIn
<1>2. ASSUME Logout \/ CreateAccount \/ DeleteAccount \/ LoginAgain PROVE Moved
  BY <1>2 DEF Logout, CreateAccount, DeleteAccount, LoginAgain
<1>3. ASSUME SignUpLink \/ HaveAccount \/ RegisterBack \/ SignUp \/ Verify \/ Resend \/ OtpBack
      PROVE  Moved
  BY <1>3 DEF SignUpLink, HaveAccount, RegisterBack, SignUp, Verify, Resend, OtpBack, OnlyOtp
<1>4. ASSUME RequestCode \/ EnterCode \/ CodeBack \/ SubmitPassword \/ NewPasswordBack PROVE Moved
  BY <1>4 DEF RequestCode, EnterCode, CodeBack, SubmitPassword, NewPasswordBack
<1>5. ASSUME ChangeLocation \/ (\E s \in Shops : Home(s))
             \/ (\E v \in Vendors, status \in {"online", "offline"} : PickVendor(v, status))
      PROVE  Moved
  BY <1>5 DEF ChangeLocation, Home, PickVendor
<1>. QED
  BY <1>1, <1>2, <1>3, <1>4, <1>5 DEF Customer

LEMMA AnswersMove == ASSUME Answers PROVE Moved
<1>. USE RoutesOf DEF Moved, Places
<1>1. ASSUME (\E t \in Tokens \union {"null"} : SignedIn(t)) \/ (\E t \in Tokens : Expire(t)) PROVE Moved
  BY <1>1 DEF SignedIn, Expire
<1>2. ASSUME SignInFails \/ SettingsAnswered \/ SettingsFail PROVE Moved
  BY <1>2 DEF SignInFails, SettingsAnswered, SettingsFail
<1>3. ASSUME SignedUp \/ RequestFails \/ CodeSent \/ PasswordReset PROVE Moved
  BY <1>3 DEF SignedUp, RequestFails, CodeSent, PasswordReset
<1>4. ASSUME Verified \/ VerifyFails \/ CountdownEnds
             \/ (\E offered \in {FALSE, otp.resendOtp} : Resent(offered))
      PROVE  Moved
  BY <1>4 DEF Verified, VerifyFails, CountdownEnds, Resent, OnlyOtp
<1>5. ASSUME \E s \in Shops : Ask(s) \/ Refused(s) \/ Served(s) \/ Break(s) PROVE Moved
  BY <1>5 DEF Ask, Refused, Served, Break
<1>. QED
  BY <1>1, <1>2, <1>3, <1>4, <1>5 DEF Answers

LEMMA NextMoves == ASSUME [Next]_vars PROVE Moved
<1>. USE RoutesOf DEF Moved, Places
<1>1. ASSUME Granted \/ Timeout \/ Initialized PROVE Moved
  BY <1>1 DEF Granted, Timeout, Initialized, Navigate
<1>2. ASSUME Kill PROVE Moved
  BY <1>2 DEF Kill
<1>3. ASSUME UNCHANGED vars PROVE Moved
  BY <1>3 DEF vars
<1>. QED
  BY <1>1, <1>2, <1>3, CustomerMoves, AnswersMove DEF Next

LEMMA NoCallsType == NoCalls \in OtpCalls /\ "none" \in Stored
  BY DEF NoCalls, OtpCalls, Stored

(* How the calls of the OTP screen change. *)
LEMMA OtpStep ==
    ASSUME otp \in OtpCalls, Verify \/ Resend \/ Verified \/ VerifyFails \/ CountdownEnds
                             \/ \E offered \in {FALSE, otp.resendOtp} : Resent(offered)
    PROVE  otp' \in OtpCalls
<1>1. /\ otp.verifying \in 0..MaxCalls /\ otp.resending \in 0..MaxCalls
      /\ otp.isLoading \in BOOLEAN /\ otp.resendOtp \in BOOLEAN
      /\ otp.calm \in BOOLEAN /\ Calm \in BOOLEAN
  BY DEF OtpCalls, Calm
<1>2. CASE Verify
  <2>1. otp.verifying + 1 \in 0..MaxCalls
    BY <1>1, <1>2 DEF Verify
  <2>2. PICK calm \in BOOLEAN : calm = Calm
    BY <1>1
  <2>3. otp' = [otp EXCEPT !.verifying = otp.verifying + 1, !.isLoading = TRUE, !.calm = calm]
    BY <1>2, <2>2 DEF Verify
  <2>. QED
    BY <2>1, <2>3 DEF OtpCalls
<1>3. CASE Resend
  <2>1. otp.resending + 1 \in 0..MaxCalls
    BY <1>1, <1>3 DEF Resend
  <2>. QED
    BY <1>3, <2>1 DEF Resend, OtpCalls
<1>4. CASE Verified
  <2>1. otp.verifying - 1 \in 0..MaxCalls
    BY <1>1, <1>4 DEF Verified
  <2>. QED
    BY <1>4, <2>1, NoCallsType DEF Verified, OtpCalls
<1>5. CASE VerifyFails
  <2>1. otp.verifying - 1 \in 0..MaxCalls
    BY <1>1, <1>5 DEF VerifyFails
  <2>. QED
    BY <1>5, <2>1 DEF VerifyFails, OtpCalls
<1>6. CASE CountdownEnds
  BY <1>6 DEF CountdownEnds, OtpCalls
<1>7. ASSUME NEW offered \in {FALSE, otp.resendOtp}, Resent(offered) PROVE otp' \in OtpCalls
  <2>1. otp.resending > 0
    BY <1>7 DEF Resent
  <2>2. otp.resending - 1 \in 0..MaxCalls
    BY <1>1, <2>1
  <2>3. offered \in BOOLEAN
    BY <1>1
  <2>. QED
    BY <1>7, <2>2, <2>3 DEF Resent, OtpCalls
<1>. QED
  BY <1>2, <1>3, <1>4, <1>5, <1>6, <1>7

LEMMA CustomerFields == ASSUME Fields, Customer PROVE Fields'
<1>. USE NoCallsType DEF Fields, prefs, start, calls, account, backend, history
<1>1. ASSUME GetStarted \/ ForgotPassword \/ BackToLogin \/ SignUpLink \/ HaveAccount
             \/ EnterCode \/ CodeBack \/ \E s \in Shops : Home(s)
      PROVE  Fields'
  <2>1. OnlyRoute
    BY <1>1 DEF GetStarted, ForgotPassword, BackToLogin, SignUpLink, HaveAccount, EnterCode,
                CodeBack, Home
  <2>. QED
    BY <2>1 DEF OnlyRoute
<1>2. ASSUME BackFromForgot \/ SignIn \/ RegisterBack PROVE Fields'
  <2>1. CASE BackFromForgot
    BY <2>1 DEF BackFromForgot
  <2>2. CASE SignIn
    BY <2>2 DEF SignIn
  <2>3. CASE RegisterBack
    BY <2>3 DEF RegisterBack
  <2>. QED
    BY <1>2, <2>1, <2>2, <2>3
<1>3. ASSUME Logout \/ CreateAccount \/ DeleteAccount \/ LoginAgain PROVE Fields'
  <2>1. CASE Logout
    BY <2>1 DEF Logout, Cleared, Abandoned
  <2>2. CASE CreateAccount \/ LoginAgain
    BY <2>2 DEF CreateAccount, LoginAgain, Cleared
  <2>3. CASE DeleteAccount
    BY <2>3 DEF DeleteAccount, Abandoned
  <2>. QED
    BY <1>3, <2>1, <2>2, <2>3
<1>4. ASSUME SignUp \/ RequestCode \/ SubmitPassword \/ NewPasswordBack PROVE Fields'
  <2>1. CASE SignUp \/ RequestCode \/ SubmitPassword
    BY <2>1 DEF SignUp, RequestCode, SubmitPassword, OnlyAccount
  <2>2. CASE NewPasswordBack
    BY <2>2 DEF NewPasswordBack, OnlyAccount
  <2>. QED
    BY <1>4, <2>1, <2>2
<1>5. ASSUME Verify \/ Resend PROVE Fields'
  <2>1. otp' \in OtpCalls
    BY <1>5, OtpStep
  <2>2. UNCHANGED <<prefs, start, calls, request, backend, kills, history>>
    BY <1>5 DEF Verify, Resend, OnlyOtp, OnlyAccount
  <2>. QED
    BY <2>1, <2>2
<1>6. ASSUME OtpBack PROVE Fields'
  BY <1>6 DEF OtpBack, OnlyAccount
<1>7. ASSUME NEW v \in Vendors, NEW status \in {"online", "offline"}, PickVendor(v, status)
      PROVE  Fields'
  BY <1>7 DEF PickVendor
<1>8. ASSUME ChangeLocation PROVE Fields'
  BY <1>8 DEF ChangeLocation
<1>. QED
  BY <1>1, <1>2, <1>3, <1>4, <1>5, <1>6, <1>7, <1>8 DEF Customer

LEMMA AnswersFields == ASSUME Fields, Answers PROVE Fields'
<1>. USE NoCallsType DEF Fields, prefs, start, calls, account, backend, history
<1>1. ASSUME NEW t \in Tokens \union {"null"}, SignedIn(t) \/ (t \in Tokens /\ Expire(t)) PROVE Fields'
  BY <1>1 DEF SignedIn, Expire, Stored
<1>2. ASSUME SignInFails \/ SettingsAnswered \/ SettingsFail PROVE Fields'
  BY <1>2 DEF SignInFails, SettingsAnswered, SettingsFail
<1>3. ASSUME SignedUp \/ RequestFails \/ CodeSent \/ PasswordReset PROVE Fields'
  BY <1>3 DEF SignedUp, RequestFails, CodeSent, PasswordReset, OnlyAccount, Cleared, Abandoned
<1>4. ASSUME Verified \/ VerifyFails \/ CountdownEnds
             \/ \E offered \in {FALSE, otp.resendOtp} : Resent(offered)
      PROVE  Fields'
  <2>1. otp' \in OtpCalls
    BY <1>4, OtpStep
  <2>2. UNCHANGED <<prefs, start, calls, request, backend, kills, history>>
    BY <1>4 DEF Verified, VerifyFails, CountdownEnds, Resent, OnlyOtp, OnlyAccount
  <2>. QED
    BY <2>1, <2>2
<1>5. ASSUME NEW s \in Shops, Ask(s) \/ Refused(s) \/ Served(s) \/ Break(s) PROVE Fields'
  BY <1>5 DEF Ask, Refused, Served, Break, Answered, OnlyAsked
<1>. QED
  BY <1>1, <1>2, <1>3, <1>4, <1>5 DEF Answers

LEMMA NextFields == ASSUME Fields, [Next]_vars PROVE Fields'
<1>. USE NoCallsType DEF Fields, prefs, start, calls, account, backend, history
<1>1. ASSUME Granted PROVE Fields'
  BY <1>1 DEF Granted, OnlyStart, Splashes
<1>2. ASSUME Timeout PROVE Fields'
  <2>1. PICK stage \in {splash.stage, "over"} : splash' = [splash EXCEPT !.stage = stage]
    BY <1>2 DEF Timeout
  <2>2. splash' \in Splashes
    BY <2>1 DEF Splashes
  <2>3. timer' \in BOOLEAN /\ chosen' = "none"
    BY <1>2 DEF Timeout
  <2>4. UNCHANGED <<prefs, signingIn, call, asked, account, backend, kills, history>>
    BY <1>2 DEF Timeout, OnlyStart
  <2>. QED
    BY <2>2, <2>3, <2>4
<1>3. ASSUME Initialized PROVE Fields'
  <2>1. splash' \in Splashes
    BY <1>3 DEF Initialized, Splashes
  <2>2. timer' \in BOOLEAN /\ (chosen' = "none" \/ chosen' = chosen)
    BY <1>3 DEF Initialized
  <2>3. UNCHANGED <<prefs, signingIn, call, asked, account, backend, kills, history>>
    BY <1>3 DEF Initialized, OnlyStart
  <2>. QED
    BY <2>1, <2>2, <2>3
<1>4. ASSUME Kill PROVE Fields'
  BY <1>4 DEF Kill, Abandoned, Splashes
<1>5. ASSUME UNCHANGED vars PROVE Fields'
  BY <1>5 DEF vars
<1>. QED
  BY <1>1, <1>2, <1>3, <1>4, <1>5, CustomerFields, AnswersFields DEF Next

LEMMA InitType == Init => StackType /\ Fields
<1>. SUFFICES ASSUME Init PROVE StackType /\ Fields
  OBVIOUS
<1>1. StackType
  BY RoutesOf DEF Init, StackType, Places
<1>2. splash \in Splashes /\ otp \in OtpCalls
  BY NoCallsType DEF Init, Splashes
<1>3. kills \in 0 .. MaxKills
  BY DEF Init
<1>4. Fields
  BY <1>2, <1>3, NoCallsType DEF Init, Fields
<1>. QED
  BY <1>1, <1>4

(* Every variable has its type, however the customer, the servers and the  *)
(* phone behave, and the stack is never empty.                             *)
THEOREM TypeCorrect == Spec => []TypeOK
<1>1. Init => TypeOK
  BY InitType, TypeParts
<1>2. TypeOK /\ [Next]_vars => TypeOK'
  BY TypeParts, NextMoves, MovedType, NextFields
<1>. QED
  BY <1>1, <1>2, PTL DEF Spec

-----------------------------------------------------------------------------
(* A customer who is slower than the servers.  What keeps the shop to those *)
(* who are signed in is said of the screen on top and of what is waited for *)
(* there; the stack only has to be layered, so that a pop reveals no shop.  *)

(* Outside the shop nothing asked in it, and no vendor's settings, are      *)
(* waited for any more. *)
Quiet == Shown \in Account => call = "none" /\ \A s \in Shops : asked[s] = "idle"

(* Who waits for an answer still looks at the screen that awaits it.        *)
Waiting ==
    /\ signingIn # "none" => Shown = signingIn /\ request = "none"
    /\ request = "signUp" => Shown = "register"
    /\ request = "code" => Shown = "forgot"
    /\ request = "password" => Shown = "newPassword"
    /\ otp.verifying > 0 => Shown = "otp"

Transit == splash.stage = "delay" /\ splash.mounted

(* Until the splash screen is left for good, what it read is still true.    *)
Starting ==
    /\ splash.stage = "asking" => splash.token = "none"
    /\ timer => splash.stage # "over"
    /\ timer /\ splash.stage = "asking" => Shown = "splash"
    /\ timer /\ splash.stage = "delay" => splash.mounted
    /\ Transit => /\ splash.token = token /\ splash.vendor = vendor
                  /\ Shown \in {"splash", "welcome", "vendors", "shop", "expired"}
                  /\ token = "none" => Shown \in {"splash", "welcome"}
                  /\ call = "none"

Known == (signedIn /\ token # "none") \/ exposed

(* The settings under way are those of the vendor, and any others are too.  *)
Picking ==
    /\ call # "none" => Shown \in {"vendors", "expired"} /\ vendor = call /\ Known
    /\ call = "none" /\ vendor # "none" => settings = vendor \/ unsettled

(* What the shop asks, it asks with the token; the dialog is only over one  *)
(* the backend refuses.                                                     *)
Tokened ==
    /\ token # "none" => signedIn \/ exposed
    /\ \A s \in Shops : asked[s] \in {"idle", token}
    /\ Shown = "expired" => token \notin valid
    /\ Shown \in Account /\ token \in valid => NoExpired

Core == Quiet /\ Waiting /\ Starting /\ Picking /\ Tokened
Claims == SignedInToShop /\ SettingsOfVendor
(* A verification begun when no call was on its way is under its barrier.   *)
Calling ==
    otp.calm /\ otp.verifying > 0 => otp.verifying = 1 /\ otp.resending = 0 /\ otp.isLoading


Inv == StackType /\ Fields /\ Layered /\ Core /\ Claims /\ Calling

LEMMA NoneIsNothing ==
    ASSUME Fields
    PROVE  "none" \notin valid /\ NoCalls.verifying = 0
  BY DEF Fields, NoCalls

LEMMA SameStack ==
    ASSUME UNCHANGED stack
    PROVE  Shown' = Shown /\ NoExpired' = NoExpired /\ Layered' = Layered
  BY DEF Shown, NoExpired, Layered

(* The welcome screen, the sign-in screens and what they are opened for.    *)
LEMMA RouteSteps ==
    ASSUME Prompt, Inv,
           GetStarted \/ ForgotPassword \/ BackToLogin \/ SignUpLink \/ HaveAccount
           \/ EnterCode \/ CodeBack
    PROVE  Layered' /\ Core' /\ Claims'
<1>. USE NoneIsNothing, RoutesOf DEF Inv, Places
<1>. USE DEF prefs, start, calls, account, backend, history
<1>1. UNCHANGED <<prefs, start, calls, account, backend, kills, history>>
  BY DEF GetStarted, ForgotPassword, BackToLogin, SignUpLink, HaveAccount, EnterCode, CodeBack,
         OnlyRoute
<1>2. \/ Shown = "welcome" /\ Replace(At("login"))
      \/ Shown \in {"welcome", "login"} /\ signingIn = "none" /\ Replace(At("forgot"))
      \/ Shown = "forgot" /\ request = "none" /\ Replace(At("login"))
      \/ Shown = "login" /\ signingIn = "none" /\ Replace(At("register"))
      \/ Shown = "register" /\ request # "signUp" /\ signingIn # "register" /\ Push(At("login"))
      \/ Shown = "code" /\ Push(At("newPassword"))
      \/ Shown = "code" /\ Pop(1)
  BY DEF GetStarted, ForgotPassword, BackToLogin, SignUpLink, HaveAccount, EnterCode, CodeBack
<1>3. /\ Layered'
      /\ NoExpired => NoExpired'
      /\ \/ Shown = "welcome" /\ Shown' = "login"
         \/ Shown \in {"welcome", "login"} /\ signingIn = "none" /\ Shown' = "forgot"
         \/ Shown = "forgot" /\ request = "none" /\ Shown' = "login"
         \/ Shown = "login" /\ signingIn = "none" /\ Shown' = "register"
         \/ Shown = "register" /\ request # "signUp" /\ signingIn # "register" /\ Shown' = "login"
         \/ Shown = "code" /\ Shown' \in {"forgot", "newPassword"}
  BY <1>2, Pushed, Replaced, Popped DEF Opener
<1>4. Shown \in Account /\ Shown' \in Account \ {"splash", "welcome"}
  BY <1>3 DEF Account
<1>5. Shown = "welcome" => MayAct
  BY DEF GetStarted, ForgotPassword, BackToLogin, SignUpLink, HaveAccount, EnterCode, CodeBack
<1>6. ~Transit /\ (timer => splash.stage # "asking")
  BY <1>3, <1>5 DEF Starting, Core, MayAct, Transit
<1>7. Waiting'
  BY <1>1, <1>3 DEF Core, Waiting, Fields
<1>. QED
  BY <1>1, <1>3, <1>4, <1>6, <1>7 DEF Core, Claims, Quiet, Starting, Transit, Picking, Tokened, Known,
     SignedInToShop, SettingsOfVendor, Account

(* Signing in. *)
LEMMA SignInSteps ==
    ASSUME Prompt, Inv,
           SignIn \/ SignInFails \/ BackFromForgot
           \/ \E t \in Tokens \union {"null"} : SignedIn(t)
    PROVE  Layered' /\ Core' /\ Claims'
<1>. USE NoneIsNothing, RoutesOf DEF Inv, Places, prefs, start, calls, account, backend, history
<1>1. CASE SignIn
  <2>1. Shown' = Shown /\ NoExpired' = NoExpired /\ Layered'
    BY <1>1, SameStack DEF SignIn
  <2>2. UNCHANGED <<prefs, start, chosen, call, asked, account, backend, kills, history>>
    BY <1>1 DEF SignIn
  <2>3. Shown \in {"login", "register"} /\ signingIn' = Shown /\ request = "none"
    BY <1>1 DEF SignIn, Settled
  <2>. QED
    BY <2>1, <2>2, <2>3 DEF Core, Claims, Quiet, Waiting, Starting, Transit, Picking, Tokened, Known,
       SignedInToShop, SettingsOfVendor
<1>2. CASE SignInFails
  <2>1. Shown' = Shown /\ NoExpired' = NoExpired /\ Layered'
    BY <1>2, SameStack DEF SignInFails
  <2>. QED
    BY <1>2, <2>1 DEF SignInFails, Core, Claims, Quiet, Waiting, Starting, Transit, Picking, Tokened,
       Known, SignedInToShop, SettingsOfVendor
<1>3. CASE BackFromForgot
  <2>1. /\ Layered' /\ Shown = "forgot" /\ request' = "none" /\ exposed' = TRUE
        /\ NoExpired => NoExpired' /\ Shown' # "expired"
    BY <1>3, Popped DEF BackFromForgot
  <2>2. UNCHANGED <<prefs, start, calls, otp, backend, kills, signedIn, unsettled>>
    BY <1>3 DEF BackFromForgot
  <2>3. signingIn = "none"
    BY <2>1 DEF Core, Waiting, Fields
  <2>. QED
    BY <2>1, <2>2, <2>3 DEF Core, Claims, Quiet, Waiting, Starting, Transit, Picking, Tokened, Known,
       SignedInToShop, SettingsOfVendor, Account
<1>4. ASSUME NEW t \in Tokens \union {"null"}, SignedIn(t) PROVE Layered' /\ Core' /\ Claims'
  <2>1. /\ Layered' /\ Shown' = "vendors"
        /\ token' = t /\ signedIn' /\ ~exposed' /\ signingIn' = "none"
    BY <1>4, Replaced DEF SignedIn, Opener
  <2>2. UNCHANGED <<vendor, settings, start, call, asked, account, kills, unsettled>>
    BY <1>4 DEF SignedIn
  <2>3. Shown = signingIn /\ Shown \in {"login", "register"} /\ request = "none"
    BY <1>4 DEF SignedIn, Core, Waiting, Fields
  <2>4. call = "none" /\ \A s \in Shops : asked[s] = "idle"
    BY <2>3 DEF Core, Quiet, Account
  <2>. QED
    BY <2>1, <2>2, <2>3, <2>4 DEF Core, Claims, Quiet, Waiting, Starting, Transit, Picking, Tokened,
       Known, SignedInToShop, SettingsOfVendor, Account
<1>. QED
  BY <1>1, <1>2, <1>3, <1>4

(* Registering, the one-time password and the forgotten password. *)
LEMMA AccountSteps ==
    ASSUME Prompt, Inv,
           RegisterBack \/ SignUp \/ SignedUp \/ OtpBack \/ RequestCode \/ CodeSent
           \/ SubmitPassword \/ NewPasswordBack \/ RequestFails
    PROVE  Layered' /\ Core' /\ Claims'
<1>. USE NoneIsNothing, RoutesOf DEF Inv, Places, prefs, start, calls, account, backend, history
<1>1. UNCHANGED <<prefs, start, chosen, call, asked, backend, kills, history>>
  BY DEF RegisterBack, SignUp, SignedUp, OtpBack, RequestCode, CodeSent, SubmitPassword,
         NewPasswordBack, RequestFails, OnlyAccount
<1>2. CASE RequestFails
  <2>1. Shown' = Shown /\ NoExpired' = NoExpired /\ Layered'
    BY <1>2, SameStack DEF RequestFails
  <2>2. request' = "none" /\ otp' = otp /\ signingIn' = signingIn
    BY <1>2 DEF RequestFails, OnlyAccount
  <2>. QED
    BY <1>1, <2>1, <2>2 DEF Core, Claims, Quiet, Waiting, Starting, Transit, Picking, Tokened, Known,
       SignedInToShop, SettingsOfVendor
<1>3. CASE ~RequestFails
  <2>1. /\ Layered'
        /\ NoExpired => NoExpired'
        /\ Shown' \in {"login", "register", "otp", "forgot", "code", "newPassword"}
        /\ Shown \in {"register", "otp", "forgot", "code", "newPassword"}
    <3>1. CASE RegisterBack
      BY <3>1, Replaced DEF RegisterBack, Opener
    <3>2. CASE SignUp \/ RequestCode \/ SubmitPassword
      <4>1. UNCHANGED stack /\ Shown \in {"register", "forgot", "newPassword"}
        BY <3>2 DEF SignUp, RequestCode, SubmitPassword
      <4>. QED
        BY <4>1, SameStack
    <3>3. CASE SignedUp
      BY <3>3, Pushed DEF SignedUp, Awaits, Opener, Core, Waiting
    <3>4. CASE CodeSent
      BY <3>4, Pushed DEF CodeSent, Awaits, Opener, Core, Waiting
    <3>5. CASE OtpBack
      BY <3>5, Popped DEF OtpBack, Opener
    <3>6. CASE NewPasswordBack
      BY <3>6, Popped DEF NewPasswordBack, Opener
    <3>. QED
      BY <1>3, <3>1, <3>2, <3>3, <3>4, <3>5, <3>6
  <2>2. ~Transit /\ (timer => splash.stage # "asking")
    BY <2>1 DEF Starting, Core, Transit
  <2>3. Waiting'
    <3>1. CASE RegisterBack
      <4>1. Shown = "register" /\ Shown' = "login" /\ otp' = otp
        BY <3>1, Replaced DEF RegisterBack
      <4>2. request' = "none" /\ signingIn' = "none"
        BY <3>1, <4>1 DEF RegisterBack, Core, Waiting, Fields
      <4>. QED
        BY <4>1, <4>2 DEF Core, Waiting
    <3>2. CASE SignUp \/ RequestCode \/ SubmitPassword
      <4>1. UNCHANGED <<stack, otp, signingIn>>
        BY <3>2 DEF SignUp, RequestCode, SubmitPassword, OnlyAccount
      <4>2. Shown' = Shown
        BY <4>1, SameStack
      <4>3. \/ request' = "signUp" /\ Shown = "register" /\ signingIn # "register"
            \/ request' = "code" /\ Shown = "forgot"
            \/ request' = "password" /\ Shown = "newPassword"
        BY <3>2 DEF SignUp, RequestCode, SubmitPassword
      <4>. QED
        BY <4>1, <4>2, <4>3 DEF Core, Waiting, Fields
    <3>3. CASE SignedUp \/ CodeSent
      <4>1. /\ request' = "none" /\ signingIn' = signingIn
            /\ request # "none"
            /\ otp' = NoCalls \/ (otp' = otp /\ Shown = "forgot")
        BY <3>3 DEF SignedUp, CodeSent, Awaits, OnlyAccount, Core, Waiting
      <4>. QED
        BY <4>1 DEF Core, Waiting
    <3>4. CASE OtpBack
      <4>1. Shown = "otp" /\ otp' = NoCalls /\ request' = request /\ signingIn' = signingIn
        BY <3>4 DEF OtpBack, OnlyAccount
      <4>. QED
        BY <4>1 DEF Core, Waiting, Fields
    <3>5. CASE NewPasswordBack
      <4>1. Shown = "newPassword" /\ otp' = otp /\ signingIn' = signingIn
        BY <3>5 DEF NewPasswordBack, OnlyAccount
      <4>2. request' = "none"
        BY <3>5, <4>1 DEF NewPasswordBack, Core, Waiting, Fields
      <4>. QED
        BY <4>1, <4>2 DEF Core, Waiting, Fields
    <3>. QED
      BY <1>3, <3>1, <3>2, <3>3, <3>4, <3>5
  <2>. QED
    BY <1>1, <2>1, <2>2, <2>3 DEF Core, Claims, Quiet, Starting, Transit, Picking, Tokened, Known,
       SignedInToShop, SettingsOfVendor, Account
<1>. QED
  BY <1>2, <1>3

(* The calls of the OTP screen. *)
LEMMA OtpSteps ==
    ASSUME Prompt, Inv,
           Verify \/ Resend \/ Verified \/ VerifyFails \/ CountdownEnds
           \/ \E offered \in {FALSE, otp.resendOtp} : Resent(offered)
    PROVE  Layered' /\ Core' /\ Claims'
<1>. USE NoneIsNothing, RoutesOf DEF Inv, Places, prefs, start, calls, backend, history
<1>1. UNCHANGED <<prefs, start, calls, request, backend, kills, history>>
  BY DEF Verify, Resend, Verified, VerifyFails, CountdownEnds, Resent, OnlyOtp, OnlyAccount
<1>2. CASE Verified
  <2>1. Shown = "otp"
    BY <1>2 DEF Verified, Core, Waiting
  <2>2. Layered' /\ Shown' = "login" /\ (NoExpired => NoExpired') /\ otp' = NoCalls
    BY <1>2, <2>1, Replaced DEF Verified, Opener
  <2>3. signingIn = "none" /\ request = "none"
    BY <2>1 DEF Core, Waiting, Fields
  <2>. QED
    BY <1>1, <2>1, <2>2, <2>3 DEF Core, Claims, Quiet, Waiting, Starting, Transit, Picking, Tokened,
       Known, SignedInToShop, SettingsOfVendor, Account
<1>3. CASE ~Verified
  <2>1. Shown' = Shown /\ NoExpired' = NoExpired /\ Layered'
    BY <1>3, SameStack DEF Verify, Resend, VerifyFails, CountdownEnds, Resent, OnlyOtp
  <2>2. otp'.verifying > 0 => Shown = "otp"
    <3>1. otp.verifying \in Nat
      BY DEF Fields, OtpCalls
    <3>2. \/ Shown = "otp"
          \/ otp'.verifying = otp.verifying
          \/ otp.verifying > 0 /\ otp'.verifying = otp.verifying - 1
      BY <1>3 DEF Verify, Resend, VerifyFails, CountdownEnds, Resent, OtpTapped, Fields, OtpCalls
    <3>. QED
      BY <3>1, <3>2 DEF Core, Waiting
  <2>. QED
    BY <1>1, <2>1, <2>2 DEF Core, Claims, Quiet, Waiting, Starting, Transit, Picking, Tokened, Known,
       SignedInToShop, SettingsOfVendor
<1>. QED
  BY <1>2, <1>3

(* Leaving the session. *)
LEMMA ClearSteps ==
    ASSUME Prompt, Inv,
           Logout \/ CreateAccount \/ DeleteAccount \/ LoginAgain \/ PasswordReset
    PROVE  Layered' /\ Core' /\ Claims'
<1>. USE NoneIsNothing, RoutesOf DEF Inv, Places, prefs, start, calls, account, backend, history
<1>1. /\ Layered'
      /\ Shown' \in {"login", "register"}
      /\ Shown \in {"shop", "expired", "newPassword"}
  BY Alone, Pushed, Replaced
     DEF Logout, CreateAccount, DeleteAccount, LoginAgain, PasswordReset, Opener,
         Awaits, Core, Waiting
<1>2. /\ call = "none" /\ signingIn = "none" /\ \A s \in Shops : asked[s] = "idle"
      /\ ~Transit /\ (timer => splash.stage # "asking")
  <2>1. signingIn = "none"
    BY <1>1 DEF Core, Waiting, Fields
  <2>2. Shown = "newPassword" => call = "none" /\ \A s \in Shops : asked[s] = "idle"
    BY DEF Core, Quiet, Account
  <2>3. CASE PasswordReset
    BY <1>1, <2>1, <2>2, <2>3 DEF PasswordReset, Awaits, Core, Waiting, Starting, Transit
  <2>4. CASE ~PasswordReset
    <3>1. Settled
      BY <2>4 DEF Logout, CreateAccount, DeleteAccount, LoginAgain
    <3>. QED
      BY <1>1, <2>1, <3>1 DEF Settled, MayAct, Core, Starting, Transit
  <2>. QED
    BY <2>3, <2>4
<1>3. /\ request' = "none"
      /\ ~(otp'.verifying > 0)
  <2>1. Shown # "otp"
    BY <1>1
  <2>2. ~(otp.verifying > 0)
    BY <2>1 DEF Core, Waiting
  <2>3. CASE Logout \/ DeleteAccount \/ PasswordReset
    BY <2>3 DEF Logout, DeleteAccount, PasswordReset, Abandoned
  <2>4. CASE CreateAccount \/ LoginAgain
    BY <2>2, <2>4 DEF CreateAccount, LoginAgain, Settled
  <2>. QED
    BY <2>3, <2>4
<1>4. UNCHANGED <<settings, start, calls, unsettled>> /\ vendor' = "none"
  BY DEF Logout, CreateAccount, DeleteAccount, LoginAgain, PasswordReset, Cleared
<1>5. \/ token' = "none" /\ valid' = valid
      \/ token' = token /\ token' \notin valid' /\ exposed' = TRUE
  BY DEF Logout, CreateAccount, DeleteAccount, LoginAgain, PasswordReset, Cleared
<1>. QED
  BY <1>1, <1>2, <1>3, <1>4, <1>5 DEF Core, Claims, Quiet, Waiting, Starting, Transit, Picking,
     Tokened, Known, SignedInToShop, SettingsOfVendor, Account

(* Vendors and shops. *)
LEMMA VendorSteps ==
    ASSUME Prompt, Inv,
           \/ \E v \in Vendors, status \in {"online", "offline"} : PickVendor(v, status)
           \/ SettingsAnswered \/ SettingsFail \/ ChangeLocation
           \/ \E s \in Shops : Home(s)
    PROVE  Layered' /\ Core' /\ Claims'
<1>. USE NoneIsNothing, RoutesOf DEF Inv, Places, prefs, start, calls, account, backend, history
<1>1. ASSUME NEW v \in Vendors, NEW status \in {"online", "offline"}, PickVendor(v, status)
      PROVE  Layered' /\ Core' /\ Claims'
  <2>1. Shown' = Shown /\ NoExpired' = NoExpired /\ Layered'
    BY <1>1, SameStack DEF PickVendor
  <2>2. UNCHANGED <<token, settings, start, signingIn, asked, account, backend, kills, signedIn, exposed>>
    BY <1>1 DEF PickVendor
  <2>3. /\ Shown = "vendors" /\ call = "none" /\ ~Transit
        /\ \/ UNCHANGED <<vendor, call, unsettled>>
           \/ vendor' = v /\ call' = v
    BY <1>1 DEF PickVendor, MayAct, Transit
  <2>4. v # "none"
    OBVIOUS
  <2>. QED
    BY <2>1, <2>2, <2>3, <2>4 DEF Core, Claims, Quiet, Waiting, Starting, Transit, Picking, Tokened,
       Known, SignedInToShop, SettingsOfVendor, Account
<1>2. CASE SettingsAnswered
  <2>1. Layered' /\ Shown' = "shop" /\ call # "none"
    BY <1>2, Replaced DEF SettingsAnswered, Opener
  <2>2. /\ UNCHANGED <<token, vendor, start, signingIn, asked, account, backend, kills, history>>
        /\ settings' = call /\ call' = "none"
    BY <1>2 DEF SettingsAnswered
  <2>3. Shown \in {"vendors", "expired"} /\ vendor = call /\ Known
    BY <2>1 DEF Core, Picking
  <2>4. signingIn = "none" /\ request = "none" /\ ~(otp.verifying > 0)
    BY <2>3 DEF Core, Waiting, Fields
  <2>5. ~Transit /\ (timer => splash.stage # "asking")
    BY <2>1, <2>3 DEF Core, Starting
  <2>. QED
    BY <2>1, <2>2, <2>3, <2>4, <2>5 DEF Core, Claims, Quiet, Waiting, Starting, Transit, Picking,
       Tokened, Known, SignedInToShop, SettingsOfVendor, Account
<1>3. CASE SettingsFail
  <2>1. Shown' = Shown /\ NoExpired' = NoExpired /\ Layered'
    BY <1>3, SameStack DEF SettingsFail
  <2>2. /\ UNCHANGED <<prefs, start, signingIn, chosen, asked, account, backend, kills, signedIn, exposed>>
        /\ call' = "none" /\ unsettled' = TRUE
    BY <1>3 DEF SettingsFail
  <2>. QED
    BY <2>1, <2>2 DEF Core, Claims, Quiet, Waiting, Starting, Transit, Picking, Tokened, Known,
       SignedInToShop, SettingsOfVendor, Account
<1>4. CASE ChangeLocation \/ \E s \in Shops : Home(s)
  <2>1. /\ Layered' /\ Shown = "shop"
        /\ \/ Shown' = "vendors" /\ vendor' = "none"
           \/ Shown' = "shop" /\ vendor' = vendor
    BY <1>4, Pushed, Replaced DEF ChangeLocation, Home, Opener, OnlyRoute
  <2>2. UNCHANGED <<token, settings, start, signingIn, call, asked, account, backend, kills, history>>
    BY <1>4 DEF ChangeLocation, Home, OnlyRoute
  <2>3. MayAct /\ ~Transit /\ (timer => splash.stage # "asking")
    BY <1>4, <2>1 DEF ChangeLocation, Home, MayAct, Core, Starting, Transit
  <2>4. signingIn = "none" /\ request = "none" /\ ~(otp.verifying > 0) /\ call = "none"
    BY <2>1 DEF Core, Waiting, Fields, Picking
  <2>. QED
    BY <2>1, <2>2, <2>3, <2>4 DEF Core, Claims, Quiet, Waiting, Starting, Transit, Picking, Tokened,
       Known, SignedInToShop, SettingsOfVendor, Account
<1>. QED
  BY <1>1, <1>2, <1>3, <1>4

(* What the shop asks, and sessions that expire. *)
LEMMA ShopSteps ==
    ASSUME Prompt, Inv,
           \/ \E s \in Shops : Ask(s) \/ Refused(s) \/ Served(s) \/ Break(s)
           \/ \E t \in Tokens : Expire(t)
    PROVE  Layered' /\ Core' /\ Claims'
<1>. USE NoneIsNothing, RoutesOf DEF Inv, Places, prefs, start, calls, account, backend, history
<1>1. ASSUME NEW t \in Tokens, Expire(t) PROVE Layered' /\ Core' /\ Claims'
  <2>1. Shown' = Shown /\ NoExpired' = NoExpired /\ Layered'
    BY <1>1, SameStack DEF Expire
  <2>2. /\ UNCHANGED <<prefs, start, calls, account, kills, history>>
        /\ valid' \subseteq valid
    BY <1>1 DEF Expire
  <2>. QED
    BY <2>1, <2>2 DEF Core, Claims, Quiet, Waiting, Starting, Transit, Picking, Tokened, Known,
       SignedInToShop, SettingsOfVendor
<1>2. ASSUME NEW s \in Shops, Ask(s) \/ Refused(s) \/ Served(s) \/ Break(s)
      PROVE  Layered' /\ Core' /\ Claims'
  <2>1. UNCHANGED <<prefs, start, signingIn, chosen, call, account, backend, kills, history>>
    BY <1>2 DEF Ask, Refused, Served, Break, OnlyAsked
  <2>2. \/ asked' = [asked EXCEPT ![s] = token] /\ Last(stack) = Shop(s)
        \/ asked' = [asked EXCEPT ![s] = "idle"]
    BY <1>2 DEF Ask, Refused, Served, Break, Answered
  <2>3. \A q \in Shops : \/ asked'[q] = asked[q]
                         \/ asked'[q] = "idle"
                         \/ asked'[q] = token /\ Shown = "shop"
    BY <2>2 DEF Fields, Shown
  <2>4. CASE Refused(s)
    <3>1. asked[s] \notin valid /\ asked[s] # "idle" /\ asked[s] \in {"idle", token}
      BY <2>4 DEF Refused, Answered, Core, Tokened
    <3>2. Shown \notin Account
      BY <3>1 DEF Core, Quiet
    <3>3. Layered' /\ Shown' = "expired"
      BY <2>4, Pushed DEF Refused, Opener
    <3>4. signingIn = "none" /\ request = "none" /\ ~(otp.verifying > 0)
      BY <3>2 DEF Core, Waiting, Fields, Account
    <3>. QED
      BY <2>1, <2>3, <3>1, <3>2, <3>3, <3>4 DEF Core, Claims, Quiet, Waiting, Starting, Transit,
         Picking, Tokened, Known, SignedInToShop, SettingsOfVendor, Account
  <2>5. CASE Ask(s) \/ Served(s) \/ Break(s)
    <3>1. Shown' = Shown /\ NoExpired' = NoExpired /\ Layered'
      BY <2>5, SameStack DEF Ask, Served, Break
    <3>. QED
      BY <2>1, <2>3, <3>1 DEF Core, Claims, Quiet, Waiting, Starting, Transit, Picking, Tokened,
         Known, SignedInToShop, SettingsOfVendor, Account
  <2>. QED
    BY <1>2, <2>4, <2>5
<1>. QED
  BY <1>1, <1>2

(* What the splash screen opens: as long as it may navigate, what it read   *)
(* is true, and it is still on the stack or was only just replaced.         *)
LEMMA Navigated ==
    ASSUME Inv, Navigate,
           Transit \/ (timer /\ splash.stage = "asking")
    PROVE  /\ Layered' /\ (NoExpired => NoExpired')
           /\ Shown \in {"splash", "welcome", "vendors", "shop", "expired"}
           /\ Shown' \in {"welcome", "vendors", "shop"}
           /\ call = "none" /\ signingIn = "none" /\ request = "none" /\ ~(otp.verifying > 0)
           /\ Shown' = "welcome" => /\ \A s \in Shops : asked[s] = "idle"
                                    /\ token \in valid => NoExpired
           /\ Shown' \in {"vendors", "shop"} => Known
           /\ Shown' = "shop" => vendor # "none" /\ (settings = vendor \/ unsettled)
           /\ Transit => splash.token = token /\ splash.vendor = vendor
<1>. USE NoneIsNothing, RoutesOf DEF Inv, Places
<1>1. /\ Layered' /\ (NoExpired => NoExpired')
      /\ \/ splash.token = "none" /\ Shown' = "welcome"
         \/ splash.token # "none" /\ splash.vendor = "none" /\ Shown' = "vendors"
         \/ splash.token # "none" /\ splash.vendor # "none" /\ Shown' = "shop"
  BY Replaced DEF Navigate, Opener
<1>2. CASE Transit
  <2>1. /\ splash.token = token /\ splash.vendor = vendor /\ call = "none"
        /\ Shown \in {"splash", "welcome", "vendors", "shop", "expired"}
    BY <1>2 DEF Core, Starting
  <2>2. signingIn = "none" /\ request = "none" /\ ~(otp.verifying > 0)
    BY <2>1 DEF Core, Waiting, Fields
  <2>3. token = "none" => /\ \A s \in Shops : asked[s] = "idle"
                          /\ token \notin valid
    BY <1>2, <2>1, NoneIsNothing DEF Core, Starting, Quiet, Account
  <2>. QED
    BY <1>1, <2>1, <2>2, <2>3 DEF Core, Tokened, Picking, Known
<1>3. CASE timer /\ splash.stage = "asking"
  <2>1. Shown = "splash" /\ splash.token = "none"
    BY <1>3 DEF Core, Starting
  <2>2. signingIn = "none" /\ request = "none" /\ ~(otp.verifying > 0)
    BY <2>1 DEF Core, Waiting, Fields
  <2>. QED
    BY <1>1, <1>3, <2>1, <2>2 DEF Core, Quiet, Tokened, Account, Transit
<1>. QED
  BY <1>2, <1>3

(* Starting, being killed, and being started again. *)
LEMMA StartSteps ==
    ASSUME Prompt, Inv, Granted \/ Timeout \/ Initialized \/ Kill
    PROVE  Layered' /\ Core' /\ Claims'
<1>. USE NoneIsNothing, RoutesOf DEF Inv, Places, prefs, start, calls, account, backend, history
<1>1. CASE Granted
  <2>1. Shown' = Shown /\ NoExpired' = NoExpired /\ Layered'
    BY <1>1, SameStack DEF Granted
  <2>2. /\ UNCHANGED <<prefs, timer, signingIn, chosen, call, asked, account, backend, kills, history>>
        /\ splash.stage = "asking"
        /\ splash'.stage = "delay" /\ splash'.token = token
        /\ splash'.vendor = vendor /\ splash'.mounted = timer
    BY <1>1 DEF Granted, OnlyStart
  <2>3. timer => Shown = "splash" /\ call = "none"
    BY <2>2 DEF Core, Starting, Quiet, Account
  <2>. QED
    BY <2>1, <2>2, <2>3 DEF Core, Claims, Quiet, Waiting, Starting, Transit, Picking, Tokened, Known,
       SignedInToShop, SettingsOfVendor, Fields
<1>2. CASE Timeout
  <2>1. /\ Navigate /\ timer /\ timer' = FALSE
        /\ UNCHANGED <<prefs, signingIn, call, asked, account, backend, kills, history>>
    BY <1>2 DEF Timeout, OnlyStart
  <2>2. /\ splash'.token = splash.token /\ splash'.vendor = splash.vendor
        /\ splash'.mounted = splash.mounted /\ splash'.stage \in {splash.stage, "over"}
    BY <1>2 DEF Timeout, Fields, Splashes
  <2>3. Transit \/ splash.stage = "asking"
    BY <2>1 DEF Core, Starting, Transit, Fields, Splashes
  <2>4. /\ Layered' /\ (NoExpired => NoExpired')
        /\ Shown' \in {"welcome", "vendors", "shop"}
        /\ call = "none" /\ signingIn = "none" /\ request = "none" /\ ~(otp.verifying > 0)
        /\ Shown' = "welcome" => /\ \A s \in Shops : asked[s] = "idle"
                                 /\ token \in valid => NoExpired
        /\ Shown' \in {"vendors", "shop"} => Known
        /\ Shown' = "shop" => vendor # "none" /\ (settings = vendor \/ unsettled)
        /\ Transit => splash.token = token /\ splash.vendor = vendor
    BY <2>1, <2>3, Navigated
  <2>5. Quiet' /\ Waiting'
    BY <2>1, <2>4 DEF Quiet, Waiting, Account
  <2>6. Starting'
    <3>1. Transit /\ token = "none" => Shown' = "welcome"
      BY <2>1, <2>4, Replaced DEF Navigate
    <3>2. splash.stage = "asking" => splash.token = "none"
      BY DEF Core, Starting
    <3>. QED
      BY <2>1, <2>2, <2>3, <2>4, <3>1, <3>2 DEF Starting, Transit
  <2>7. Picking' /\ Tokened' /\ Claims'
    BY <2>1, <2>4 DEF Core, Picking, Tokened, Known, Claims, SignedInToShop, SettingsOfVendor, Account
  <2>. QED
    BY <2>4, <2>5, <2>6, <2>7 DEF Core
<1>3. CASE Initialized
  <2>1. /\ timer' = FALSE /\ splash'.stage = "over"
        /\ UNCHANGED <<prefs, signingIn, call, asked, account, backend, kills, history>>
    BY <1>3 DEF Initialized, OnlyStart, Fields, Splashes
  <2>2. CASE UNCHANGED stack
    <3>1. Shown' = Shown /\ NoExpired' = NoExpired /\ Layered'
      BY <2>2, SameStack
    <3>. QED
      BY <2>1, <3>1 DEF Core, Claims, Quiet, Waiting, Starting, Transit, Picking, Tokened, Known,
         SignedInToShop, SettingsOfVendor
  <2>3. CASE Transit /\ Navigate
    BY <2>1, <2>3, Navigated DEF Core, Claims, Quiet, Waiting, Starting, Transit, Picking, Tokened,
       Known, SignedInToShop, SettingsOfVendor, Account
  <2>. QED
    BY <1>3, <2>2, <2>3 DEF Initialized, Transit
<1>4. CASE Kill
  <2>1. Layered' /\ Shown' = "splash" /\ NoExpired'
    BY <1>4, Alone DEF Kill, Opener
  <2>2. /\ splash'.stage = "asking" /\ splash'.token = "none" /\ splash'.mounted = TRUE
        /\ timer' = TRUE /\ signingIn' = "none" /\ call' = "none"
        /\ \A s \in Shops : asked'[s] = "idle"
        /\ request' = "none" /\ otp' = NoCalls
        /\ unsettled' = (unsettled \/ call # "none")
        /\ UNCHANGED <<prefs, backend, signedIn, exposed>>
    BY <1>4 DEF Kill, Abandoned
  <2>3. vendor # "none" => settings = vendor \/ unsettled'
    BY <2>2 DEF Core, Picking
  <2>4. token # "none" => signedIn \/ exposed
    BY DEF Core, Tokened
  <2>. QED
    BY <2>1, <2>2, <2>3, <2>4 DEF Core, Claims, Quiet, Waiting, Starting, Transit, Picking, Tokened, Known,
       SignedInToShop, SettingsOfVendor, Account
<1>. QED
  BY <1>1, <1>2, <1>3, <1>4

(* The barrier of the OTP screen is up while a code is verified, and comes  *)
(* down with the only call there is.                                        *)
LEMMA CallingKept ==
    ASSUME Fields, Calling, [Next]_vars
    PROVE  Calling'
<1>. USE DEF Calling
<1>1. /\ otp.verifying \in Nat /\ otp.resending \in Nat
      /\ otp.isLoading \in BOOLEAN /\ otp.calm \in BOOLEAN
  BY DEF Fields, OtpCalls
<1>2. CASE otp' = otp
  BY <1>2
<1>3. CASE otp' = NoCalls
  BY <1>3 DEF NoCalls
<1>4. CASE Verify
  <2>1. /\ otp'.verifying = otp.verifying + 1 /\ otp'.resending = otp.resending
        /\ otp'.isLoading = TRUE /\ ~otp.isLoading /\ otp'.calm = Calm
    BY <1>4 DEF Verify, OtpTapped, Fields, OtpCalls
  <2>. QED
    BY <1>1, <2>1 DEF Calm
<1>5. CASE Resend
  <2>1. /\ otp'.verifying = otp.verifying /\ otp'.resending = otp.resending + 1
        /\ ~otp.isLoading /\ otp'.calm = otp.calm
    BY <1>5 DEF Resend, OtpTapped, Fields, OtpCalls
  <2>. QED
    BY <1>1, <2>1
<1>6. CASE Verified \/ VerifyFails
  <2>1. /\ otp.verifying > 0
        /\ otp' = NoCalls \/ otp' = [otp EXCEPT !.verifying = otp.verifying - 1, !.isLoading = FALSE]
    BY <1>6 DEF Verified, VerifyFails
  <2>2. CASE otp' # NoCalls
    <3>1. otp'.verifying = otp.verifying - 1 /\ otp'.calm = otp.calm
      BY <2>1, <2>2 DEF Fields, OtpCalls
    <3>. QED
      BY <1>1, <2>1, <3>1
  <2>. QED
    BY <1>3, <2>2
<1>7. ASSUME NEW offered \in {FALSE, otp.resendOtp}, Resent(offered) PROVE Calling'
  <2>1. /\ otp'.verifying = otp.verifying /\ otp'.resending = otp.resending - 1
        /\ otp.resending > 0 /\ otp'.calm = otp.calm
    BY <1>7 DEF Resent, Fields, OtpCalls
  <2>. QED
    BY <1>1, <2>1
<1>8. CASE CountdownEnds
  <2>1. /\ otp'.verifying = otp.verifying /\ otp'.resending = otp.resending
        /\ otp'.isLoading = otp.isLoading /\ otp'.calm = otp.calm
    BY <1>8 DEF CountdownEnds, Fields, OtpCalls
  <2>. QED
    BY <2>1
<1>9. ASSUME Customer, ~Verify, ~Resend PROVE otp' = otp \/ otp' = NoCalls
  BY <1>9 DEF Customer, GetStarted, ForgotPassword, BackToLogin, BackFromForgot, SignIn, Logout,
     CreateAccount, DeleteAccount, LoginAgain, SignUpLink, HaveAccount, RegisterBack, SignUp, OtpBack,
     RequestCode, EnterCode, CodeBack, SubmitPassword, NewPasswordBack, PickVendor, ChangeLocation,
     Home, OnlyRoute, Abandoned, account
<1>10. ASSUME Answers, ~Verified, ~VerifyFails, ~CountdownEnds,
              ~\E offered \in {FALSE, otp.resendOtp} : Resent(offered)
       PROVE  otp' = otp \/ otp' = NoCalls
  BY <1>10 DEF Answers, SignedIn, Expire, SignInFails, SettingsAnswered, SettingsFail, SignedUp,
     RequestFails, CodeSent, PasswordReset, Ask, Refused, Served, Break, OnlyAsked, Abandoned, account
<1>11. ASSUME Granted \/ Timeout \/ Initialized \/ Kill \/ UNCHANGED vars
       PROVE  otp' = otp \/ otp' = NoCalls
  BY <1>11 DEF Granted, Timeout, Initialized, Kill, OnlyStart, Abandoned, account, vars
<1>. QED
  BY <1>2, <1>3, <1>4, <1>5, <1>6, <1>7, <1>8, <1>9, <1>10, <1>11 DEF Next

LEMMA InvStep == ASSUME Prompt, Inv, [Next]_vars PROVE Inv'
<1>1. StackType' /\ Fields'
  BY NextMoves, MovedType, NextFields DEF Inv
<1>2. Calling'
  BY CallingKept DEF Inv
<1>3. ASSUME Customer PROVE Layered' /\ Core' /\ Claims'
  BY <1>3, RouteSteps, SignInSteps, AccountSteps, OtpSteps, ClearSteps, VendorSteps DEF Customer
<1>4. ASSUME Answers PROVE Layered' /\ Core' /\ Claims'
  BY <1>4, SignInSteps, AccountSteps, OtpSteps, ClearSteps, VendorSteps, ShopSteps DEF Answers
<1>5. ASSUME UNCHANGED vars PROVE Layered' /\ Core' /\ Claims'
  <2>1. Shown' = Shown /\ NoExpired' = NoExpired /\ Layered'
    BY <1>5, SameStack DEF vars, Inv
  <2>. QED
    BY <1>5, <2>1 DEF vars, prefs, start, calls, account, backend, history, Inv, Core, Claims, Quiet,
       Waiting, Starting, Transit, Picking, Tokened, Known, SignedInToShop, SettingsOfVendor
<1>6. Layered' /\ Core' /\ Claims'
  BY <1>3, <1>4, <1>5, StartSteps DEF Next
<1>. QED
  BY <1>1, <1>2, <1>6 DEF Inv

LEMMA InvInit == Init => Inv
<1>. SUFFICES ASSUME Init PROVE Inv
  OBVIOUS
<1>1. StackType /\ Fields
  BY InitType
<1>2. Len(stack) = 1 /\ stack[1].at = "splash" /\ Shown = "splash"
  BY RoutesOf DEF Init, Shown, Last, Places
<1>3. Layered /\ NoExpired
  BY <1>2 DEF Layered, NoExpired, Opener
<1>4. otp.verifying = 0 /\ otp.resending = 0
  BY DEF Init, NoCalls
<1>5. splash.stage = "asking" /\ splash.token = "none"
  BY DEF Init
<1>6. Core /\ Claims
  BY <1>2, <1>3, <1>4, <1>5 DEF Init, Core, Claims, Quiet, Waiting, Starting, Transit, Picking,
     Tokened, Known, SignedInToShop, SettingsOfVendor
<1>. QED
  BY <1>1, <1>3, <1>4, <1>6 DEF Inv, Calling

LEMMA InvAlways == ASSUME Prompt PROVE Spec => []Inv
<1>1. Init => Inv
  BY InvInit
<1>2. Inv /\ [Next]_vars => Inv'
  BY InvStep
<1>. QED
  BY <1>1, <1>2, PTL DEF Spec

-----------------------------------------------------------------------------

(* Through restarts, late answers, expired sessions and however many routes *)
(* were left on the stack, only who is signed in is shown vendors and shop. *)
THEOREM ShopIsSignedIn == ASSUME Prompt PROVE Spec => []SignedInToShop
<1>1. Inv => SignedInToShop
  BY DEF Inv, Claims
<1>. QED
  BY <1>1, InvAlways, PTL

(* The shop shown has a vendor, and that vendor's settings.                 *)
THEOREM ShopIsSettled == ASSUME Prompt PROVE Spec => []SettingsOfVendor
<1>1. Inv => SettingsOfVendor
  BY DEF Inv, Claims
<1>. QED
  BY <1>1, InvAlways, PTL

(* A verification begun when no call was on its way stays the only one     *)
(* until it is answered (otpVerifyScreen.dart:276-350), whatever is tapped. *)
THEOREM CodesOneAtATime == Spec => []OneCodeCall
<1>1. Init => Fields /\ Calling
  BY InitType DEF Init, Calling, NoCalls
<1>2. Fields /\ Calling /\ [Next]_vars => Fields' /\ Calling'
  BY NextFields, CallingKept
<1>3. Calling => OneCodeCall
  BY DEF Calling, OneCodeCall
<1>. QED
  BY <1>1, <1>2, <1>3, PTL DEF Spec

(* The dialog of an expired session ends no session the backend accepts.    *)
THEOREM DialogEndsNone == ASSUME Prompt PROVE Spec => SessionsKept
<1>1. Inv /\ [Next]_vars => [Shown = "expired" /\ token' = "none" => token \notin valid]_vars
  BY DEF Inv, Core, Tokened
<1>. QED
  BY <1>1, InvAlways, PTL DEF Spec, SessionsKept
===============================================================================
