-------------------------------- MODULE Session --------------------------------
(***************************************************************************)
(* The session: the token, the vendor and the vendor's settings that the   *)
(* preferences keep, and the stack of routes over them, from the splash    *)
(* screen to registering with a one-time password, a forgotten password,   *)
(* signing in, picking a vendor, the shop (BottomNavigation and what it    *)
(* opens), the dialog of an expired session and signing out.               *)
(*                                                                         *)
(* Calls outlive the screens that made them, a covered screen still        *)
(* answers, and pushReplacement replaces whatever route is on top by then. *)
(***************************************************************************)
EXTENDS Naturals, Sequences, FiniteSets, SequencesExt

CONSTANTS
    Vendors,
    Tokens,     \* the tokens the backend may hand out
    Shops,      \* bound: BottomNavigation routes in use at once
    MaxDepth,   \* bound: routes on the stack
    MaxKills,   \* bound: how often the app is killed
    MaxCalls,   \* bound: verifications, and codes sent again, on their way at once
    Prompt      \* the customer is slower than the servers

ASSUME SessionAssumption ==
    /\ "none" \notin Vendors \union Tokens \union Shops
    /\ {"idle", "null"} \cap Tokens = {}
    /\ MaxDepth \in Nat \ {0} /\ MaxKills \in Nat /\ MaxCalls \in Nat
    /\ Prompt \in BOOLEAN

VARIABLES
    token, vendor, settings,  \* the preferences, "none" without one; the token
                              \* of an answer that has none is the word null
    stack,      \* the routes, the one shown last
    splash,     \* the splash screen's initialisation
    timer,      \* its timeout of ten seconds is to come
    signingIn,  \* the screen whose sign-in is on its way, under its barrier
    chosen,     \* selectedLocality of the vendor list
    call,       \* the vendor whose settings are being fetched
    asked,      \* the token each shop's request was sent with
    request,    \* what a registration or a forgotten password waits for
    otp,        \* the OTP screen: its calls, its barrier, "resend" offered, and
                \* calm: no call was on its way when the verification began
    valid,      \* the tokens the backend accepts
    given,      \* the tokens it has handed out
    kills,
    signedIn,   \* the customer has signed in, and neither out nor been told to
    unsettled,  \* fetching the settings of the vendor was cut short
    exposed     \* a way back without a login has been taken (see BackFromForgot,
                \* DeleteAccount) and neither a login nor a sign-out came since

prefs   == <<token, vendor, settings>>
start   == <<splash, timer>>
calls   == <<signingIn, chosen, call, asked>>
account == <<request, otp>>
backend == <<valid, given>>
history == <<signedIn, unsettled, exposed>>
vars == <<prefs, stack, start, calls, account, backend, kills, history>>

Places == {"splash", "welcome", "login", "register", "otp", "forgot", "code",
           "newPassword", "vendors", "shop", "expired"}
Routes == [at: Places, id: Shops \union {"none"}]
At(place) == [at |-> place, id |-> "none"]
Shop(s)   == [at |-> "shop", id |-> s]

Shown == Last(stack).at
Mounted(r) == \E i \in DOMAIN stack : stack[i] = r

(* Navigator.pushNamed, pushReplacementNamed and pushNamedAndRemoveUntil.  *)
Push(r)    == Len(stack) < MaxDepth /\ stack' = Append(stack, r)
Replace(r) == stack' = Append(Front(stack), r)
Only(r)    == stack' = <<r>>

(* Navigator.pop, once or, when a delayed pop was asked for twice, again.  *)
Pop(n) == Len(stack) > n /\ stack' = SubSeq(stack, 1, Len(stack) - n)

(* The state of an OTP screen just opened, and of none. *)
NoCalls == [verifying |-> 0, resending |-> 0, isLoading |-> FALSE, resendOtp |-> FALSE,
            calm |-> FALSE]

(* What the preferences keep as the token. *)
Stored == Tokens \union {"none", "null"}

(* A route that is not on the stack and waits for nothing. *)
Free(s) == ~Mounted(Shop(s)) /\ asked[s] = "idle"

Init ==
    /\ token = "none" /\ vendor = "none" /\ settings = "none"
    /\ stack = <<At("splash")>>
    /\ splash = [stage |-> "asking", token |-> "none", vendor |-> "none", mounted |-> TRUE]
    /\ timer = TRUE
    /\ signingIn = "none" /\ chosen = "none" /\ call = "none"
    /\ asked = [s \in Shops |-> "idle"]
    /\ request = "none" /\ otp = NoCalls
    /\ valid = {} /\ given = {}
    /\ kills = 0
    /\ signedIn = FALSE /\ unsettled = FALSE /\ exposed = FALSE

-----------------------------------------------------------------------------
(* The splash screen.                                                      *)

(* _navigate with what has been read by now. *)
Navigate ==
    IF splash.token = "none" THEN Replace(At("welcome"))
    ELSE IF splash.vendor = "none" THEN Replace(At("vendors"))
    ELSE \E s \in Shops : Free(s) /\ Replace(Shop(s))

OnlyStart == UNCHANGED <<prefs, signingIn, call, asked, account, backend, kills, history>>

(* mutant: a vendor that is not stored is read as the word null *)
GrantedNull ==
    /\ splash.stage = "asking"
    /\ splash' = [stage |-> "delay", token |-> token, mounted |-> timer,
                  vendor |-> IF vendor = "none" THEN "null" ELSE vendor]
    /\ UNCHANGED <<stack, timer, chosen>> /\ OnlyStart

(* The permission is answered and the preferences are read; four seconds   *)
(* of delay outlast the transition of a timeout that came first.           *)
Granted ==
    /\ splash.stage = "asking"
    /\ splash' = [stage |-> "delay", token |-> token, vendor |-> vendor, mounted |-> timer]
    /\ UNCHANGED <<stack, timer, chosen>> /\ OnlyStart

(* mutant: when the time is over the initialisation is begun anew *)
TimeoutRetries ==
    /\ timer /\ timer' = TRUE
    /\ splash' = [splash EXCEPT !.stage = "asking"]
    /\ UNCHANGED <<stack, chosen>> /\ OnlyStart

(* _initializeApp takes too long or throws. *)
Timeout ==
    /\ timer /\ timer' = FALSE
    /\ Navigate
    /\ chosen' = "none"
    /\ \E stage \in {splash.stage, "over"} : splash' = [splash EXCEPT !.stage = stage]
    /\ OnlyStart

(* The delay is over.  A screen that is gone by then throws; one that a    *)
(* timeout is just replacing navigates again.                              *)
Initialized ==
    /\ splash.stage = "delay"
    /\ splash' = [splash EXCEPT !.stage = "over"]
    /\ timer' = FALSE
    /\ \/ splash.mounted /\ Navigate /\ chosen' = "none"
       \/ ~timer /\ UNCHANGED <<stack, chosen>>
    /\ OnlyStart

-----------------------------------------------------------------------------
(* Signing in and out.                                                     *)

(* A transition of the splash screen is shorter than any act of a person.  *)
MayAct == splash.stage = "delay" => ~splash.mounted

(* The customer who is slower than the servers has had all the answers.    *)
Settled ==
    /\ MayAct
    /\ Prompt => call = "none" /\ request = "none" /\ \A s \in Shops : asked[s] = "idle"

OnlyRoute == UNCHANGED <<prefs, start, calls, account, backend, kills, history>>

GetStarted ==
    /\ MayAct /\ Shown = "welcome"
    /\ Replace(At("login"))
    /\ OnlyRoute

ForgotPassword ==
    /\ MayAct /\ Shown \in {"welcome", "login"} /\ signingIn = "none"
    /\ Replace(At("forgot"))
    /\ OnlyRoute

(* The loader of the request covers the button, but not the app bar.       *)
BackToLogin ==
    /\ Shown = "forgot" /\ request = "none"
    /\ Replace(At("login"))
    /\ OnlyRoute

(* The app bar's arrow, which is there when there is a route below: the    *)
(* shop that LoginAgain or CreateAccount left.                             *)
BackFromForgot ==
    /\ Shown = "forgot" /\ Pop(1)
    /\ request' = "none"
    /\ exposed' = TRUE
    /\ UNCHANGED <<prefs, start, calls, otp, backend, kills, signedIn, unsettled>>

SignIn ==
    /\ Settled /\ Shown \in {"login", "register"} /\ signingIn = "none"
    /\ signingIn' = Shown
    /\ UNCHANGED <<prefs, stack, start, chosen, call, asked, account, backend, kills, history>>

(* getSignInResponse; "null" is what it saves of an answer without a token. *)
SignedIn(t) ==
    /\ signingIn # "none" /\ Mounted(At(signingIn))
    /\ t \in (Tokens \ given) \union {"null"}
    /\ given' = given \union ({t} \ {"null"}) /\ valid' = valid \union ({t} \ {"null"})
    /\ token' = t
    /\ signingIn' = "none" /\ chosen' = "none"
    /\ signedIn' = TRUE /\ exposed' = FALSE
    /\ Replace(At("vendors"))
    /\ UNCHANGED <<vendor, settings, start, call, asked, account, kills, unsettled>>

SignInFails ==
    /\ signingIn # "none"
    /\ signingIn' = "none"
    /\ UNCHANGED <<prefs, stack, start, chosen, call, asked, account, backend, kills, history>>

(* clearAllSharedPreferences keeps the settings of the vendor. *)
Cleared ==
    /\ token' = "none" /\ vendor' = "none"
    /\ signedIn' = FALSE /\ exposed' = FALSE
    /\ UNCHANGED <<settings, start, calls, backend, kills, unsettled>>

(* What awaits an answer finds its screen gone. *)
Abandoned == request' = "none" /\ otp' = NoCalls

(* Logout on the profile. *)
Logout ==
    /\ Settled /\ Shown = "shop"
    /\ Cleared /\ Only(At("login")) /\ Abandoned

(* A guest who is to create an account leaves the cart for RegisterScreen. *)
CreateAccount ==
    /\ Settled /\ Shown = "shop"
    /\ Cleared /\ Push(At("register")) /\ UNCHANGED account

(* clearAllSharedPreferencesForLogout keeps the token. *)
DeleteAccount ==
    /\ Settled /\ Shown = "shop"
    /\ vendor' = "none"
    /\ valid' = valid \ {token}
    /\ signedIn' = FALSE /\ exposed' = TRUE
    /\ Only(At("login")) /\ Abandoned
    /\ UNCHANGED <<token, settings, start, calls, given, kills, unsettled>>

(* mutant: the dialog's button closes the dialog *)
LoginAgainPops ==
    /\ Settled /\ Shown = "expired"
    /\ Cleared /\ Pop(1) /\ UNCHANGED account

(* SessionExpiredDialog's button replaces the dialog, not what is below. *)
LoginAgain ==
    /\ Settled /\ Shown = "expired"
    /\ Cleared /\ Replace(At("login")) /\ UNCHANGED account

-----------------------------------------------------------------------------
(* Registering, and a forgotten password.                                  *)

OnlyAccount == UNCHANGED <<prefs, start, calls, backend, kills, history>>

(* An answer is to come, and the screen that awaits it is there. *)
Awaits(what, place) == request = what /\ Mounted(At(place))

SignUpLink ==
    /\ MayAct /\ Shown = "login" /\ signingIn = "none"
    /\ Replace(At("register"))
    /\ OnlyRoute

(* "Have an account?" covers the registration with the login screen. *)
HaveAccount ==
    /\ Shown = "register" /\ request # "signUp" /\ signingIn # "register"
    /\ Push(At("login"))
    /\ OnlyRoute

(* Back replaces the registration, the barrier of a request notwithstanding. *)
RegisterBack ==
    /\ Shown = "register"
    /\ Replace(At("login"))
    /\ request' = IF request = "signUp" THEN "none" ELSE request
    /\ signingIn' = IF signingIn = "register" THEN "none" ELSE signingIn
    /\ UNCHANGED <<prefs, start, chosen, call, asked, otp, backend, kills, history>>

(* One OTP screen and one request at a time are modelled. *)
SignUp ==
    /\ Shown = "register" /\ signingIn # "register"
    /\ request = "none" /\ ~Mounted(At("otp"))
    /\ request' = "signUp"
    /\ UNCHANGED <<stack, otp>> /\ OnlyAccount

SignedUp ==
    /\ Awaits("signUp", "register")
    /\ Push(At("otp"))
    /\ request' = "none" /\ otp' = NoCalls
    /\ OnlyAccount

(* An error, or no network. *)
RequestFails ==
    /\ request # "none"
    /\ request' = "none"
    /\ UNCHANGED <<stack, otp>> /\ OnlyAccount

OnlyOtp == UNCHANGED <<stack, request>> /\ OnlyAccount

(* The count-down ends: "resend" is offered. *)
CountdownEnds ==
    /\ Mounted(At("otp")) /\ ~otp.resendOtp
    /\ otp' = [otp EXCEPT !.resendOtp = TRUE]
    /\ OnlyOtp

(* The screen takes taps. *)
OtpTapped == Shown = "otp" /\ ~otp.isLoading

(* Nothing else is on its way when a verification begins. *)
Calm == IF otp.verifying = 0 THEN otp.resending = 0 ELSE otp.calm

(* mutant: the barrier is raised after the network check *)
VerifyUncovered ==
    /\ OtpTapped /\ otp.verifying < MaxCalls
    /\ otp' = [otp EXCEPT !.verifying = @ + 1, !.calm = Calm]
    /\ OnlyOtp

Verify ==
    /\ OtpTapped /\ otp.verifying < MaxCalls
    /\ otp' = [otp EXCEPT !.verifying = @ + 1, !.isLoading = TRUE, !.calm = Calm]
    /\ OnlyOtp

(* getOtpResponseDataWidget replaces whatever is on top by the login screen. *)
Verified ==
    /\ otp.verifying > 0
    /\ Replace(At("login"))
    /\ otp' = IF Shown = "otp" THEN NoCalls
              ELSE [otp EXCEPT !.verifying = @ - 1, !.isLoading = FALSE]
    /\ UNCHANGED request /\ OnlyAccount

VerifyFails ==
    /\ otp.verifying > 0
    /\ otp' = [otp EXCEPT !.verifying = @ - 1, !.isLoading = FALSE]
    /\ OnlyOtp

(* Sending the code again raises no barrier ... *)
Resend ==
    /\ OtpTapped /\ otp.resendOtp /\ otp.resending < MaxCalls
    /\ otp' = [otp EXCEPT !.resending = @ + 1]
    /\ OnlyOtp

(* ... but its answer lowers it, whoever raised it: getResendOtpResponse.  *)
Resent(offered) ==
    /\ otp.resending > 0
    /\ otp' = [otp EXCEPT !.resending = @ - 1, !.isLoading = FALSE, !.resendOtp = offered]
    /\ OnlyOtp

OtpBack ==
    /\ Shown = "otp" /\ Pop(1)
    /\ otp' = NoCalls
    /\ UNCHANGED request /\ OnlyAccount

(* _onResetPasswordPressed *)
RequestCode ==
    /\ MayAct /\ Shown = "forgot" /\ request = "none"
    /\ request' = "code"
    /\ UNCHANGED <<stack, otp>> /\ OnlyAccount

(* The push comes 150 ms after the answer; no tap falls between.           *)
CodeSent ==
    /\ Awaits("code", "forgot")
    /\ Push(At("code"))
    /\ request' = "none"
    /\ UNCHANGED otp /\ OnlyAccount

EnterCode == Shown = "code" /\ Push(At("newPassword")) /\ OnlyRoute
CodeBack  == Shown = "code" /\ Pop(1) /\ OnlyRoute

SubmitPassword ==
    /\ Shown = "newPassword" /\ request = "none"
    /\ request' = "password"
    /\ UNCHANGED <<stack, otp>> /\ OnlyAccount

(* The arrow pops 150 ms later, and again if it was tapped again; during   *)
(* the request only the system's back is there.                            *)
NewPasswordBack ==
    /\ Shown = "newPassword"
    /\ Pop(1) \/ (request # "password" /\ Pop(2))
    /\ request' = IF request = "password" THEN "none" ELSE request
    /\ UNCHANGED otp /\ OnlyAccount

(* verifyOtpResponse *)
PasswordReset ==
    /\ Awaits("password", "newPassword")
    /\ Cleared /\ Only(At("login")) /\ Abandoned

-----------------------------------------------------------------------------
(* The vendor and the shop.                                                *)

(* A tap on a vendor selects it, or unselects what is selected; an offline *)
(* vendor is taken either way.                                             *)
PickVendor(v, status) ==
    /\ MayAct /\ Shown = "vendors" /\ call = "none"
    /\ chosen' = IF chosen = "none" THEN v ELSE "none"
    /\ IF status = "online" /\ chosen' = "none"
         THEN UNCHANGED <<vendor, call, unsettled>>
         ELSE vendor' = v /\ call' = v /\ unsettled' = FALSE
    /\ UNCHANGED <<token, settings, stack, start, signingIn, asked, account, backend, kills, signedIn, exposed>>

(* mutant: the settings are not kept *)
SettingsUnsaved ==
    /\ call # "none" /\ Mounted(At("vendors"))
    /\ call' = "none"
    /\ \E s \in Shops : Free(s) /\ Replace(Shop(s))
    /\ UNCHANGED <<prefs, start, signingIn, chosen, asked, account, backend, kills, history>>

(* getVendorStoreSettingData *)
SettingsAnswered ==
    /\ call # "none" /\ Mounted(At("vendors"))
    /\ settings' = call
    /\ call' = "none"
    /\ \E s \in Shops : Free(s) /\ Replace(Shop(s))
    /\ UNCHANGED <<token, vendor, start, signingIn, chosen, asked, account, backend, kills, history>>

(* No network, an error, or nobody there to be answered. *)
SettingsFail ==
    /\ call # "none"
    /\ call' = "none"
    /\ unsettled' = TRUE
    /\ UNCHANGED <<prefs, stack, start, signingIn, chosen, asked, account, backend, kills, signedIn, exposed>>

(* The location on the home screen. *)
ChangeLocation ==
    /\ MayAct /\ Shown = "shop"
    /\ vendor' = "none"
    /\ chosen' = "none"
    /\ Push(At("vendors"))
    /\ UNCHANGED <<token, settings, start, signingIn, call, asked, account, backend, kills, history>>

(* Back from the cart, the menu, the profile or the orders: a new shop. *)
Home(s) ==
    /\ MayAct /\ Shown = "shop" /\ Free(s)
    /\ Push(Shop(s)) \/ Replace(Shop(s))
    /\ OnlyRoute

OnlyAsked == UNCHANGED <<prefs, start, signingIn, chosen, call, account, backend, kills, history>>

(* A request, such as the store status, with the token stored now. *)
Ask(s) ==
    /\ Last(stack) = Shop(s) /\ asked[s] = "idle"
    /\ asked' = [asked EXCEPT ![s] = token]
    /\ UNCHANGED stack /\ OnlyAsked

Answered(s) == asked[s] # "idle" /\ asked' = [asked EXCEPT ![s] = "idle"]

(* mutant: any error is taken for an expired session *)
RefusedAnyhow(s) ==
    /\ Answered(s)
    /\ Mounted(Shop(s))
    /\ Push(At("expired"))
    /\ OnlyAsked

(* The backend does not accept the token: the dialog, if the shop is there *)
Refused(s) ==
    /\ Answered(s)
    /\ asked[s] \notin valid
    /\ Mounted(Shop(s))
    /\ Push(At("expired"))
    /\ OnlyAsked

(* Any other answer, or one that finds its screen gone. *)
Served(s) ==
    /\ Answered(s)
    /\ asked[s] \in valid \/ ~Mounted(Shop(s))
    /\ UNCHANGED stack /\ OnlyAsked

(* The connection breaks. *)
Break(s) ==
    /\ Answered(s)
    /\ UNCHANGED stack /\ OnlyAsked

Expire(t) ==
    /\ t \in valid
    /\ valid' = valid \ {t}
    /\ UNCHANGED <<prefs, stack, start, calls, account, given, kills, history>>

(* The app is killed, or left with back, and started again. *)
Kill ==
    /\ kills < MaxKills
    /\ kills' = kills + 1
    /\ Only(At("splash"))
    /\ splash' = [stage |-> "asking", token |-> "none", vendor |-> "none", mounted |-> TRUE]
    /\ timer' = TRUE
    /\ signingIn' = "none" /\ chosen' = "none" /\ call' = "none"
    /\ asked' = [s \in Shops |-> "idle"]
    /\ Abandoned
    /\ unsettled' = (unsettled \/ call # "none")
    /\ UNCHANGED <<prefs, backend, signedIn, exposed>>

-----------------------------------------------------------------------------
Customer ==
    \/ GetStarted \/ ForgotPassword \/ BackToLogin \/ BackFromForgot \/ SignIn
    \/ Logout \/ CreateAccount \/ DeleteAccount \/ LoginAgain
    \/ SignUpLink \/ HaveAccount \/ RegisterBack \/ SignUp \/ Verify \/ Resend \/ OtpBack
    \/ RequestCode \/ EnterCode \/ CodeBack \/ SubmitPassword \/ NewPasswordBack
    \/ \E v \in Vendors, status \in {"online", "offline"} : PickVendor(v, status)
    \/ ChangeLocation
    \/ \E s \in Shops : Home(s)

Answers ==
    \/ \E t \in Tokens \union {"null"} : SignedIn(t)
    \/ \E t \in Tokens : Expire(t)
    \/ SignInFails \/ SettingsAnswered \/ SettingsFail
    \/ SignedUp \/ RequestFails \/ CodeSent \/ PasswordReset
    \/ Verified \/ VerifyFails \/ CountdownEnds
    \/ \E offered \in {FALSE, otp.resendOtp} : Resent(offered)
    \/ \E s \in Shops : Ask(s) \/ Refused(s) \/ Served(s) \/ Break(s)

Next == Granted \/ Timeout \/ Initialized \/ Customer \/ Answers \/ Kill

Spec == Init /\ [][Next]_vars

(* The timer is Dart's own and rings. *)
FairSpec == Spec /\ WF_vars(Timeout)

-----------------------------------------------------------------------------
(* Properties.                                                             *)

(* The preferences, the routes and the calls hold what they may. *)
TypeOK ==
    /\ token \in Stored
    /\ vendor \in Vendors \union {"none"} /\ settings \in Vendors \union {"none"}
    /\ stack \in Seq(Routes) /\ Len(stack) \in 1 .. MaxDepth
    /\ splash \in [stage: {"asking", "delay", "over"}, token: Stored,
                   vendor: Vendors \union {"none"}, mounted: BOOLEAN]
    /\ timer \in BOOLEAN /\ signingIn \in {"none", "login", "register"}
    /\ request \in {"none", "signUp", "code", "password"}
    /\ otp \in [verifying: 0 .. MaxCalls, resending: 0 .. MaxCalls,
                isLoading: BOOLEAN, resendOtp: BOOLEAN, calm: BOOLEAN]
    /\ chosen \in Vendors \union {"none"} /\ call \in Vendors \union {"none"}
    /\ asked \in [Shops -> Stored \union {"idle"}]
    /\ valid \subseteq given /\ given \subseteq Tokens
    /\ kills \in 0 .. MaxKills
    /\ {signedIn, unsettled, exposed} \subseteq BOOLEAN

(* The shop and the vendors are shown to a customer who is signed in,      *)
(* through restarts, expired sessions and routes left on the stack; but    *)
(* for the two ways back without a login that the code leaves, the arrow   *)
(* of the forgotten password and the token of a deleted account.           *)
SignedInToShop ==
    Shown \in {"shop", "vendors"} => (signedIn /\ token # "none") \/ exposed

(* The shop shown has a vendor, and the settings its taxes and prices are  *)
(* computed from are that vendor's unless fetching them was cut short; the *)
(* ways back of SignedInToShop apart.                                      *)
SettingsOfVendor ==
    Shown = "shop" => (vendor # "none" /\ (settings = vendor \/ unsettled)) \/ exposed

(* The dialog of an expired session never ends a session the backend       *)
(* would still accept, such as one begun after the refused request.        *)
SessionsKept ==
    [][Shown = "expired" /\ token' = "none" => token \notin valid]_vars

(* "Block interaction" (otpVerifyScreen.dart:344): a verification begun when *)
(* no call was on its way stays the only one until it is answered.  Begun   *)
(* while a code is being sent again it may be joined by others, for the     *)
(* answer of that call lowers its barrier.                                  *)
OneCodeCall ==
    otp.calm /\ otp.verifying > 0 => otp.verifying = 1 /\ otp.resending = 0

(* The splash screen is left, whether or not the permission is answered.   *)
SplashLeft == Shown = "splash" ~> Shown # "splash"
=============================================================================
