# TheChaatBar: a verification project

TheChaatBar is a Flutter client for ordering food for pick-up. The program is `lib/`; `ios/Pods`
is vendored, `android/` and `ios/Runner` are generated shells. The repository has no tests and its
README describes only the MVVM layering, so the reference of every definition here is the code.

## 1. Inventory

Everything runs on one Dart isolate: code between two `await`s is atomic, and what makes the
program hard is what can happen *at* an await. A customer taps, answers arrive, other coroutines
run, a screen is disposed, the phone is killed.

| part | source | state it keeps | operations | what makes it correct |
|---|---|---|---|---|
| Payment screens | `paymentCardScreen.dart`, `paymentSuccessfulScreen.dart` | `isLoading`, the suspended attempt, the routes on the stack | validate, Apple Pay, token, charge, report, leave, success | nobody is charged twice at once, the backend and the customer are told what happened, the screen does not stay covered |
| Checkout (cart screen) | `cartScreen.dart` | `cartList`, `totalPrice`, `grandTotal`, coupon, `isLoading`, `isStoreOnline` | quantity +/-, coupon apply/remove, store status, create order | the order says what the screen shows; one order per swipe |
| Cart table | `dao.dart`, and `addProductInDb`/`getSpecificCartProduct`/`deleteProductInDb` of the cart, menu, product and home screens | one row per product in SQLite | add, update, remove, clear, re-read | no lost update; one vendor per cart; the screens show the table |
| View model | `mainViewModel.dart`, `repository.dart`, `apiService.dart` | one `_apiResponse` for every request of every screen | some thirty request methods | each caller reads the answer to its own request |
| Menu cache | `menuScreen.dart`, `homeScreen.dart` | category and product tables, selected category | fetch, insert/update/delete rows, read back; two screens write the same menu | the list shown is of the selected category and of this vendor, what is stored is what was sent |
| Product detail: add-ons | `product_detail_screen.dart`, `cartScreen.dart` | `addOnList` with what is selected, `data.addOn`, the cart rows it read | open, load, preselect, choose, plus, minus | a row is charged for add-ons of its own menu, each once |
| Favourites | `menuScreen.dart`, `product_detail_screen.dart` | `isMarkFavResponseLoading`, the marked set | mark, unmark | the overlay comes down |
| Session and start | `splashScreen.dart`, `session_expired_dialog.dart`, `Helper.dart`, `loginScreen.dart`, `forgotPasswordScreen.dart` | token, profile, vendor in SharedPreferences | start, log in, expire, log out | one navigation at start; no stale vendor settings |
| Vendor and locality | `vendorsListScreen.dart`, `choose_locality_screen.dart`, `vendor_screen.dart` | selected vendor, its store settings | select, fetch settings | settings belong to the selected vendor |
| Registration, one-time passwords, forgotten password | `registerScreen.dart`, `otpVerifyScreen.dart`, `forgotPasswordScreen.dart`, `otp_forgot_pass_screen.dart`, `changePasswordScreen.dart` | barrier, count-down, the call on its way | register, verify, resend, ask for a code, change the password | a code is verified once at a time, and no late answer opens the shop |
| Database opening | `ChaatBarDatabase.dart`, `DatabaseHelper.dart`, generated `ChaatBarDatabase.g.dart` | the database object, its version | open, migrate | opened once, migrated |
| Orders and history | `activeOrdersScreen.dart`, `orderHistoryScreen.dart` | a list per kind of order, the page, the total, `isLoading`, `_isLoadingMore` | choose a kind, scroll, fetch a page | kinds are not mixed, no order is skipped or listed twice, paging goes on to the end |
| Profile, notifications, chat | `profile_screen.dart`, `edit_*`, `PushNotificationService.dart`, `cloud_firestore_service.dart` | copies of backend data | edit, subscribe | |
| Widgets, themes, strings, data classes | `view/component`, `theme`, `languageSection`, `model/request`, `model/response` | none | layout, JSON | |

The parts meet in four places: the navigator's stack of routes, the shared view model, the
database, and SharedPreferences.

- **Navigator.** `pushNamed` leaves the screen below alive: it still answers its own requests. A
  delayed `Navigator.pop` or `pushReplacement` takes whatever route is on top by then.
- **View model.** Each request method sets `_apiResponse` to LOADING, awaits the call and sets it to
  COMPLETED or ERROR; the screen reads it when its await ends. The two happen in one turn of the event
  loop, which is why the models take them as one step and give each caller its own answer.
- **Database.** sqflite runs operations one at a time in the order they were issued; the code awaits
  most reads and few writes.
- **SharedPreferences.** Token, profile, vendor and the vendor's store settings survive a kill; each is
  written and cleared by a different screen.

Hard behaviours, each listed with its line under `hazards` in `PROJECT.json`: coroutines that overlap
because a flag shared between them is lowered too early; answers that arrive on a screen that was left,
covered or replaced; un-awaited writes and reads made stale by them; broken connections, an app killed
between two requests; requests that are never answered, for `package:http` is called without a time-out;
exceptions that end a coroutine before it lowers the flag it raised; and the one timer of the program, the
ten seconds of the splash screen, racing the work it guards.

## 2. Modules

| module | models | state | checked by |
|---|---|---|---|
| `Payment` | payment and success screens, Clover and the backend as they see them | attempts at their awaits, overlays, routes, charges, reports, the cart to be cleared | `payment_*` |
| `OrderLedger` | what paying promises, abstractly | orders, charges, reports | `KeepsLedger` of `payment_cards` |
| `Checkout` | the cart screen as a check-out | the barrier, the coupon sheet, totals, orders sent and recorded | `checkout`, `checkout_barrier` |
| `CartTable` | the cart's rows and all that writes them | table, queue of operations, what the screen shows | `cart_*` |
| `MenuCache` | the menu screen, its two tables and favourites, and the home screen as their second writer | tables, queue, fetches, what is shown, the favourites' barrier | `menu_cache` |
| `Session` | start, registering, one-time and forgotten passwords, signing in and out, vendors, expired sessions | preferences, stack of routes, requests on their way | `session` |
| `OrderPages` | what a list of orders promises, abstractly | the lists | `KeepsPages` of `orders` |
| `Orders` | active orders and order history | lists, page, total, fetches under way | `orders` |
| `AddOns` | the product screen: what a product is ordered with | cart rows, queue, the categories offered and selected | `addons` |
| `PaymentProofs`, `CartTableProofs`, `CartShownProofs`, `CheckoutProofs`, `OrdersProofs`, `AddOnsProofs`, `SessionProofs`, `MenuCacheProofs` | theorems about the above | | |

The `MC*` modules only name model values and define the larger constants. Payment and Checkout are
composed by an interface: `Payment!PlaceOrder` and `OrderAnswered` are Checkout's order seen from
outside, and Checkout's `paying` is Payment's stack seen from outside. CartTable's "paid" screen is
Payment's success screen. MenuCache composes the menu screen with the home screen below it through one
database, Session the routes of every part through one stack. AddOns and CartTable are two views of the
same table: CartTable has the vendors, the two-for-one products, the badge and every screen that writes,
AddOns what is inside a row.

### Payment

An attempt is one tap on *Validate* or Apple Pay. `pc[a]` names the await it is suspended at
(connectivity, token, charge, report), `request[a]` what is on its way to a server and `reply[a]` what
came back, so a charge may be made though its answer is lost. `Send` ends the code that looks at the
screen; the service then waits 2 ms and for its headers, and `Post` sends the request whether the screen is
still there or not. `CallThrows` is the exception that leaves the `catch` of `getApiToken` and
`getFinalPaymentApi` (`substring(-1)` of an error without a JSON body) and ends the coroutine with the
overlay up (`thrown`); `CallFails` is the ordinary error. `HasContext` is Flutter's check that a disposed
screen has no provider: the attempt dies there. `confirmed` is history: the charges the app was told of.
`Faults` switches broken connections and kills on; after a kill nothing is left but the cart and what the
servers know.

Three simplifications. The success screen clears the cart within a few milliseconds, in which the customer
does not act (`CustomerActs`). A confirmed exit pops after 200 ms, in which nobody gets through the exit
dialog a second time or taps home; attempts, answers and the back gesture do happen in them. `GoHome`
empties the stack although the home screen is pushed over what is there: the routes below stay mounted, and
so do their attempts, but the back gesture of the home screen leaves the app instead of popping, so no
customer sees them again.

### Checkout

Store status, coupon list, each redeemed coupon and each order are coroutines that share `isLoading`: all
but the coupon list raise it, each lowers it when its own answer is there. Money is symbolic: an amount is
the quantity it was computed from and the coupon taken off, which is all that "adds up" needs. The
`getCartData` that `_createOrder` starts and does not await is a `pending` read, and the request is built
in the same turn of the event loop, so the read always ends after it: an order is made of what the screen
had. `PopTop` is `Navigator.pop` of whatever is on top: the sheet, a payment screen, or the cart screen
itself (`gone`). `Throws` is a coroutine that ends between its network check and its request, with the
barrier up: `int.parse` of the user id, which is the word "null" without a profile (`account`), or the first
line of an empty cart (`Computes`). Customers do as they like wherever no barrier, sheet or route covers the
screen. `alone`, `removed` and `misled` are history: the orders swiped while no call was on its way, and
those sent with a grand total computed before the coupon was forgotten (`RemoveCoupon`). One simplification:
reading the table and adding up takes milliseconds, in which the customer and the network wait (`Settled`).

### CartTable

A tap changes the screen and queues a look-up; the look-up's continuation queues the insert or the
update; a count or a re-read follows. `jobs` is that queue; a job of a screen that was left keeps
running but no longer shows (`live`). Menu, home and product screens have copies of the same functions
and are one screen. The evict loop of a product of another vendor is modelled row by row.

### MenuCache

A visit reads the stored categories and then fetches; an answer is written back by
`updateCategoriesDetails` and, per category, `updateProductsDetails`: a read is awaited, the writes
after it are not. The screen opened for a menu always has a category selected: the dashboard passes
`selectedCategoryId` when it opens it, so the reset to `categories[0]` for a screen without one is not
reached (the "See All" screen, which may have none, shows categories and no products, and is not
modelled). `then` continuations of different categories interleave. A favourite marked raises
`covered` and fetches again when answered. The home screen, which a visit lies on top of, fetches and
stores the same menu by the same steps and reads nothing back (`HomeAnswered`; `OnMenu` is what only the
menu screen goes on to do); both may be storing at once. `last`, `kept` and `reread` are history: what was
stored last without being cut short, which products did not change their category with it, and whether the
menu screen was among those that stored it.

### Session

`token`, `vendor`, `settings` are the preferences; `stack` the routes, of which only the last takes
taps. A shop (BottomNavigation and what it opens) is a route with an identity, for several may be
mounted at once and each has requests of its own on the way: `asked[s]` keeps the token one was sent
with. An answer to a sign-in may lack a token: the word "null" is stored then, with which the customer is
taken on to the vendors and which the backend refuses. `signedIn`, `unsettled` and `exposed` are history.

Registering pushes the OTP screen; verifying replaces *whatever is on top* by the login screen, also when
the OTP screen was left meanwhile and another one opened. `otp` keeps the calls of that screen: `Verify`
raises the barrier before the first await, `Resend` raises none, and the answer to either lowers it;
`calm` is history: whether no call was on its way when the verification began. The forgotten password goes
through two more routes and ends by clearing the preferences and the stack (`PasswordReset`); its arrow pops
after a delay, and twice when tapped twice.

### Orders

A fetch is one call of `_fetchData`: it waits for the network check and then for the backend, and nothing
covers the screen meanwhile, so fetches of different kinds and pages overlap. The two screens differ where
it matters: after the await OrderHistoryScreen asks for, and files the answer under, whatever is selected
*by then*; ActiveOrdersScreen keeps what the fetch was started with. Only the history clears a list when
its first page comes; only it compares with `total_rows`. `careful` is history: the customer chose nothing
while a fetch was under way and no page after the first was lost. `Trusted` maps the lists of such a
customer to `OrderPages`, in which a list is the first few orders the backend has and grows at its end.

### AddOns

The screen offers `addOnList`: the menu's whole list when it was opened from the menu, the chosen part of
it when it was opened from a row of the cart. Loading reads the cart, the menu category and the cart again;
each read preselects options by the last row of the cart, *whatever product that is*, and `updateQuantity`
appends the categories of every row of the menu category to the list. A plus saves what is selected
(`Selection`), a minus saves `addOn` as it stands, which after a choice is the whole list. `.first` of an
empty list throws and cuts a loop short (`Throws`, `RadioThrows`). Options are numbers, so that the first
of a list is the smallest.

## 3. Runs

| run | question | instance and why it is enough |
|---|---|---|
| `payment_cards` | Do card attempts keep apart, is a charge never repeated blindly, is only the ordered cart emptied, and is the ledger implemented? | two orders, two attempts on the first and one on the second: repeats on one screen, two screens on the stack; losses and kills |
| `payment_apple` | With Apple Pay mixed in, where attempts do overlap: is what is reported and shown still true, and is every overlay lowered that the app can lower? | one card and one Apple Pay attempt on one screen, a second payment screen beside it; losses and kills, hasty customers |
| `payment_overlay` (violated) | Does the overlay block a second attempt with Apple Pay? | one order, two attempts |
| `cart_hurried` | Do quantities stay within the limit and in pairs whatever the customer does? | three products of two vendors, one sold in pairs; up to three operations queued when they act |
| `cart_taps` | Is the badge right, the cart one vendor's, and the carefully tapped product shown as stored? | limit 2, two products tapped in a hurry, five operations |
| `cart_vendors` (violated) | Does adding a product of another vendor leave only that vendor's? | sessions that expire |
| `checkout` | Is an order what was swiped, does it add up, and is the barrier up only for a reason, whatever the customer does? | two swipes and two coupons; quantities up to 3 with 2 as the coupon's minimum and cap, both sides of each; a profile or none |
| `checkout_barrier` (violated) | Does the barrier keep a second order from being placed beside the first? | two swipes of one item, no coupons: the first two calls suffice |
| `menu_cache` | Is what is stored what was sent, and what is shown what is stored? | two categories and products; menus that move a product, empty a category, drop one or all; two visits or favourites of the menu screen and a fetch of the home screen with each |
| `session` | Who is shown the shop, with whose settings, which sessions end, and how many calls verify a code at once? | two vendors and shops, one token the backend accepts and sign-ins without any, four routes, one kill, two calls of each kind on the OTP screen |
| `orders` | Are kinds of orders kept apart, does paging go on, do the loading flags come down with the fetches that hold them, and does a customer who waits see what OrderPages promises? | three fetches under way, pages of two; five past, two active, three upcoming orders: a list that ends within a page and one that ends with a page, and a page beyond the end |
| `addons` | Can a row be charged for another menu's add-ons, or for one twice? | three products: two share a menu category, one opened with care and one in a hurry, the third has a category without radio groups to itself; three visits, limit 2 |

Bounds are constants, named where they are declared: `Attempts`, `Swipes`, `Redeems`, `Fetches`,
`Tokens`, `Shops`, `MaxCalls`, `MaxVisits` and `MaxKills` bound how often something happens; `MaxDepth` the stack,
`MaxPage` the pages asked for, `MaxGroups` the categories on the product screen when the customer acts; `MaxJobs` how many operations may be queued when the customer acts (the
queue itself may grow further); `MaxQty`, `Limit`, `MinCart` and `Cap` are small numbers with both sides
of every comparison reached. Each hazard needs two of its kind (two attempts, two swipes, two vendors, two fetches at
once); three fetches of `Orders` let one come after two that overlapped.

Some properties are claimed of a restricted customer, because the code relies on one. Where the
restriction is a constant or a history variable, the property fails without it:

- `Patient` (`OnlyOrderedItemsCleared`): stays on the cart screen while an order is placed.
- `HurriedTaps` (`ShownIsStored`): the claim is not about a product tapped while its operations are queued.
- `Overlap = FALSE` (`StoredIsSent` and, with other menus than the run's, `ShownIsSelected`): an answer does
  not come while a *different* one is being stored.
- `Prompt` (`SessionsKept`, `SignedInToShop`, `SettingsOfVendor`): no sign-in, sign-out or dialog is touched
  while requests are on their way.
- `alone` (`OrderedAsSwiped`): the order was swiped while no call was on its way. One swiped before the
  answers to the first two calls are there loses its barrier to them: `checkout_barrier`.
- `misled` (`OrderAddsUp`): not the order sent between "Remove" and the next grand total, whose total still
  has the coupon taken off.
- `calm` (`OneCodeCall`): the verification began while no call was on its way.
- `careful` of Orders (`NeverStopsEarly`, `KeepsPages`): chooses nothing while a fetch is under way; else a
  late page is filed under the kind chosen meanwhile.
- `Careful` of AddOns (`ChargedOnce`): opens the product only while nothing of its menu category, itself
  included, is in the cart, waits until it is loaded, and taps minus only while what minus saves is what is
  stored. Other products of the category may be put into the cart or changed afterwards. With
  one of them in the cart when the product is opened, `updateQuantity` offers the row's add-ons beside the
  product's own (`product_detail_screen.dart:1908-1920`), and a plus saves them.

`SignedInToShop` and `SettingsOfVendor` exempt, through `exposed`, the two ways back to the shop
without a login that the code leaves: the arrow of the forgotten password over a shop whose session
expired, and the token that deleting the account keeps.

### Fairness

Fairness is assumed of what the program itself drives, and of nothing else. `Payment!FairSpec`: the event
loop runs a coroutine whose await is over (`Resume`) and sends a request whose 2 ms are over (`Post`).
`Session!FairSpec`: the ten-second timer rings, whether or not the permission dialog is ever answered.
No server, network check, Apple Pay sheet, customer or kill owes anything: requests are made with
`package:http` without a time-out and may hang for ever, and then whatever covers the screen stays. What can
be said of it is therefore not that it is lowered, but what keeps it up: `OverlayLowered` says that the
overlay of a payment screen is lowered, or something outside the app is awaited, or `CallThrows` has ended
the attempt; `BarrierHasReason` that the cart's barrier is up only for a call that is unanswered or threw;
`FlagsHaveReason` that the two loading flags of the orders are up only for fetches under way. The last two
are invariants and need no fairness.

Deadlock is checked in the cart, menu and session runs; payment, check-out, orders and add-ons stop when
their bounded taps, fetches or visits are used up (`CHECK_DEADLOCK FALSE`).

## 4. Findings

- `payment_overlay`: the `finally` of `makePayment` lowers the overlay while the Apple Pay charge it
  started is still being made.
- `cart_vendors`: "you can only order from one restaurant at once", yet after an expired session and
  another vendor the evict loop re-inserts the last old row.
- `checkout_barrier`: the `ModalBarrier` of the cart screen is there to "Block interaction", yet the end of
  the store status or the coupon list, asked for when the screen opened, lowers the barrier of an order being
  placed, and a second order can be swiped.

Met while modelling; the models have them, and the claims above are stated around them:

- a connection that breaks under a token or a charge leaves the payment overlay up for good: `substring(-1)`
  throws out of the `catch` (`CallThrows`). It is also what keeps the customer from charging again what may
  have been charged: without it `NoBlindRetry` fails (that is its mutant);
- an exception between the network check and the request leaves the cart's barrier up: `int.parse` of the
  word "null", `cartList[0]` of an empty list (`Throws`);
- the answer to a coupon redeemed on the sheet pops whatever is on top by then, the cart screen itself when
  the sheet was closed (`PopTop`);
- "Remove" recomputes the grand total before it forgets the coupon (`misled`);
- the favourites' barrier of the menu stays up after a failure ('Please try again later!!!'), which is
  what `CoveredByFailure` allows and no more;
- a product opened while it, or another of its menu category, is in the cart is offered, and charged for,
  add-ons twice; a minus after a choice saves every option on offer (`Careful`);
- sending a one-time password again raises no barrier, and its answer lowers that of a verification (`calm`);
- the history files a late page under the kind of order selected by then (`careful`);
- the arrow of the new password pops after a delay, and twice when tapped twice, which leaves the screen
  of the code as well (`NewPasswordBack`).

## 5. Proofs

TLAPS proves, for every value of the constants (10286 obligations):

- `PaymentProofs`: `TypeCorrect`; `ReportedCharged`, from the invariant `InOrder` (an attempt has at a
  server only the request its stage allows, and a report on its way has its charge behind it);
  `SuccessPaid`, from that and what a step may do to the stack; `AttemptsAlone` and `ChargesAlone`, for
  `ApplePay = {}` (the assumption `payment_overlay` shows to be needed), from `Screens` (every payment
  route belongs to a mounted screen of a placed order, once) and `BusyIsCovered`; `ImplementsLedger`,
  the refinement of `OrderLedger`, from `Screens` and `ClearingPaid`; `NeverBlindly`, for `ApplePay = {}`:
  a charge without its answer has an attempt that is still asking or was ended by the exception, and either
  keeps the overlay up (`AskedOnce`, `LostIsCovered`), so that no other attempt of the order has got as far as
  a charge; and `ClearsOrdered`, for `ApplePay = {}` and `Patient`, from `Purchase`: there is one payment
  screen, at the bottom of the stack; an attempt that runs is its own and has no success screen below; one
  order is waited for, in the shop; and the cart holds only what was ordered until it is cleared.
- `CartTableProofs`: `QuantitiesKept`, from `QInv`: rows, queued rows and the list are all within the
  limits. Nothing about the table alone is inductive, for a queued write carries its quantity to it.
  `TypeCorrect`, from that and a lemma that the sum over a finite set of rows is a natural number.
  `CountKept`, for `~HurriedScreens`: every chain queued ends with a count, so a badge that is wrong has
  one due. `OneVendorKept`, for `Unhurried` (no screen is left while operations are queued, no session
  expires, the app is not killed): rows, list and queue are of the vendor chosen, and where vendors are
  chosen the table is empty or about to be.
- `CartShownProofs`: `ShownKept`, for `Unhurried` and a "Clear Cart" that is not tapped while operations
  are queued: of a product tapped with care one chain at most is queued; what the screen shows of it is
  what the table will hold when that chain has run (`Carried`), or a read is queued behind every write.
  The other products' chains do not touch its row, except by clearing the cart and inserting it again,
  which is why the clearing must be alone.
- `CheckoutProofs`, for every customer: `TypeCorrect`; `OrdersAddUp`, from `MoneyInv` (total, coupon and
  grand total agree, up to reads and sums that are pending and a coupon just removed); `AsSwiped`, from
  `AloneInv`: over an order swiped alone the barrier stays up and no sheet is opened, for whatever else could
  lower the one or open the other would first have to be begun above it, and the quantity stays the one
  asked for; `NeverForNothing`, that the barrier always has its reason.
- `OrdersProofs`: `TypeCorrect` and `OwnOrdersKept`, from `Inv` (a fetch under way has a page; a closed
  screen has no list and no fetch); `FlagsLowered`, which `Inv` makes inductive; `PagingGoesOn` and
  `ImplementsPages`, from `Kept`: a careful customer's lists are the first rows of their kind, there is one
  fetch, and it is for the page that follows them. The lemmas say how pages join (`Joined`, `PageType`).
- `AddOnsProofs`: `MenuAddOnsKept`, from an invariant over three places an add-on may be: rows, queued rows
  and the categories of the screen offer only options of the product's menu category. The property of the
  rows alone is not inductive, for the options on the screen came from other rows. `ChargedOnceKept`, for
  products whose own categories share no add-on, from `Kept`: from when a careful customer opens a product
  until it is loaded, no row of its menu category is there or queued (`Absent`), so what `updateQuantity`
  appends is empty and the categories on the screen stay the product's own, each once; and what is queued
  for it may be charged as it stands, whatever is done to its neighbours by then.
  `TypeCorrect`, from `TypeInv`: quantities are within the limit wherever they are, queued ones included,
  what is marked is offered, and the products in the cart have a largest one (`Bounded`), the row
  whose add-ons `getCartData` preselects from.
- `SessionProofs`: `TypeCorrect` and `CodesOneAtATime`, for every customer, the latter because a calm
  verification has the barrier to itself until its own answer; and for `Prompt` `ShopIsSignedIn`,
  `ShopIsSettled` and `DialogEndsNone`, from one invariant: the stack is layered (the OTP screen lies over
  the register screen, the code over the forgotten password, the new password over the code), so that
  nothing but the arrow that `exposed` marks pops a route off a shop; outside a shop no store status is
  waited for; who waits for an answer is still at the screen that awaits it; what the splash screen read
  is true until it is left; and a request carries the token of now. None of the three claims is inductive
  alone: what is shown next lies below what is shown now. The proof bounds neither stack nor sessions, so
  the run's depth of four loses nothing.
- `MenuCacheProofs`: `CoveredOnlyByFailure`, from the stages of the fetches: a fetch that lowers the
  barrier is under way while it is up. It needs nothing about tables and queue, and no `Overlap = FALSE`.
  `TypeCorrect`: an operation on a category finds it in the menu it carries (`Proper`). `StoredKept`, for
  `~Overlap`, from `StoreInv`: while a menu is being stored whole every operation queued is about that menu
  (`Innocent`), and each category or product that the tables lack, or have beyond it, is due to an operation
  queued (`CategoriesDue`, `ProductsDue`, `DeletionsDue`). `ShownKept`, for `~Overlap`, from `ShownInv`: an
  operation that will change the products or show another category is followed by one that reads the
  selected category, or that issues such a read when it runs. "Followed" compares ranks first and places
  in the queue second: what an operation of a higher rank issues comes behind all that is queued by then.

The hypotheses are needed: without any one of them TLC finds a counterexample on a small instance. A
screen left in a hurry keeps its chains, which write after the last count and the last read of the new
screen. An expired session or a kill drops the clearing of the cart. A hurried "Clear Cart" comes between
a chain's reading of the rows and its inserting them again. With `Overlap` two menus are stored into one
another, and a menu of empty categories is shown before the products of the other are written.

Two kinds of fact about data needed an induction, which the library's induction theorems cannot give here
(they take an operator). It is made by the least counterexample instead (`Least`): that the recursive
functions behind `MapThenSumSet` and `FlattenSeq` exist, that a sum of naturals is one (`SumNatural`), and
that `FlattenSeq` keeps every element of every sequence and adds none (`Flattened`).

TLC checked each invariant before its proof. The assumptions on the constants are those the modules
declare; MenuCache's say of a menu that it gives products to finitely many categories, no product to two.
Every invariant the passing runs check is stated by a theorem. Only model-checked: the liveness properties
`OverlayLowered` and `SplashLeft`, for fairness is beyond the prover.

## 6. Not modelled

- Layout, wording, themes, JSON, the formatting of dates and of money.
- Search: a FutureBuilder drops the answers of the queries before; no state outlives it.
- Coupons list, the lines of an order, lists of vendors and localities: fetched and shown, nothing more.
- The forms of the profile: one request each.
- Banners, featured products and the dashboard cache: shown from the network; the cache is inserted and
  never read.
- Of the product screen: the list of more products and its favourites, sizes (commented out), and fetching
  a menu category that is not stored.
- The sheet that registers an Apple user from inside the login screen.
- That `cartScreen.dart:1538` shares one list of add-on ids between the lines of an order: lines are one
  quantity in Checkout.
- Firebase, opening the database, the platform shells.

`components` in `PROJECT.json` says why, part by part. Not represented: two instances of the app, a phone
whose clock is wrong, a full disk.

## 7. Plan

1. Proofs: what of `ShownIsStored` survives a hurried screen, and of `ShownIsSelected` an answer that
   overlaps another; both need a claim about fewer products before they need a proof.
2. Composition: Checkout and Payment through one cart, so that `OnlyOrderedItemsCleared` is about the
   quantities that were ordered; the lines of an order with their add-ons.
3. The product screen's list of more products, as another writer of CartTable.
