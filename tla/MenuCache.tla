------------------------------- MODULE MenuCache -------------------------------
(***************************************************************************)
(* The menu of the selected vendor: shown from SQLite (CategoryDataDB and  *)
(* ProductData), fetched from the backend, and written back to SQLite by   *)
(* coroutines that await the reads and none of the writes.  Two screens do *)
(* so: the menu screen, with its favourites, whose answer starts another   *)
(* fetch, and the home screen below it, which stores the same menu for the *)
(* visits to come and reads nothing back.                                  *)
(*                                                                         *)
(* Operations of the database run one at a time in the order issued.       *)
(* Writes that one coroutine issues together run together here.            *)
(***************************************************************************)
EXTENDS Naturals, Sequences, FiniteSets, SequencesExt

CONSTANTS
    Products,
    Categories,
    Menus,      \* what the backend may have on the menu, product sets by category
    Fetches,    \* bound: visits of the screen and favourites marked
    Overlap,    \* an answer may come while a different one is being stored
    MaxJobs     \* bound: the customer acts when fewer operations are queued

ASSUME MenuAssumption ==
    /\ \A m \in Menus :
        /\ m \in [DOMAIN m -> SUBSET Products]
        /\ DOMAIN m \subseteq Categories /\ IsFiniteSet(DOMAIN m)
        /\ \A c, d \in DOMAIN m : c # d => m[c] \intersect m[d] = {}
    /\ "none" \notin Categories
    /\ Overlap \in BOOLEAN
    /\ MaxJobs \in Nat

VARIABLES
    menu,        \* the backend's menu
    cats,        \* the rows of CategoryDataDB
    prods,       \* ProductData: the category of each row, "none" without one
    jobs,        \* the operations issued and not yet run
    pc,          \* where each fetch is, with the favourite it may begin with
    reply,       \* the menu on its way to a fetch
    home,        \* the home screen's fetch, one at a time
    selected,    \* selectedCategoryDetail
    categories,  \* the categories shown
    menuItems,   \* the products shown
    covered,     \* isMarkFavResponseLoading
    failed,      \* a favourite or its fetch failed on this screen
    last,        \* the menu stored last, when nothing has cut its storing short
    kept,        \* the products it left in their category
    reread       \* the menu screen was the one, or one of those, that stored it

tables    == <<cats, prods>>
screenVars == <<selected, categories, menuItems, covered, failed>>
stored    == <<last, kept, reread>>
vars == <<menu, tables, jobs, pc, reply, home, screenVars, stored>>

Stages  == {"off", "due", "markCheck", "markSent", "check", "sent", "served", "over"}
NoMenu  == <<>>
Ops     == {"cats", "findCats", "insCats", "delCats", "readCats",
            "findProds", "putProds", "acc", "delProds", "items"}

Screens == {"menu", "home"}

Job(op, cat, of, m) ==
    [op |-> op, cat |-> cat, of |-> of, menu |-> m, live |-> TRUE, screen |-> "menu"]
Jobs == [op: Ops, cat: Categories \union {"none"}, of: SUBSET (Products \union Categories),
         menu: Menus \union {NoMenu}, live: BOOLEAN, screen: Screens]

InCategory(c) == {p \in Products : prods[p] = c}

(* getProductDataDB of the category selected now. *)
Items(c) == Job("items", c, {}, NoMenu)

(* A new screen with category c reads the categories and then fetches.     *)
(* setState throws on the screens that are gone: what they had asked for is *)
(* not looked at, and neither it nor a queue lost in between is a menu      *)
(* stored whole.                                                            *)
Visit(f, c, queued) ==
    /\ pc[f] = "off"
    /\ pc' = [g \in Fetches |-> IF g = f THEN "due"
                                ELSE IF pc[g] = "off" THEN "off" ELSE "over"]
    /\ selected' = c
    /\ categories' = {} /\ menuItems' = {}
    /\ covered' = FALSE /\ failed' = FALSE
    /\ jobs' = Append(queued, Job("cats", "none", {}, NoMenu))
    /\ last' = IF jobs = <<>> THEN last ELSE NoMenu
    /\ UNCHANGED <<menu, tables, reply, kept, reread>>

(* The home screen asks when it is shown, which it was before each visit.  *)
HomeAsks == home' = [stage |-> "sent", menu |-> NoMenu]

Init ==
    /\ menu \in Menus
    /\ cats = {} /\ prods = [p \in Products |-> "none"]
    /\ jobs = <<Job("cats", "none", {}, NoMenu)>>
    /\ \E f \in Fetches : pc = [g \in Fetches |-> IF g = f THEN "due" ELSE "off"]
    /\ reply = [f \in Fetches |-> NoMenu]
    /\ selected \in Categories
    /\ categories = {} /\ menuItems = {}
    /\ covered = FALSE /\ failed = FALSE
    /\ home = [stage |-> "sent", menu |-> NoMenu]
    /\ last = NoMenu /\ kept = {} /\ reread = FALSE

-----------------------------------------------------------------------------
(* The customer and the backend.                                           *)

MayAct == Len(jobs) < MaxJobs

Select(c) ==
    /\ MayAct /\ ~covered
    /\ c \in categories
    /\ selected' = c
    /\ jobs' = Append(jobs, Items(c))
    /\ UNCHANGED <<menu, tables, pc, reply, categories, menuItems, covered, failed, home, stored>>

(* _setFavorite and _removeFavorite *)
Mark(f) ==
    /\ MayAct /\ ~covered
    /\ menuItems # {}
    /\ pc[f] = "off"
    /\ pc' = [pc EXCEPT ![f] = "markCheck"]
    /\ covered' = TRUE
    /\ UNCHANGED <<menu, tables, jobs, reply, selected, categories, menuItems, failed, home, stored>>

(* Another visit, from the same home screen (same) or from another: what   *)
(* the last screens have queued still runs.                                *)
Reopen(f, c, same) ==
    /\ MayAct
    /\ Visit(f, c, [i \in DOMAIN jobs |->
                      [jobs[i] EXCEPT !.live = @ /\ same /\ jobs[i].screen = "home"]])
    /\ IF same /\ home.stage # "off" THEN UNCHANGED home ELSE HomeAsks

(* The app is killed and started again: what was queued never happens.     *)
Restart(f, c) == Visit(f, c, <<>>) /\ HomeAsks

ChangeMenu ==
    /\ menu' \in Menus \ {menu}
    /\ UNCHANGED <<tables, jobs, pc, reply, home, screenVars, stored>>

-----------------------------------------------------------------------------
(* The favourite and the fetch.                                            *)

Goto(f, stage) == pc' = [pc EXCEPT ![f] = stage]

Proceeds(f, from, to) ==
    /\ pc[f] = from
    /\ Goto(f, to)
    /\ UNCHANGED <<menu, tables, jobs, reply, home, screenVars, stored>>

(* Connected: the favourite is sent, or the menu asked for. *)
MarkSent(f) == Proceeds(f, "markCheck", "markSent")
AskMenu(f)  == Proceeds(f, "check", "sent")

(* getMarkFavoriteResponse and getRemoveFavoriteResponse: fetch again. *)
Marked(f) == Proceeds(f, "markSent", "check")

(* No network, or the favourite refused: the barrier is not lowered. *)
Fails(f) ==
    /\ pc[f] \in {"markCheck", "markSent", "check"}
    /\ Goto(f, "over")
    /\ failed' = TRUE
    /\ UNCHANGED <<menu, tables, jobs, reply, selected, categories, menuItems,
                   covered, home, stored>>

Serve(f) ==
    /\ pc[f] = "sent"
    /\ Goto(f, "served")
    /\ reply' = [reply EXCEPT ![f] = menu]
    /\ UNCHANGED <<menu, tables, jobs, home, screenVars, stored>>

(* mutant: the answer leaves the barrier of the favourite up *)
LoweredNever == UNCHANGED covered

(* getCategoryList lowers the barrier whatever the answer. *)
Lowered == covered' = FALSE

(* An answer comes when nothing is queued, or while the same menu is being *)
(* stored already.                                                         *)
MayStore(m) == Overlap \/ jobs = <<>> \/ (m # NoMenu /\ m = last)

(* History: a menu starts to be stored. *)
Stores(m, by) ==
    /\ last' = m
    /\ kept' = {p \in Products : \A c \in DOMAIN m : p \in m[c] => prods[p] \in {c, "none"}}
              \intersect (IF jobs = <<>> THEN Products ELSE kept)
    /\ reread' = (by = "menu")

(* getCategoryList with an answer: updateCategoriesDetails and the list of *)
(* the selected category start.                                            *)
Answered(f) ==
    /\ pc[f] = "served"
    /\ MayStore(reply[f])
    /\ Goto(f, "over")
    /\ Lowered
    /\ jobs' = jobs \o <<IF reply[f] = NoMenu THEN Job("readCats", "none", {}, NoMenu)
                                            ELSE Job("findCats", "none", {}, reply[f]),
                         Items(selected)>>
    /\ Stores(reply[f], "menu")
    /\ UNCHANGED <<menu, tables, reply, home, selected, categories, menuItems, failed>>

(* ... with an error, or a connection that broke. *)
Refused(f) ==
    /\ pc[f] \in {"sent", "served"}
    /\ Goto(f, "over")
    /\ Lowered
    /\ UNCHANGED <<menu, tables, jobs, reply, selected, categories, menuItems,
                   failed, home, stored>>

(* The home screen's fetch: getCategoryList of the home screen stores an   *)
(* answer with categories, and does nothing about any other.               *)
HomeServed ==
    /\ home.stage = "sent"
    /\ home' = [stage |-> "served", menu |-> menu]
    /\ UNCHANGED <<menu, tables, jobs, pc, reply, screenVars, stored>>

HomeAnswered ==
    /\ home.stage = "served" /\ home.menu # NoMenu
    /\ MayStore(home.menu)
    /\ home' = [stage |-> "off", menu |-> NoMenu]
    /\ jobs' = Append(jobs, [Job("findCats", "none", {}, home.menu) EXCEPT !.screen = "home"])
    /\ Stores(home.menu, "home")
    /\ UNCHANGED <<menu, tables, pc, reply, screenVars>>

HomeFails ==
    /\ home.stage # "off"
    /\ home' = [stage |-> "off", menu |-> NoMenu]
    /\ UNCHANGED <<menu, tables, jobs, pc, reply, screenVars, stored>>

-----------------------------------------------------------------------------
(* The database runs the first operation.                                  *)

Runs(op) == jobs # <<>> /\ jobs[1].op = op

(* Issue todo after all that is queued already, for the same screen.       *)
Then(todo) ==
    jobs' = Tail(jobs) \o [i \in DOMAIN todo |->
                [todo[i] EXCEPT !.live = jobs[1].live, !.screen = jobs[1].screen]]

(* What only the menu screen goes on to do. *)
OnMenu(todo) == IF jobs[1].screen = "menu" THEN todo ELSE <<>>

OnlyTables == UNCHANGED <<menu, pc, reply, home, screenVars, stored>>

(* getCategoryDataDB: show what is stored, then fetch. *)
Cats ==
    /\ Runs("cats")
    /\ Then(IF cats = {} THEN <<>> ELSE <<Items(selected)>>)
    /\ categories' = IF jobs[1].live THEN cats ELSE categories
    /\ IF jobs[1].live THEN \E f \in Fetches : pc[f] = "due" /\ Goto(f, "check")
                       ELSE UNCHANGED pc
    /\ UNCHANGED <<menu, tables, reply, selected, menuItems, covered, failed, home, stored>>

(* updateCategoriesDetails: insert the new categories, look at the         *)
(* products of each, delete the categories that are not in the answer.  A  *)
(* screen that is gone only deletes.                                       *)
FindCats ==
    /\ Runs("findCats")
    /\ LET m == jobs[1].menu
           details(c) == IF m[c] = {} THEN OnMenu(<<Items(selected)>>)
                                      ELSE <<Job("findProds", c, {}, m)>>
           store(order) == <<Job("insCats", "none", DOMAIN m \ cats, NoMenu)>>
                 \o FlattenSeq([i \in DOMAIN order |-> details(order[i])])
       IN  \E order \in SetToSeqs(DOMAIN m) :
            Then((IF jobs[1].live THEN store(order) ELSE <<>>)
                 \o <<Job("delCats", "none", cats \ DOMAIN m, NoMenu)>>
                 \o OnMenu(<<Job("readCats", "none", {}, NoMenu)>>))
    /\ UNCHANGED tables /\ OnlyTables

(* mutant: with nothing new, a category without an id is inserted *)
InsCatsNull ==
    /\ Runs("insCats")
    /\ cats' = cats \union (IF jobs[1].of = {} THEN {"none"} ELSE jobs[1].of)
    /\ Then(<<>>)
    /\ UNCHANGED prods /\ OnlyTables

InsCats ==
    /\ Runs("insCats")
    /\ cats' = cats \union jobs[1].of
    /\ Then(<<>>)
    /\ UNCHANGED prods /\ OnlyTables

DelCats ==
    /\ Runs("delCats")
    /\ cats' = cats \ jobs[1].of
    /\ Then(<<>>)
    /\ UNCHANGED prods /\ OnlyTables

(* The selection stays: a screen of products has a selectedCategoryId,     *)
(* given to it by the tap that opens it.  Only the screen of all the       *)
(* categories may have none, and it shows no products.                     *)
ReadCats ==
    /\ Runs("readCats")
    /\ Then(<<>>)
    /\ categories' = IF jobs[1].live /\ cats # {} THEN cats ELSE categories
    /\ UNCHANGED <<menu, tables, pc, reply, selected, menuItems, covered, failed, home, stored>>

(* updateProductsDetails of one category: insert the products that were    *)
(* not found, update the others, and read the category again.              *)
FindProds ==
    /\ Runs("findProds")
    /\ LET job == jobs[1]
           new == {p \in job.menu[job.cat] : prods[p] = "none"}
       IN  Then((IF job.live THEN <<[job EXCEPT !.op = "putProds", !.of = new]>> ELSE <<>>)
                \o <<[job EXCEPT !.op = "acc"]>>)
    /\ UNCHANGED tables /\ OnlyTables

(* mutant: products that were not found are not inserted *)
PutProdsFound ==
    /\ Runs("putProds")
    /\ LET job == jobs[1]
       IN  prods' = [p \in Products |->
              IF p \in job.menu[job.cat] /\ prods[p] # "none" THEN job.cat ELSE prods[p]]
    /\ Then(<<>>)
    /\ UNCHANGED cats /\ OnlyTables

(* An update changes nothing when its row is gone. *)
PutProds ==
    /\ Runs("putProds")
    /\ LET job == jobs[1]
       IN  prods' = [p \in Products |->
              IF p \in job.menu[job.cat] /\ (p \in job.of \/ prods[p] # "none")
                THEN job.cat ELSE prods[p]]
    /\ Then(<<>>)
    /\ UNCHANGED cats /\ OnlyTables

(* mutant: the list is not read again after the deletion *)
AccUnread ==
    /\ Runs("acc")
    /\ LET job == jobs[1]
       IN  Then(<<Job("delProds", "none", InCategory(job.cat) \ job.menu[job.cat], NoMenu)>>)
    /\ UNCHANGED tables /\ OnlyTables

(* Delete what the category should not have, and read the list again.      *)
Acc ==
    /\ Runs("acc")
    /\ LET job == jobs[1]
       IN  Then(<<Job("delProds", "none", InCategory(job.cat) \ job.menu[job.cat], NoMenu)>>
                \o OnMenu(<<Items(selected)>>))
    /\ UNCHANGED tables /\ OnlyTables

DelProds ==
    /\ Runs("delProds")
    /\ prods' = [p \in Products |-> IF p \in jobs[1].of THEN "none" ELSE prods[p]]
    /\ Then(<<>>)
    /\ UNCHANGED cats /\ OnlyTables

(* getProductDataDB: the list is what was read, if its screen is shown.    *)
ReadItems ==
    /\ Runs("items")
    /\ Then(<<>>)
    /\ menuItems' = IF jobs[1].live THEN InCategory(jobs[1].cat) ELSE menuItems
    /\ UNCHANGED <<menu, tables, pc, reply, selected, categories, covered, failed, home, stored>>

-----------------------------------------------------------------------------
Customer ==
    \/ \E c \in Categories : Select(c)
    \/ \E f \in Fetches : Mark(f)
    \/ \E f \in Fetches, c \in Categories :
        Restart(f, c) \/ \E same \in BOOLEAN : Reopen(f, c, same)

Network ==
    \/ ChangeMenu
    \/ HomeServed \/ HomeAnswered \/ HomeFails
    \/ \E f \in Fetches :
        \/ MarkSent(f) \/ Marked(f) \/ AskMenu(f)
        \/ Fails(f) \/ Serve(f) \/ Answered(f) \/ Refused(f)

Operations ==
    \/ Cats \/ FindCats \/ InsCats \/ DelCats \/ ReadCats
    \/ FindProds \/ PutProds \/ Acc \/ DelProds \/ ReadItems

Next == Customer \/ Network \/ Operations

Spec == Init /\ [][Next]_vars

-----------------------------------------------------------------------------
(* Properties.                                                             *)

(* The tables, the queue and the screen hold what they may.                *)
TypeOK ==
    /\ menu \in Menus
    /\ cats \subseteq Categories
    /\ prods \in [Products -> Categories \union {"none"}]
    /\ jobs \in Seq(Jobs)
    /\ pc \in [Fetches -> Stages]
    /\ reply \in [Fetches -> Menus \union {NoMenu}]
    /\ selected \in Categories
    /\ categories \subseteq Categories
    /\ menuItems \subseteq Products
    /\ covered \in BOOLEAN /\ failed \in BOOLEAN
    /\ home \in [stage: {"off", "sent", "served"}, menu: Menus \union {NoMenu}]
    /\ last \in Menus \union {NoMenu} /\ reread \in BOOLEAN
    /\ kept \subseteq Products

(* Once the menu screen has stored a menu its list shows the stored        *)
(* products of the selected category, whatever was selected, fetched or    *)
(* marked meanwhile and in whatever order the reads of other categories    *)
(* ended.  (The home screen's writes are shown by the next fetch.)         *)
ShownIsSelected ==
    jobs = <<>> /\ last # NoMenu /\ reread => menuItems = InCategory(selected)

(* Once an answer is stored, its categories are the ones stored, and each  *)
(* one it has products for holds only products the answer has there, and   *)
(* all of them but products that changed their category; also when the     *)
(* home and the menu screen store the same answer at the same time.        *)
StoredIsSent ==
    jobs = <<>> /\ last # NoMenu =>
        /\ cats = DOMAIN last
        /\ \A c \in DOMAIN last : last[c] # {} =>
              /\ InCategory(c) \subseteq last[c]
              /\ last[c] \intersect kept \subseteq InCategory(c)

(* The barrier of a favourite is left up by nothing but a failure.         *)
CoveredByFailure ==
    covered => failed \/ \E f \in Fetches : pc[f] \in Stages \ {"off", "due", "over"}
=============================================================================
