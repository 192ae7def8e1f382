---------------------------- MODULE MenuCacheProofs ----------------------------
(***************************************************************************)
(* Theorems about MenuCache, for every menu, any number of categories,     *)
(* products, fetches and favourites, and a queue of any length: the types, *)
(* the barrier of the favourites, and, when no answer comes while another  *)
(* menu is being stored (~Overlap), what is stored and what is shown.      *)
(*                                                                         *)
(* StoredIsSent and ShownIsSelected speak of an empty queue.  While it is  *)
(* not, StoreInv says which operation queued makes up for each difference  *)
(* between the tables and the menu, and ShownInv that whatever changes the *)
(* tables or the list has a read of the selected category behind it, or an *)
(* operation that will issue one behind all that is queued by then.        *)
(***************************************************************************)
EXTENDS MenuCache, SequenceTheorems, FiniteSetTheorems, WellFoundedInduction, TLAPS

USE DEF Stages

\* A fetch is under way that lowers the barrier when it ends.
Busy(f) == pc[f] \in Stages \ {"off", "due", "over"}

\* CoveredByFailure needs nothing about the tables and the queue.
Barrier == pc \in [Fetches -> Stages] /\ CoveredByFailure

\* A screen that has just been opened has no barrier.
LEMMA VisitStep ==
    ASSUME Barrier, NEW f \in Fetches, NEW c, NEW queued, Visit(f, c, queued)
    PROVE  Barrier'
BY DEF Barrier, Visit, CoveredByFailure

\* A fetch that goes on is still one that lowers the barrier.
LEMMA GotoStep ==
    ASSUME Barrier, NEW f \in Fetches, NEW stage \in Stages \ {"off", "due", "over"},
           Goto(f, stage), UNCHANGED <<covered, failed>>
    PROVE  Barrier'
<1>1. /\ pc' \in [Fetches -> Stages]
      /\ pc'[f] = stage
    BY DEF Barrier, Goto
<1> QED
    BY <1>1 DEF Barrier, CoveredByFailure

\* One that is over has lowered it, or has failed.
LEMMA OverStep ==
    ASSUME Barrier, NEW f \in Fetches, Goto(f, "over"), ~covered' \/ failed'
    PROVE  Barrier'
BY DEF Barrier, Goto, CoveredByFailure

\* The barrier that a favourite puts up is lowered by its own fetch, unless
\* the favourite or the fetch fails (getMarkFavoriteResponse, getCategoryList).
THEOREM CoveredOnlyByFailure == Spec => []CoveredByFailure
<1>1. Init => Barrier
    BY DEF Init, Barrier, CoveredByFailure
<1>2. ASSUME Barrier, [Next]_vars PROVE Barrier'
    <2> USE <1>2
    <2>1. ASSUME NEW f \in Fetches, Mark(f) PROVE Barrier'
        <3>1. /\ pc' \in [Fetches -> Stages]
              /\ pc'[f] = "markCheck"
            BY <2>1 DEF Mark, Barrier
        <3> QED
            BY <3>1 DEF Barrier, CoveredByFailure
    <2>2. ASSUME NEW f \in Fetches, NEW c,
                 Restart(f, c) \/ \E same \in BOOLEAN : Reopen(f, c, same)
          PROVE  Barrier'
        BY <2>2, VisitStep DEF Restart, Reopen
    <2>3. ASSUME NEW f \in Fetches, MarkSent(f) \/ Marked(f) \/ AskMenu(f) \/ Serve(f)
          PROVE  Barrier'
        BY <2>3, GotoStep
           DEF MarkSent, Marked, AskMenu, Serve, Proceeds, screenVars
    <2>4. ASSUME NEW f \in Fetches, Fails(f) \/ Answered(f) \/ Refused(f) PROVE Barrier'
        BY <2>4, OverStep DEF Fails, Answered, Refused, Lowered
    <2>5. CASE Cats
        <3>1. CASE \E f \in Fetches : Goto(f, "check")
            BY <2>5, <3>1, GotoStep DEF Cats
        <3>2. CASE UNCHANGED pc
            BY <2>5, <3>2 DEF Cats, Barrier, CoveredByFailure
        <3> QED
            BY <2>5, <3>1, <3>2 DEF Cats
    <2>6. CASE UNCHANGED <<pc, covered, failed>>
        BY <2>6 DEF Barrier, CoveredByFailure
    <2>7. \/ \E f \in Fetches : Mark(f)
          \/ \E f \in Fetches, c \in Categories :
                Restart(f, c) \/ \E same \in BOOLEAN : Reopen(f, c, same)
          \/ \E f \in Fetches : MarkSent(f) \/ Marked(f) \/ AskMenu(f) \/ Serve(f)
          \/ \E f \in Fetches : Fails(f) \/ Answered(f) \/ Refused(f)
          \/ Cats
          \/ UNCHANGED <<pc, covered, failed>>
        <3>1. ASSUME Operations PROVE Cats \/ UNCHANGED <<pc, covered, failed>>
            BY <3>1 DEF Operations, OnlyTables, screenVars, FindCats, InsCats, DelCats,
                        ReadCats, FindProds, PutProds, Acc, DelProds, ReadItems
        <3>2. ASSUME ChangeMenu \/ HomeServed \/ HomeAnswered \/ HomeFails
              PROVE  UNCHANGED <<pc, covered, failed>>
            BY <3>2 DEF ChangeMenu, HomeServed, HomeAnswered, HomeFails, screenVars
        <3>3. ASSUME NEW c \in Categories, Select(c)
              PROVE  UNCHANGED <<pc, covered, failed>>
            BY <3>3 DEF Select
        <3> QED
            BY <3>1, <3>2, <3>3 DEF Next, Customer, Network, vars, screenVars
    <2> QED
        BY <2>1, <2>2, <2>3, <2>4, <2>5, <2>6, <2>7
<1>3. Barrier => CoveredByFailure
    BY DEF Barrier
<1> QED
    BY <1>1, <1>2, <1>3, PTL DEF Spec
-----------------------------------------------------------------------------
(* What FlattenSeq and SetToSeqs give FindCats: the operations of every    *)
(* category of the answer, and of no other.                                *)

LEMMA Least ==
    ASSUME NEW T \in SUBSET Nat, T # {}
    PROVE  \E n \in T : \A m \in T : n <= m
<1>1. PICK n \in T : \A m \in T : <<m, n>> \notin OpToRel(<, Nat)
    BY NatLessThanWellFounded, WFMin
<1>2. \A m \in T : ~(m < n)
    BY <1>1 DEF OpToRel
<1> QED
    BY <1>2

\* The i-th step of FlattenSeq.
Joined(f, seqs, i) == IF i = 1 THEN seqs[i] ELSE f[i - 1] \o seqs[i]

LEMMA JoinExists ==
    ASSUME NEW seqs, NEW last0 \in Nat
    PROVE  \E f : f = [i \in 1..last0 |-> Joined(f, seqs, i)]
<1> DEFINE Good(n) == \E f : f = [i \in 1..n |-> Joined(f, seqs, i)]
           Bad     == {n \in Nat : ~Good(n)}
<1> SUFFICES ASSUME Bad # {} PROVE FALSE
    OBVIOUS
<1>1. PICK n \in Bad : \A m \in Bad : n <= m
    <2> HIDE DEF Bad
    <2>1. Bad \in SUBSET Nat
        BY DEF Bad
    <2> QED
        BY <2>1, Least
<1>2. CASE n = 0
    <2> DEFINE f == [i \in 1..n |-> 0]
    <2>1. f = [i \in 1..n |-> Joined(f, seqs, i)]
        BY <1>2
    <2> HIDE DEF f
    <2>2. Good(n)
        BY <2>1
    <2> QED
        BY <2>2
<1>3. CASE n # 0
    <2>1. n - 1 \in Nat /\ Good(n - 1)
        BY <1>1, <1>3
    <2>2. PICK g : g = [i \in 1..(n - 1) |-> Joined(g, seqs, i)]
        BY <2>1
    <2> DEFINE f == [i \in 1..n |-> Joined(g, seqs, i)]
    <2>3. \A i \in 1..(n - 1) : i \in 1..n /\ f[i] = g[i]
        BY <2>1, <2>2
    <2>4. \A i \in 1..n : i = 1 \/ i - 1 \in 1..(n - 1)
        BY <2>1
    <2>5. \A i \in 1..n : Joined(g, seqs, i) = Joined(f, seqs, i)
        BY <2>3, <2>4 DEF Joined
    <2>6. f = [i \in 1..n |-> Joined(f, seqs, i)]
        BY <2>5
    <2> HIDE DEF f
    <2>7. Good(n)
        BY <2>6
    <2> QED
        BY <2>7
<1> QED
    BY <1>2, <1>3

LEMMA Joins ==
    ASSUME NEW S, NEW s \in Seq(S), NEW t \in Seq(S)
    PROVE  /\ s \o t \in Seq(S)
           /\ Range(s \o t) = Range(s) \union Range(t)
<1>1. /\ s \o t \in Seq(S)
      /\ Len(s) \in Nat /\ Len(t) \in Nat
      /\ Len(s \o t) = Len(s) + Len(t)
      /\ \A i \in 1..Len(s) + Len(t) :
            (s \o t)[i] = IF i <= Len(s) THEN s[i] ELSE t[i - Len(s)]
      /\ DOMAIN s = 1..Len(s) /\ DOMAIN t = 1..Len(t)
      /\ DOMAIN (s \o t) = 1..Len(s \o t)
    BY ConcatProperties, LenProperties
<1> DEFINE st == s \o t
<1> HIDE DEF st
<1>2. ASSUME NEW i \in 1..Len(st) PROVE st[i] \in Range(s) \union Range(t)
    <2>1. CASE i <= Len(s)
        BY <1>1, <2>1 DEF Range, st
    <2>2. CASE ~(i <= Len(s))
        <3>1. i - Len(s) \in 1..Len(t)
            BY <1>1, <2>2 DEF st
        <3> QED
            BY <1>1, <2>2, <3>1 DEF Range, st
    <2> QED
        BY <2>1, <2>2
<1>3. ASSUME NEW i \in 1..Len(s) PROVE s[i] \in Range(st)
    BY <1>1 DEF Range, st
<1>4. ASSUME NEW i \in 1..Len(t) PROVE t[i] \in Range(st)
    <2>1. i + Len(s) \in 1..Len(s) + Len(t) /\ ~(i + Len(s) <= Len(s))
        BY <1>1
    <2>2. st[i + Len(s)] = t[i]
        BY <1>1, <2>1 DEF st
    <2> QED
        BY <1>1, <2>1, <2>2 DEF Range, st
<1>5. DOMAIN st = 1..Len(st)
    BY <1>1 DEF st
<1>6. Range(st) = Range(s) \union Range(t)
    BY <1>1, <1>2, <1>3, <1>4, <1>5 DEF Range
<1> QED
    BY <1>1, <1>6 DEF st

\* FlattenSeq keeps every element of every sequence, and adds none.
LEMMA Flattened ==
    ASSUME NEW S, NEW seqs \in Seq(Seq(S))
    PROVE  /\ FlattenSeq(seqs) \in Seq(S)
           /\ Range(FlattenSeq(seqs)) = UNION {Range(seqs[i]) : i \in DOMAIN seqs}
<1>1. /\ Len(seqs) \in Nat /\ DOMAIN seqs = 1..Len(seqs)
      /\ \A i \in 1..Len(seqs) : seqs[i] \in Seq(S)
    BY LenProperties, ElementOfSeq
<1>2. CASE Len(seqs) = 0
    <2>1. seqs = <<>> /\ FlattenSeq(seqs) = <<>>
        BY <1>1, <1>2, EmptySeq DEF FlattenSeq
    <2>2. Range(seqs) = {} /\ UNION {Range(seqs[i]) : i \in DOMAIN seqs} = {}
        BY <1>1, <1>2 DEF Range
    <2> QED
        BY <2>1, <2>2, EmptySeq
<1>3. CASE Len(seqs) # 0
    <2> DEFINE f == CHOOSE f : f = [i \in 1..Len(seqs) |-> Joined(f, seqs, i)]
               Upto(n) == UNION {Range(seqs[i]) : i \in 1..n}
               Bad == {n \in 1..Len(seqs) : ~(f[n] \in Seq(S) /\ Range(f[n]) = Upto(n))}
    <2>1. f = [i \in 1..Len(seqs) |-> Joined(f, seqs, i)]
        BY <1>1, JoinExists
    <2>2. FlattenSeq(seqs) = f[Len(seqs)]
        BY <1>3 DEF FlattenSeq, Joined
    <2> HIDE DEF f
    <2>3. Bad = {}
        <3> SUFFICES ASSUME Bad # {} PROVE FALSE
            OBVIOUS
        <3>1. PICK n \in Bad : \A m \in Bad : n <= m
            <4> HIDE DEF Bad
            <4>1. Bad \in SUBSET Nat
                BY <1>1 DEF Bad
            <4> QED
                BY <4>1, Least
        <3>2. n \in 1..Len(seqs) /\ f[n] = Joined(f, seqs, n)
            BY <2>1
        <3>3. CASE n = 1
            <4>1. f[n] = seqs[n]
                BY <3>2, <3>3 DEF Joined
            <4>2. Upto(n) = Range(seqs[n])
                BY <3>3
            <4>3. seqs[n] \in Seq(S)
                BY <1>1, <3>2
            <4>4. n \notin Bad
                BY <4>1, <4>2, <4>3
            <4> QED
                BY <3>1, <4>4
        <3>4. CASE n # 1
            <4>1. n - 1 \in 1..Len(seqs) /\ n - 1 \notin Bad
                <5>1. n - 1 \in 1..Len(seqs) /\ ~(n <= n - 1)
                    BY <1>1, <3>2, <3>4
                <5> HIDE DEF Bad
                <5> QED
                    BY <3>1, <5>1
            <4>2. f[n - 1] \in Seq(S) /\ Range(f[n - 1]) = Upto(n - 1)
                BY <4>1
            <4>3. f[n] = f[n - 1] \o seqs[n]
                BY <3>2, <3>4 DEF Joined
            <4>4. f[n] \in Seq(S) /\ Range(f[n]) = Upto(n - 1) \union Range(seqs[n])
                BY <1>1, <3>2, <4>2, <4>3, Joins
            <4>5. 1..n = (1..(n - 1)) \union {n}
                BY <1>1, <3>2
            <4>6. Upto(n) = Upto(n - 1) \union Range(seqs[n])
                BY <4>5
            <4>7. n \notin Bad
                BY <4>4, <4>6
            <4> QED
                BY <3>1, <4>7
        <3> QED
            BY <3>3, <3>4
    <2>4. f[Len(seqs)] \in Seq(S) /\ Range(f[Len(seqs)]) = Upto(Len(seqs))
        <3>1. Len(seqs) \in 1..Len(seqs)
            BY <1>1, <1>3
        <3>2. Len(seqs) \notin Bad
            BY <2>3
        <3> HIDE DEF Upto
        <3> QED
            BY <3>1, <3>2
    <2> QED
        BY <1>1, <2>2, <2>4
<1> QED
    BY <1>2, <1>3

LEMMA Ordered ==
    ASSUME NEW S, IsFiniteSet(S), NEW order \in SetToSeqs(S)
    PROVE  order \in Seq(S) /\ Range(order) = S
<1>1. Cardinality(S) \in Nat
    BY FS_CardinalityType
<1>2. /\ order \in [1..Cardinality(S) -> S]
      /\ \A i, j \in 1..Cardinality(S) : i # j => order[i] # order[j]
    BY DEF SetToSeqs
<1>3. order \in Injection(1..Cardinality(S), S)
    BY <1>2 DEF Injection, IsInjective
<1>4. Cardinality(1..Cardinality(S)) = Cardinality(S)
    BY <1>1, FS_Interval
<1>5. order \in Surjection(1..Cardinality(S), S)
    BY <1>3, <1>4, FS_Injection
<1> QED
    BY <1>1, <1>2, <1>5 DEF Surjection, Range
-----------------------------------------------------------------------------
(* TypeOK.  What an operation may have brought with it depends on the      *)
(* operation: the menu of findProds has the category it is about, what     *)
(* insCats and delCats bring are categories, and so on.                    *)

Carriers == {"findProds", "putProds", "acc"}

Proper(j) ==
    /\ j.op \in Carriers => j.menu \in Menus /\ j.cat \in DOMAIN j.menu
    /\ j.op = "findCats" => j.menu \in Menus
    /\ j.op \in {"insCats", "delCats"} => j.of \subseteq Categories
    /\ j.op \in {"putProds", "delProds"} => j.of \subseteq Products
    /\ j.op = "items" => j.cat \in Categories

ProperJobs == {j \in Jobs : Proper(j)}

TypeInv == TypeOK /\ jobs \in Seq(ProperJobs)

Queued == Range(jobs)

\* What Then makes of an operation issued by a continuation of h.
Stamp(j, h) == [j EXCEPT !.live = h.live, !.screen = h.screen]

LEMMA Made ==
    /\ Job("cats", "none", {}, NoMenu) \in ProperJobs
    /\ Job("readCats", "none", {}, NoMenu) \in ProperJobs
    /\ \A c \in Categories : Items(c) \in ProperJobs
    /\ \A m \in Menus : Job("findCats", "none", {}, m) \in ProperJobs
    /\ \A s \in SUBSET Categories : /\ Job("insCats", "none", s, NoMenu) \in ProperJobs
                                    /\ Job("delCats", "none", s, NoMenu) \in ProperJobs
    /\ \A m \in Menus : \A c \in DOMAIN m : Job("findProds", c, {}, m) \in ProperJobs
    /\ \A s \in SUBSET Products : Job("delProds", "none", s, NoMenu) \in ProperJobs
BY MenuAssumption DEF ProperJobs, Proper, Jobs, Job, Items, Ops, Carriers, Screens

LEMMA Marks ==
    ASSUME NEW j \in ProperJobs, NEW live \in BOOLEAN, NEW screen \in Screens
    PROVE  /\ [j EXCEPT !.live = live] \in ProperJobs
           /\ [j EXCEPT !.screen = screen] \in ProperJobs
           /\ [j EXCEPT !.live = live, !.screen = screen] \in ProperJobs
<1> DEFINE Field(k) ==
        /\ k.op = j.op /\ k.cat = j.cat /\ k.of = j.of /\ k.menu = j.menu
        /\ k \in Jobs
<1>1. \A k : Field(k) => k \in ProperJobs
    BY DEF ProperJobs, Proper
<1>2. /\ Field([j EXCEPT !.live = live])
      /\ Field([j EXCEPT !.screen = screen])
      /\ Field([j EXCEPT !.live = live, !.screen = screen])
    BY DEF ProperJobs, Jobs
<1> HIDE DEF Field
<1> QED
    BY <1>1, <1>2

LEMMA Mapped ==
    ASSUME NEW S, NEW T, NEW s \in Seq(S), NEW t,
           t = [i \in DOMAIN s |-> t[i]], \A i \in DOMAIN s : t[i] \in T
    PROVE  t \in Seq(T) /\ Len(t) = Len(s)
<1>1. Len(s) \in Nat /\ DOMAIN s = 1..Len(s)
    BY LenProperties
<1>2. t \in [1..Len(s) -> T]
    BY <1>1
<1> QED
    BY <1>1, <1>2

\* Append, as a concatenation.
LEMMA Appended ==
    ASSUME NEW S, NEW s \in Seq(S), NEW x \in S
    PROVE  /\ Append(s, x) \in Seq(S)
           /\ Range(Append(s, x)) = Range(s) \union {x}
<1> DEFINE t == <<x>>
<1>1. t \in Seq(S) /\ DOMAIN t = {1} /\ t[1] = x
    OBVIOUS
<1>2. Append(s, x) = s \o t
    OBVIOUS
<1> HIDE DEF t
<1>3. Range(t) = {x}
    BY <1>1 DEF Range
<1> QED
    BY <1>1, <1>2, <1>3, Joins

LEMMA Tails ==
    ASSUME NEW S, NEW s \in Seq(S), s # <<>>
    PROVE  /\ s[1] \in S /\ Tail(s) \in Seq(S) /\ s[1] \in Range(s)
           /\ Range(s) = {s[1]} \union Range(Tail(s))
<1> DEFINE t == Tail(s)
<1>1. /\ s[1] \in S /\ t \in Seq(S) /\ Len(s) \in Nat \ {0}
      /\ Len(t) = Len(s) - 1 /\ \A i \in 1..Len(t) : t[i] = s[i + 1]
    BY HeadTailProperties, EmptySeq
<1> HIDE DEF t
<1>2. DOMAIN s = 1..Len(s) /\ DOMAIN t = 1..Len(t)
    BY <1>1, LenProperties
<1>3. \A i \in 1..Len(s) : i = 1 \/ (i - 1 \in 1..Len(t) /\ t[i - 1] = s[i])
    <2> TAKE i \in 1..Len(s)
    <2>1. i = 1 \/ i - 1 \in 1..Len(t)
        BY <1>1
    <2>2. (i - 1) + 1 = i
        BY <1>1
    <2>3. i - 1 \in 1..Len(t) => t[i - 1] = s[(i - 1) + 1]
        BY <1>1
    <2>4. s[(i - 1) + 1] = s[i]
        BY <2>2
    <2>5. i - 1 \in 1..Len(t) => t[i - 1] = s[i]
        BY <2>3, <2>4
    <2> QED
        BY <2>1, <2>5
<1>4. \A i \in 1..Len(t) : i + 1 \in 1..Len(s) /\ t[i] = s[i + 1]
    BY <1>1
<1>5. 1 \in 1..Len(s)
    BY <1>1
<1>6. Range(s) = {s[1]} \union Range(t) /\ s[1] \in Range(s)
    <2>1. /\ \A x : x \in Range(s) <=> \E i \in 1..Len(s) : x = s[i]
          /\ \A x : x \in Range(t) <=> \E i \in 1..Len(t) : x = t[i]
        BY <1>2 DEF Range
    <2>2. ASSUME NEW x \in Range(s) PROVE x \in {s[1]} \union Range(t)
        BY <1>3, <2>1
    <2>3. ASSUME NEW x \in Range(t) PROVE x \in Range(s)
        BY <1>4, <2>1
    <2>4. s[1] \in Range(s)
        BY <1>5, <2>1
    <2> QED
        BY <2>2, <2>3, <2>4
<1> QED
    BY <1>1, <1>6 DEF t

\* What the queue holds after an operation has run and its continuation has
\* issued what it issues (Then).
LEMMA ThenQueue ==
    ASSUME jobs \in Seq(ProperJobs), jobs # <<>>, NEW todo \in Seq(ProperJobs), Then(todo)
    PROVE  /\ jobs' \in Seq(ProperJobs)
           /\ jobs[1] \in ProperJobs /\ jobs[1] \in Queued
           /\ Queued = {jobs[1]} \union Range(Tail(jobs))
           /\ Queued' = Range(Tail(jobs)) \union {Stamp(j, jobs[1]) : j \in Range(todo)}
<1> DEFINE h == jobs[1]
           t == [i \in DOMAIN todo |-> Stamp(todo[i], h)]
<1>1. /\ h \in ProperJobs /\ h \in Queued /\ Tail(jobs) \in Seq(ProperJobs)
      /\ Queued = {h} \union Range(Tail(jobs))
    BY Tails DEF Queued
<1>2. h.live \in BOOLEAN /\ h.screen \in Screens
    BY <1>1 DEF ProperJobs, Jobs
<1> HIDE DEF h
<1>3. \A i \in DOMAIN todo : todo[i] \in ProperJobs
    BY LenProperties
<1>4. \A i \in DOMAIN todo : t[i] = Stamp(todo[i], h) /\ Stamp(todo[i], h) \in ProperJobs
    BY <1>2, <1>3, Marks DEF Stamp
<1>5. t = [i \in DOMAIN todo |-> t[i]] /\ DOMAIN t = DOMAIN todo
    OBVIOUS
<1>6. jobs' = Tail(jobs) \o t
    BY DEF Then, Stamp, h
<1>7. \A i \in DOMAIN todo : t[i] \in ProperJobs
    BY <1>4
<1>8. Range(t) = {Stamp(j, h) : j \in Range(todo)}
    BY <1>4, <1>5 DEF Range
<1> HIDE DEF t
<1>9. t \in Seq(ProperJobs)
    BY <1>5, <1>7, Mapped
<1>10. /\ jobs' \in Seq(ProperJobs)
       /\ Range(jobs') = Range(Tail(jobs)) \union Range(t)
    <2>1. Tail(jobs) \in Seq(ProperJobs)
        BY <1>1
    <2>2. /\ Tail(jobs) \o t \in Seq(ProperJobs)
          /\ Range(Tail(jobs) \o t) = Range(Tail(jobs)) \union Range(t)
        BY <1>9, <2>1, Joins
    <2> QED
        BY <1>6, <2>2
<1>11. Queued' = Range(jobs')
    BY DEF Queued
<1>12. Queued' = Range(Tail(jobs)) \union {Stamp(j, h) : j \in Range(todo)}
    BY <1>8, <1>10, <1>11
<1> QED
    BY <1>1, <1>10, <1>12 DEF h

LEMMA Singles ==
    ASSUME NEW S
    PROVE  /\ <<>> \in Seq(S) /\ Range(<<>>) = {}
           /\ \A x \in S : <<x>> \in Seq(S) /\ Range(<<x>>) = {x}
<1>1. <<>> \in Seq(S) /\ Range(<<>>) = {}
    BY EmptySeq DEF Range
<1>2. ASSUME NEW x \in S PROVE <<x>> \in Seq(S) /\ Range(<<x>>) = {x}
    <2> DEFINE t == <<x>>
    <2>1. t \in Seq(S) /\ DOMAIN t = {1} /\ t[1] = x
        OBVIOUS
    <2> HIDE DEF t
    <2>2. Range(t) = {x}
        BY <2>1 DEF Range
    <2> QED
        BY <2>1, <2>2 DEF t
<1> QED
    BY <1>1, <1>2

\* What updateCategoriesDetails issues for one category of the answer, and
\* in all.
DetailsOf(h, c) ==
    IF h.menu[c] = {} THEN Range(OnMenu(<<Items(selected)>>))
                      ELSE {Job("findProds", c, {}, h.menu)}

FoundOf(h) ==
    (IF h.live THEN {Job("insCats", "none", DOMAIN h.menu \ cats, NoMenu)}
                    \union UNION {DetailsOf(h, c) : c \in DOMAIN h.menu}
               ELSE {})
    \union {Job("delCats", "none", cats \ DOMAIN h.menu, NoMenu)}
    \union Range(OnMenu(<<Job("readCats", "none", {}, NoMenu)>>))

LEMMA OnMenuTodo ==
    ASSUME NEW S, NEW todo \in Seq(S)
    PROVE  OnMenu(todo) \in Seq(S)
BY Singles DEF OnMenu

LEMMA FindCatsIssues ==
    ASSUME TypeInv, FindCats
    PROVE  \E todo \in Seq(ProperJobs) : Then(todo) /\ Range(todo) = FoundOf(jobs[1])
<1> DEFINE h == jobs[1]
           m == h.menu
           details(c) == IF m[c] = {} THEN OnMenu(<<Items(selected)>>)
                                      ELSE <<Job("findProds", c, {}, m)>>
<1>1. h \in ProperJobs /\ h.op = "findCats"
    BY Tails DEF TypeInv, FindCats, Runs
<1>2. m \in Menus /\ IsFiniteSet(DOMAIN m) /\ DOMAIN m \subseteq Categories
    BY <1>1, MenuAssumption DEF ProperJobs, Proper
<1>3. \A c \in DOMAIN m :
        details(c) \in Seq(ProperJobs) /\ Range(details(c)) = DetailsOf(h, c)
    <2> TAKE c \in DOMAIN m
    <2>1. Items(selected) \in ProperJobs /\ Job("findProds", c, {}, m) \in ProperJobs
        BY <1>2, Made DEF TypeInv, TypeOK
    <2>2. /\ <<Items(selected)>> \in Seq(ProperJobs)
          /\ <<Job("findProds", c, {}, m)>> \in Seq(ProperJobs)
          /\ Range(<<Job("findProds", c, {}, m)>>) = {Job("findProds", c, {}, m)}
        BY <2>1, Singles
    <2>3. OnMenu(<<Items(selected)>>) \in Seq(ProperJobs)
        BY <2>2, OnMenuTodo
    <2> QED
        BY <2>2, <2>3 DEF DetailsOf
<1>4. PICK order \in SetToSeqs(DOMAIN m) :
        Then((IF h.live
                THEN <<Job("insCats", "none", DOMAIN m \ cats, NoMenu)>>
                     \o FlattenSeq([i \in DOMAIN order |-> details(order[i])])
                ELSE <<>>)
             \o <<Job("delCats", "none", cats \ DOMAIN m, NoMenu)>>
             \o OnMenu(<<Job("readCats", "none", {}, NoMenu)>>))
    BY DEF FindCats
<1> DEFINE all == [i \in DOMAIN order |-> details(order[i])]
           flat == FlattenSeq(all)
           first == <<Job("insCats", "none", DOMAIN m \ cats, NoMenu)>>
           part == IF h.live THEN first \o flat ELSE <<>>
           second == <<Job("delCats", "none", cats \ DOMAIN m, NoMenu)>>
           third == OnMenu(<<Job("readCats", "none", {}, NoMenu)>>)
<1>5. Then(part \o second \o third)
    BY <1>4
<1> HIDE DEF h, details
<1>6. order \in Seq(DOMAIN m) /\ Range(order) = DOMAIN m
    BY <1>2, Ordered
<1>7. \A i \in DOMAIN order : order[i] \in DOMAIN m
    BY <1>6, LenProperties
<1>8. /\ all = [i \in DOMAIN order |-> all[i]] /\ DOMAIN all = DOMAIN order
      /\ \A i \in DOMAIN order : all[i] = details(order[i])
    OBVIOUS
<1> HIDE DEF all
<1>9. \A i \in DOMAIN order : all[i] \in Seq(ProperJobs)
    BY <1>3, <1>7, <1>8
<1>10. all \in Seq(Seq(ProperJobs))
    BY <1>6, <1>8, <1>9, Mapped
<1>11. flat \in Seq(ProperJobs) /\ Range(flat) = UNION {Range(all[i]) : i \in DOMAIN all}
    BY <1>10, Flattened
<1>12. Range(flat) = UNION {DetailsOf(h, c) : c \in DOMAIN m}
    <2>1. \A i \in DOMAIN order : Range(all[i]) = DetailsOf(h, order[i])
        BY <1>3, <1>7, <1>8
    <2>2. UNION {Range(all[i]) : i \in DOMAIN all}
            = UNION {DetailsOf(h, order[i]) : i \in DOMAIN order}
        BY <1>8, <2>1
    <2>3. {DetailsOf(h, order[i]) : i \in DOMAIN order} = {DetailsOf(h, c) : c \in Range(order)}
        BY DEF Range
    <2> QED
        BY <1>6, <1>11, <2>2, <2>3
<1> HIDE DEF flat
<1>13. /\ Job("insCats", "none", DOMAIN m \ cats, NoMenu) \in ProperJobs
       /\ Job("delCats", "none", cats \ DOMAIN m, NoMenu) \in ProperJobs
       /\ Job("readCats", "none", {}, NoMenu) \in ProperJobs
    <2>1. DOMAIN m \ cats \in SUBSET Categories /\ cats \ DOMAIN m \in SUBSET Categories
        BY <1>2 DEF TypeInv, TypeOK
    <2> QED
        BY <2>1, Made
<1>14. /\ first \in Seq(ProperJobs) /\ second \in Seq(ProperJobs)
       /\ Range(first) = {Job("insCats", "none", DOMAIN m \ cats, NoMenu)}
       /\ Range(second) = {Job("delCats", "none", cats \ DOMAIN m, NoMenu)}
       /\ third \in Seq(ProperJobs)
    BY <1>13, Singles, OnMenuTodo
<1>15. Range(third) = Range(OnMenu(<<Job("readCats", "none", {}, NoMenu)>>))
    OBVIOUS
<1> HIDE DEF first, second, third
<1>16. \A s, t \in Seq(ProperJobs) :
        s \o t \in Seq(ProperJobs) /\ Range(s \o t) = Range(s) \union Range(t)
    BY Joins
<1>17. /\ first \in Seq(ProperJobs) /\ second \in Seq(ProperJobs)
       /\ third \in Seq(ProperJobs) /\ flat \in Seq(ProperJobs)
    BY <1>11, <1>14
<1>18. /\ part \in Seq(ProperJobs)
       /\ Range(part) = IF h.live THEN {Job("insCats", "none", DOMAIN m \ cats, NoMenu)}
                                       \union UNION {DetailsOf(h, c) : c \in DOMAIN m}
                                  ELSE {}
    <2>1. /\ first \o flat \in Seq(ProperJobs)
          /\ Range(first \o flat) = Range(first) \union Range(flat)
        BY <1>16, <1>17
    <2> QED
        BY <1>12, <1>14, <2>1, Singles
<1> HIDE DEF part
<1>19. /\ part \o second \in Seq(ProperJobs)
       /\ Range(part \o second) = Range(part) \union Range(second)
    BY <1>18, <1>16, <1>17
<1>20. /\ part \o second \o third \in Seq(ProperJobs)
       /\ Range(part \o second \o third) = Range(part) \union Range(second) \union Range(third)
    BY <1>19, <1>16, <1>17
<1>21. Range(part \o second \o third) = FoundOf(h)
    BY <1>14, <1>15, <1>18, <1>20 DEF FoundOf
<1> QED
    BY <1>5, <1>20, <1>21 DEF h
\* What the continuation of each operation issues.
NewOf(h) == {p \in h.menu[h.cat] : prods[p] = "none"}

IssuedBy(h) ==
    CASE h.op = "cats"      -> IF cats = {} THEN {} ELSE {Items(selected)}
      [] h.op = "findCats"  -> FoundOf(h)
      [] h.op = "findProds" -> (IF h.live THEN {[h EXCEPT !.op = "putProds", !.of = NewOf(h)]}
                                          ELSE {}) \union {[h EXCEPT !.op = "acc"]}
      [] h.op = "acc"       -> {Job("delProds", "none", InCategory(h.cat) \ h.menu[h.cat], NoMenu)}
                               \union Range(OnMenu(<<Items(selected)>>))
      [] OTHER              -> {}

LEMMA ItemsTodo ==
    ASSUME TypeInv
    PROVE  /\ Items(selected) \in ProperJobs
           /\ <<Items(selected)>> \in Seq(ProperJobs)
           /\ Range(<<Items(selected)>>) = {Items(selected)}
           /\ OnMenu(<<Items(selected)>>) \in Seq(ProperJobs)
           /\ <<>> \in Seq(ProperJobs) /\ Range(<<>>) = {}
<1>1. Items(selected) \in ProperJobs
    BY Made DEF TypeInv, TypeOK
<1>2. <<Items(selected)>> \in Seq(ProperJobs) /\ Range(<<Items(selected)>>) = {Items(selected)}
    BY <1>1, Singles
<1> QED
    BY <1>1, <1>2, OnMenuTodo, Singles

LEMMA FindProdsIssues ==
    ASSUME TypeInv, FindProds
    PROVE  \E todo \in Seq(ProperJobs) : Then(todo) /\ Range(todo) = IssuedBy(jobs[1])
<1> DEFINE h == jobs[1]
           put == [h EXCEPT !.op = "putProds", !.of = NewOf(h)]
           acc == [h EXCEPT !.op = "acc"]
           first == IF h.live THEN <<put>> ELSE <<>>
           second == <<acc>>
<1>1. h \in ProperJobs /\ h.op = "findProds"
    BY Tails DEF TypeInv, FindProds, Runs
<1>2. Then(first \o second)
    BY DEF FindProds, NewOf
<1>3. IssuedBy(h) = (IF h.live THEN {put} ELSE {}) \union {acc}
    BY <1>1 DEF IssuedBy
<1> HIDE DEF h
<1>4. NewOf(h) \in SUBSET Products
    BY <1>1, MenuAssumption DEF ProperJobs, Proper, Carriers, NewOf
<1>5. put \in ProperJobs /\ acc \in ProperJobs
    <2> DEFINE new == NewOf(h)
    <2> HIDE DEF new
    <2>1. new \in SUBSET Products
        BY <1>4 DEF new
    <2>2. [h EXCEPT !.op = "putProds", !.of = new] \in ProperJobs
        BY <1>1, <2>1 DEF ProperJobs, Proper, Jobs, Ops, Carriers
    <2>3. acc \in ProperJobs
        BY <1>1 DEF ProperJobs, Proper, Jobs, Ops, Carriers
    <2> QED
        BY <2>2, <2>3 DEF new
<1> HIDE DEF put, acc
<1>6. /\ first \in Seq(ProperJobs) /\ second \in Seq(ProperJobs)
      /\ Range(first) = (IF h.live THEN {put} ELSE {}) /\ Range(second) = {acc}
    BY <1>5, Singles
<1> HIDE DEF first, second
<1>7. /\ first \o second \in Seq(ProperJobs)
      /\ Range(first \o second) = Range(first) \union Range(second)
    BY <1>6, Joins
<1> QED
    BY <1>2, <1>3, <1>6, <1>7 DEF h

LEMMA AccIssues ==
    ASSUME TypeInv, Acc
    PROVE  \E todo \in Seq(ProperJobs) : Then(todo) /\ Range(todo) = IssuedBy(jobs[1])
<1> DEFINE h == jobs[1]
           del == Job("delProds", "none", InCategory(h.cat) \ h.menu[h.cat], NoMenu)
           first == <<del>>
           second == OnMenu(<<Items(selected)>>)
<1>1. h \in ProperJobs /\ h.op = "acc"
    BY Tails DEF TypeInv, Acc, Runs
<1>2. Then(first \o second)
    BY DEF Acc
<1>3. IssuedBy(h) = {del} \union Range(second)
    BY <1>1 DEF IssuedBy
<1>4. InCategory(h.cat) \ h.menu[h.cat] \in SUBSET Products
    BY DEF InCategory
<1>5. del \in ProperJobs
    BY <1>4, Made
<1> HIDE DEF h, del
<1>6. first \in Seq(ProperJobs) /\ Range(first) = {del} /\ second \in Seq(ProperJobs)
    BY <1>5, Singles, ItemsTodo
<1> HIDE DEF first, second
<1>7. /\ first \o second \in Seq(ProperJobs)
      /\ Range(first \o second) = Range(first) \union Range(second)
    BY <1>6, Joins
<1> QED
    BY <1>2, <1>3, <1>6, <1>7 DEF h

Silent == {"insCats", "delCats", "readCats", "putProds", "delProds", "items"}

LEMMA Issues ==
    ASSUME TypeInv, Operations
    PROVE  /\ jobs # <<>>
           /\ \E todo \in Seq(ProperJobs) : Then(todo) /\ Range(todo) = IssuedBy(jobs[1])
<1>1. jobs # <<>>
    BY DEF Operations, Runs, Cats, FindCats, InsCats, DelCats, ReadCats,
           FindProds, PutProds, Acc, DelProds, ReadItems
<1>2. CASE FindCats
    <2>1. jobs[1].op = "findCats"
        BY <1>2 DEF FindCats, Runs
    <2>2. IssuedBy(jobs[1]) = FoundOf(jobs[1])
        BY <2>1 DEF IssuedBy
    <2> QED
        BY <1>1, <1>2, <2>2, FindCatsIssues
<1>3. CASE FindProds
    BY <1>1, <1>3, FindProdsIssues
<1>4. CASE Acc
    BY <1>1, <1>4, AccIssues
<1>5. CASE Cats
    <2>1. CASE cats = {}
        BY <1>1, <1>5, <2>1, ItemsTodo DEF Cats, Runs, IssuedBy
    <2>2. CASE cats # {}
        BY <1>1, <1>5, <2>2, ItemsTodo DEF Cats, Runs, IssuedBy
    <2> QED
        BY <2>1, <2>2
<1>6. CASE InsCats \/ DelCats \/ ReadCats \/ PutProds \/ DelProds \/ ReadItems
    <2>1. jobs[1].op \in Silent /\ Then(<<>>)
        BY <1>6 DEF InsCats, DelCats, ReadCats, PutProds, DelProds, ReadItems, Runs, Silent
    <2>2. IssuedBy(jobs[1]) = {}
        BY <2>1 DEF IssuedBy, Silent
    <2> QED
        BY <1>1, <2>1, <2>2, ItemsTodo
<1> QED
    BY <1>1, <1>2, <1>3, <1>4, <1>5, <1>6 DEF Operations

LEMMA OperationQueue ==
    ASSUME TypeInv, Operations
    PROVE  /\ jobs # <<>> /\ jobs' \in Seq(ProperJobs)
           /\ jobs[1] \in ProperJobs /\ jobs[1] \in Queued
           /\ Queued = {jobs[1]} \union Range(Tail(jobs))
           /\ Queued' = Range(Tail(jobs))
                        \union {Stamp(j, jobs[1]) : j \in IssuedBy(jobs[1])}
<1>1. PICK todo \in Seq(ProperJobs) : Then(todo) /\ Range(todo) = IssuedBy(jobs[1])
    BY Issues
<1> HIDE DEF Operations
<1>2. jobs # <<>> /\ jobs \in Seq(ProperJobs)
    BY Issues DEF TypeInv
<1>3. Queued' = Range(Tail(jobs)) \union {Stamp(j, jobs[1]) : j \in Range(todo)}
    BY <1>1, <1>2, ThenQueue
<1> QED
    BY <1>1, <1>2, <1>3, ThenQueue

LEMMA Retyped ==
    ASSUME jobs' \in Seq(ProperJobs)
    PROVE  jobs' \in Seq(Jobs)
BY SeqMonotonic DEF ProperJobs

LEMMA QueueLeft ==
    ASSUME TypeInv, NEW same \in BOOLEAN
    PROVE  [i \in DOMAIN jobs |->
                [jobs[i] EXCEPT !.live = @ /\ same /\ jobs[i].screen = "home"]] \in Seq(ProperJobs)
<1> DEFINE t == [i \in DOMAIN jobs |->
                    [jobs[i] EXCEPT !.live = @ /\ same /\ jobs[i].screen = "home"]]
<1>1. \A i \in DOMAIN jobs : jobs[i] \in ProperJobs
    BY LenProperties DEF TypeInv
<1>2. ASSUME NEW i \in DOMAIN jobs PROVE t[i] \in ProperJobs
    <2> DEFINE j == jobs[i]
               l == j.live /\ same /\ j.screen = "home"
    <2>1. t[i] = [j EXCEPT !.live = l]
        OBVIOUS
    <2>2. j \in ProperJobs /\ l \in BOOLEAN
        BY <1>1
    <2> HIDE DEF j, l
    <2>3. [j EXCEPT !.live = l] \in ProperJobs
        BY <2>2, Marks DEF Screens
    <2> QED
        BY <2>1, <2>3
<1>3. t = [i \in DOMAIN jobs |-> t[i]]
    OBVIOUS
<1> HIDE DEF t
<1>4. t \in Seq(ProperJobs)
    BY <1>2, <1>3, Mapped DEF TypeInv
<1> QED
    BY <1>4 DEF t

LEMMA VisitKeepsType ==
    ASSUME TypeInv, NEW f \in Fetches, NEW c \in Categories,
           NEW queued \in Seq(ProperJobs), Visit(f, c, queued),
           HomeAsks \/ UNCHANGED home
    PROVE  TypeInv'
<1>1. jobs' \in Seq(ProperJobs)
    BY Appended, Made DEF Visit
<1>2. home' \in [stage: {"off", "sent", "served"}, menu: Menus \union {NoMenu}]
    BY DEF HomeAsks, TypeInv, TypeOK
<1>3. pc' \in [Fetches -> Stages]
    BY DEF Visit, TypeInv, TypeOK
<1> QED
    BY <1>1, <1>2, <1>3, Retyped DEF Visit, TypeInv, TypeOK, tables

LEMMA CustomerKeepsType ==
    ASSUME TypeInv, Customer
    PROVE  TypeInv'
<1>1. ASSUME NEW c \in Categories, Select(c) PROVE TypeInv'
    <2>1. jobs' \in Seq(ProperJobs)
        BY <1>1, Appended, Made DEF Select, TypeInv
    <2> QED
        BY <1>1, <2>1, Retyped DEF Select, TypeInv, TypeOK, tables, stored
<1>2. ASSUME NEW f \in Fetches, Mark(f) PROVE TypeInv'
    BY <1>2 DEF Mark, TypeInv, TypeOK, tables, stored
<1>3. ASSUME NEW f \in Fetches, NEW c \in Categories, Restart(f, c) PROVE TypeInv'
    BY <1>3, EmptySeq, VisitKeepsType DEF Restart
<1>4. ASSUME NEW f \in Fetches, NEW c \in Categories, NEW same \in BOOLEAN,
             Reopen(f, c, same)
      PROVE  TypeInv'
    BY <1>4, QueueLeft, VisitKeepsType DEF Reopen
<1> QED
    BY <1>1, <1>2, <1>3, <1>4 DEF Customer

LEMMA StoresType ==
    ASSUME NEW m \in Menus \union {NoMenu}, NEW by, Stores(m, by)
    PROVE  /\ last' \in Menus \union {NoMenu}
           /\ kept' \subseteq Products
           /\ reread' \in BOOLEAN
BY DEF Stores

LEMMA NetworkKeepsType ==
    ASSUME TypeInv, Network
    PROVE  TypeInv'
<1> USE DEF TypeInv, TypeOK, tables, stored, screenVars
<1>1. CASE ChangeMenu
    BY <1>1 DEF ChangeMenu
<1>2. CASE HomeServed
    BY <1>2 DEF HomeServed
<1>3. CASE HomeFails
    BY <1>3 DEF HomeFails
<1>4. CASE HomeAnswered
    <2> DEFINE j == Job("findCats", "none", {}, home.menu)
    <2>1. home.menu \in Menus
        BY <1>4 DEF HomeAnswered
    <2>2. [j EXCEPT !.screen = "home"] \in ProperJobs
        BY <2>1, Made, Marks DEF Screens
    <2>3. jobs' \in Seq(ProperJobs)
        BY <1>4, <2>2, Appended DEF HomeAnswered
    <2> QED
        BY <1>4, <2>1, <2>3, StoresType, Retyped DEF HomeAnswered
<1>5. ASSUME NEW f \in Fetches, MarkSent(f) \/ Marked(f) \/ AskMenu(f) PROVE TypeInv'
    BY <1>5 DEF MarkSent, Marked, AskMenu, Proceeds, Goto
<1>6. ASSUME NEW f \in Fetches, Fails(f) PROVE TypeInv'
    BY <1>6 DEF Fails, Goto
<1>7. ASSUME NEW f \in Fetches, Serve(f) PROVE TypeInv'
    BY <1>7 DEF Serve, Goto
<1>8. ASSUME NEW f \in Fetches, Refused(f) PROVE TypeInv'
    BY <1>8 DEF Refused, Goto, Lowered
<1>9. ASSUME NEW f \in Fetches, Answered(f) PROVE TypeInv'
    <2> DEFINE j == IF reply[f] = NoMenu THEN Job("readCats", "none", {}, NoMenu)
                                         ELSE Job("findCats", "none", {}, reply[f])
               i == Items(selected)
    <2>1. reply[f] \in Menus \union {NoMenu}
        OBVIOUS
    <2>2. j \in ProperJobs /\ i \in ProperJobs
        BY <2>1, Made
    <2>3. jobs' = jobs \o <<j, i>>
        BY <1>9 DEF Answered
    <2> HIDE DEF i, j
    <2>4. <<j, i>> \in Seq(ProperJobs)
        BY <2>2
    <2>5. jobs' \in Seq(ProperJobs)
        BY <2>3, <2>4, Joins
    <2> QED
        BY <1>9, <2>1, <2>5, StoresType, Retyped DEF Answered, Goto, Lowered
<1> QED
    BY <1>1, <1>2, <1>3, <1>4, <1>5, <1>6, <1>7, <1>8, <1>9 DEF Network

LEMMA OperationsKeepType ==
    ASSUME TypeInv, Operations
    PROVE  TypeInv'
<1>1. jobs' \in Seq(ProperJobs) /\ jobs' \in Seq(Jobs)
    BY OperationQueue, Retyped
<1>2. jobs[1] \in ProperJobs
    BY OperationQueue
<1> USE DEF TypeInv, TypeOK, tables, stored, screenVars, OnlyTables, Runs
<1>3. CASE Cats
    <2>1. pc' \in [Fetches -> Stages]
        BY <1>3 DEF Cats, Goto
    <2> QED
        BY <1>1, <1>3, <2>1 DEF Cats
<1>4. CASE FindCats \/ FindProds \/ Acc
    BY <1>1, <1>4 DEF FindCats, FindProds, Acc
<1>5. CASE InsCats \/ DelCats
    BY <1>1, <1>2, <1>5 DEF InsCats, DelCats, ProperJobs, Proper
<1>6. CASE ReadCats \/ ReadItems
    BY <1>1, <1>6 DEF ReadCats, ReadItems, InCategory
<1>7. CASE DelProds
    BY <1>1, <1>7 DEF DelProds
<1>8. CASE PutProds
    <2>1. jobs[1].cat \in Categories
        BY <1>2, <1>8, MenuAssumption DEF PutProds, ProperJobs, Proper, Carriers
    <2> QED
        BY <1>1, <1>8, <2>1 DEF PutProds
<1> QED
    BY <1>3, <1>4, <1>5, <1>6, <1>7, <1>8 DEF Operations

LEMMA TypeKept == Spec => []TypeInv
<1>1. Init => TypeInv
    <2> SUFFICES ASSUME Init PROVE TypeInv
        OBVIOUS
    <2>1. jobs \in Seq(ProperJobs) /\ jobs \in Seq(Jobs)
        BY Made, Singles DEF Init, ProperJobs
    <2> QED
        BY <2>1 DEF Init, TypeInv, TypeOK
<1>2. TypeInv /\ [Next]_vars => TypeInv'
    <2> SUFFICES ASSUME TypeInv, [Next]_vars PROVE TypeInv'
        OBVIOUS
    <2>1. CASE UNCHANGED vars
        BY <2>1 DEF vars, tables, screenVars, stored, TypeInv, TypeOK
    <2> QED
        BY <2>1, CustomerKeepsType, NetworkKeepsType, OperationsKeepType DEF Next
<1> QED
    BY <1>1, <1>2, PTL DEF Spec

\* Only categories and products that there are reach the tables, the queue and
\* the screen (CategoryDataDao, ProductsDataDao): the category that findProds,
\* putProds and acc work on is always one of the menu they carry, even when the
\* screen that asked for them is gone or another menu is being stored.
THEOREM TypeCorrect == Spec => []TypeOK
<1>1. TypeInv => TypeOK
    BY DEF TypeInv
<1> QED
    BY <1>1, TypeKept, PTL

-----------------------------------------------------------------------------
(* StoredIsSent, when answers do not overlap: while a menu is being stored  *)
(* whole, every operation queued belongs to it, and whatever the tables     *)
(* lack of it, or have beyond it, is the business of an operation queued.   *)

Finding        == \E j \in Queued : j.op = "findCats"
Brings(op, x)  == \E j \in Queued : j.op = op /\ x \in j.of
About(op, c)   == \E j \in Queued : j.op = op /\ j.cat = c
Inserts(c, p)  == \E j \in Queued : j.op = "putProds" /\ j.cat = c /\ p \in j.of

\* An operation of the menu stored last does no harm to it.
Innocent(j) ==
    /\ j.live
    /\ j.op \in Carriers \union {"findCats"} => j.menu = last
    /\ j.op \in Carriers => last[j.cat] # {}
    /\ j.op = "insCats" => j.of \subseteq DOMAIN last
    /\ j.op = "delCats" => j.of \intersect DOMAIN last = {}
    /\ j.op = "delProds" => \A c \in DOMAIN last : j.of \intersect last[c] \intersect kept = {}

CategoriesDue ==
    /\ \A c \in DOMAIN last \ cats : Finding \/ Brings("insCats", c)
    /\ \A c \in cats \ DOMAIN last : Finding \/ Brings("delCats", c)

ProductsDue ==
    \A c \in DOMAIN last : \A p \in last[c] \intersect kept :
        /\ prods[p] \in {c, "none"}
        /\ prods[p] = "none" => Finding \/ About("findProds", c) \/ Inserts(c, p)

DeletionsDue ==
    \A c \in DOMAIN last : \A p \in InCategory(c) \ last[c] :
        last[c] # {} => \/ Finding \/ About("findProds", c) \/ About("acc", c)
                        \/ Brings("delProds", p)

StoreInv ==
    last # NoMenu =>
        /\ \A j \in Queued : Innocent(j)
        /\ CategoriesDue
        /\ ProductsDue
        /\ DeletionsDue

Harmless == {"cats", "readCats", "items"}

\* Operations that only read add nothing to what is due and take nothing away.
LEMMA ReadsKeepStore ==
    ASSUME StoreInv, UNCHANGED <<cats, prods, last, kept>>,
           \A j \in Queued' : j \in Queued \/ (j.op \in Harmless /\ (last # NoMenu => j.live)),
           \A j \in Queued : j \in Queued' \/ j.op \in Harmless
    PROVE  StoreInv'
<1> SUFFICES ASSUME last # NoMenu
             PROVE  /\ \A j \in Queued' : Innocent(j)'
                    /\ CategoriesDue' /\ ProductsDue' /\ DeletionsDue'
    BY DEF StoreInv
<1>1. ASSUME NEW j \in Queued' PROVE Innocent(j)'
    BY <1>1 DEF StoreInv, Innocent, Harmless, Carriers
<1>2. /\ Finding => Finding'
      /\ \A op \in {"insCats", "delCats", "delProds"} : \A x : Brings(op, x) => Brings(op, x)'
      /\ \A op \in {"findProds", "acc"} : \A c : About(op, c) => About(op, c)'
      /\ \A c, p : Inserts(c, p) => Inserts(c, p)'
    BY DEF Finding, Brings, About, Inserts, Harmless
<1>3. CategoriesDue'
    BY <1>2 DEF StoreInv, CategoriesDue
<1>4. ProductsDue'
    BY <1>2 DEF StoreInv, ProductsDue
<1>5. DeletionsDue'
    BY <1>2 DEF StoreInv, DeletionsDue, InCategory
<1> QED
    BY <1>1, <1>3, <1>4, <1>5

\* A menu starts to be stored: either nothing was queued, or the same menu is
\* being stored already.
LEMMA StoresKeepStore ==
    ASSUME TypeInv, StoreInv, ~Overlap, NEW m \in Menus, m # NoMenu, MayStore(m),
           NEW by, Stores(m, by), UNCHANGED <<cats, prods>>,
           NEW new, Queued' = Queued \union new,
           \E j \in new : j.op = "findCats",
           \A j \in new : j.live /\ (j.op \in Harmless \/ (j.op = "findCats" /\ j.menu = m))
    PROVE  StoreInv'
<1>1. Finding' /\ last' = m
    BY DEF Finding, Stores
<1>2. CASE jobs = <<>>
    <2>1. Queued' = new
        BY <1>2 DEF Queued, Range
    <2>2. ASSUME NEW j \in Queued' PROVE Innocent(j)'
        BY <1>1, <2>1 DEF Innocent, Harmless, Carriers
    <2>3. ProductsDue'
        BY <1>1 DEF ProductsDue, Stores
    <2>4. CategoriesDue' /\ DeletionsDue'
        BY <1>1 DEF CategoriesDue, DeletionsDue
    <2> QED
        BY <2>2, <2>3, <2>4 DEF StoreInv
<1>3. CASE jobs # <<>>
    <2>1. m = last /\ last # NoMenu /\ kept' \subseteq kept
        BY <1>3 DEF MayStore, Stores
    <2>2. ASSUME NEW j \in Queued' PROVE Innocent(j)'
        <3>1. CASE j \in new
            BY <1>1, <3>1 DEF Innocent, Harmless, Carriers
        <3>2. CASE j \in Queued
            <4>1. Innocent(j) /\ last' = last
                BY <1>1, <2>1, <3>2 DEF StoreInv
            <4>2. j.op = "delProds" => \A c \in DOMAIN last :
                    j.of \intersect last[c] \intersect kept' = {}
                BY <2>1, <4>1 DEF Innocent
            <4> QED
                BY <4>1, <4>2 DEF Innocent
        <3> QED
            BY <3>1, <3>2
    <2>3. ProductsDue'
        BY <1>1, <2>1 DEF ProductsDue, Stores
    <2>4. CategoriesDue' /\ DeletionsDue'
        BY <1>1 DEF CategoriesDue, DeletionsDue
    <2> QED
        BY <2>2, <2>3, <2>4 DEF StoreInv
<1> QED
    BY <1>2, <1>3

\* One operation of the menu that is being stored, once it has run.
LEMMA HeadOf ==
    ASSUME TypeInv, StoreInv, last # NoMenu, Operations
    PROVE  /\ jobs[1] \in ProperJobs /\ Innocent(jobs[1]) /\ jobs[1] \in Queued
           /\ \A j \in Queued : j # jobs[1] => j \in Queued'
           /\ \A j \in Queued' : \/ j \in Queued
                                 \/ \E k \in IssuedBy(jobs[1]) : j = Stamp(k, jobs[1])
           /\ \A k \in IssuedBy(jobs[1]) : Stamp(k, jobs[1]) \in Queued'
<1> HIDE DEF Operations
<1>1. /\ jobs[1] \in ProperJobs /\ jobs[1] \in Queued
      /\ Queued = {jobs[1]} \union Range(Tail(jobs))
      /\ Queued' = Range(Tail(jobs)) \union {Stamp(j, jobs[1]) : j \in IssuedBy(jobs[1])}
    BY OperationQueue
<1>2. Innocent(jobs[1])
    BY <1>1 DEF StoreInv
<1> QED
    BY <1>1, <1>2

\* Where an operation issues nothing, what is left was queued before.
LEMMA SilentOf ==
    ASSUME TypeInv, StoreInv, last # NoMenu, Operations, jobs[1].op \in Silent
    PROVE  Queued' \subseteq Queued
<1>1. IssuedBy(jobs[1]) = {}
    BY DEF IssuedBy, Silent
<1> QED
    BY <1>1, HeadOf

LEMMA InsCatsKeepsStore ==
    ASSUME TypeInv, StoreInv, last # NoMenu, InsCats
    PROVE  StoreInv'
<1> DEFINE h == jobs[1]
<1>1. /\ Operations /\ h.op = "insCats" /\ cats' = cats \union h.of
      /\ UNCHANGED <<last, kept, prods>>
    BY DEF InsCats, Operations, Runs, OnlyTables, stored
<1>2. /\ Queued' \subseteq Queued /\ Innocent(h)
      /\ \A j \in Queued : j # h => j \in Queued'
    BY <1>1, HeadOf, SilentOf DEF Silent
<1> HIDE DEF h
<1>3. /\ Finding => Finding'
      /\ \A c : Brings("delCats", c) => Brings("delCats", c)'
      /\ \A c : Brings("insCats", c) => Brings("insCats", c)' \/ c \in h.of
      /\ \A c : About("findProds", c) => About("findProds", c)'
      /\ \A c : About("acc", c) => About("acc", c)'
      /\ \A c, p : Inserts(c, p) => Inserts(c, p)'
      /\ \A p : Brings("delProds", p) => Brings("delProds", p)'
    BY <1>1, <1>2 DEF Finding, Brings, About, Inserts
<1>4. \A j \in Queued' : Innocent(j)'
    BY <1>1, <1>2 DEF StoreInv, Innocent
<1>5. h.of \subseteq DOMAIN last
    BY <1>1, <1>2 DEF Innocent
<1>6. CategoriesDue'
    BY <1>1, <1>3, <1>5 DEF StoreInv, CategoriesDue
<1>7. ProductsDue'
    BY <1>1, <1>3 DEF StoreInv, ProductsDue
<1>8. DeletionsDue'
    BY <1>1, <1>3 DEF StoreInv, DeletionsDue, InCategory
<1> QED
    BY <1>4, <1>6, <1>7, <1>8 DEF StoreInv

LEMMA DelCatsKeepsStore ==
    ASSUME TypeInv, StoreInv, last # NoMenu, DelCats
    PROVE  StoreInv'
<1> DEFINE h == jobs[1]
<1>1. /\ Operations /\ h.op = "delCats" /\ cats' = cats \ h.of
      /\ UNCHANGED <<last, kept, prods>>
    BY DEF DelCats, Operations, Runs, OnlyTables, stored
<1>2. /\ Queued' \subseteq Queued /\ Innocent(h)
      /\ \A j \in Queued : j # h => j \in Queued'
    BY <1>1, HeadOf, SilentOf DEF Silent
<1> HIDE DEF h
<1>3. /\ Finding => Finding'
      /\ \A c : Brings("delCats", c) => Brings("delCats", c)' \/ c \in h.of
      /\ \A c : Brings("insCats", c) => Brings("insCats", c)'
      /\ \A c : About("findProds", c) => About("findProds", c)'
      /\ \A c : About("acc", c) => About("acc", c)'
      /\ \A c, p : Inserts(c, p) => Inserts(c, p)'
      /\ \A p : Brings("delProds", p) => Brings("delProds", p)'
    BY <1>1, <1>2 DEF Finding, Brings, About, Inserts
<1>4. \A j \in Queued' : Innocent(j)'
    BY <1>1, <1>2 DEF StoreInv, Innocent
<1>5. h.of \intersect DOMAIN last = {}
    BY <1>1, <1>2 DEF Innocent
<1>6. CategoriesDue'
    BY <1>1, <1>3, <1>5 DEF StoreInv, CategoriesDue
<1>7. ProductsDue'
    BY <1>1, <1>3 DEF StoreInv, ProductsDue
<1>8. DeletionsDue'
    BY <1>1, <1>3 DEF StoreInv, DeletionsDue, InCategory
<1> QED
    BY <1>4, <1>6, <1>7, <1>8 DEF StoreInv

LEMMA DelProdsKeepsStore ==
    ASSUME TypeInv, StoreInv, last # NoMenu, DelProds
    PROVE  StoreInv'
<1> DEFINE h == jobs[1]
<1>1. /\ Operations /\ h.op = "delProds"
      /\ prods' = [p \in Products |-> IF p \in h.of THEN "none" ELSE prods[p]]
      /\ UNCHANGED <<last, kept, cats>>
    BY DEF DelProds, Operations, Runs, OnlyTables, stored
<1>2. /\ Queued' \subseteq Queued /\ Innocent(h)
      /\ \A j \in Queued : j # h => j \in Queued'
    BY <1>1, HeadOf, SilentOf DEF Silent
<1> HIDE DEF h
<1>3. /\ Finding => Finding'
      /\ \A c : Brings("delCats", c) => Brings("delCats", c)'
      /\ \A c : Brings("insCats", c) => Brings("insCats", c)'
      /\ \A c : About("findProds", c) => About("findProds", c)'
      /\ \A c : About("acc", c) => About("acc", c)'
      /\ \A c, p : Inserts(c, p) => Inserts(c, p)'
      /\ \A p : Brings("delProds", p) => Brings("delProds", p)' \/ p \in h.of
    BY <1>1, <1>2 DEF Finding, Brings, About, Inserts
<1>4. \A j \in Queued' : Innocent(j)'
    BY <1>1, <1>2 DEF StoreInv, Innocent
<1>5. /\ \A c \in DOMAIN last : h.of \intersect last[c] \intersect kept = {}
      /\ kept \subseteq Products /\ "none" \notin DOMAIN last
    BY <1>1, <1>2, MenuAssumption DEF Innocent, TypeInv, TypeOK
<1>6. CategoriesDue'
    BY <1>1, <1>3 DEF StoreInv, CategoriesDue
<1>7. ProductsDue'
    BY <1>1, <1>3, <1>5 DEF StoreInv, ProductsDue
<1>8. DeletionsDue'
    <2>1. \A p \in Products, c \in DOMAIN last : prods'[p] = c => prods[p] = c /\ p \notin h.of
        BY <1>1, <1>5
    <2> QED
        BY <1>1, <1>3, <2>1 DEF StoreInv, DeletionsDue, InCategory
<1> QED
    BY <1>4, <1>6, <1>7, <1>8 DEF StoreInv

LEMMA PutProdsKeepsStore ==
    ASSUME TypeInv, StoreInv, last # NoMenu, PutProds
    PROVE  StoreInv'
<1> DEFINE h == jobs[1]
<1>1. /\ Operations /\ h.op = "putProds"
      /\ prods' = [p \in Products |->
            IF p \in h.menu[h.cat] /\ (p \in h.of \/ prods[p] # "none") THEN h.cat ELSE prods[p]]
      /\ UNCHANGED <<last, kept, cats>>
    BY DEF PutProds, Operations, Runs, OnlyTables, stored
<1>2. /\ Queued' \subseteq Queued /\ Innocent(h) /\ h \in ProperJobs
      /\ \A j \in Queued : j # h => j \in Queued'
    BY <1>1, HeadOf, SilentOf DEF Silent
<1>3. h.menu = last /\ h.cat \in DOMAIN last /\ last \in Menus
    BY <1>1, <1>2 DEF Innocent, ProperJobs, Proper, Carriers
<1> HIDE DEF h
<1>4. /\ Finding => Finding'
      /\ \A c : Brings("delCats", c) => Brings("delCats", c)'
      /\ \A c : Brings("insCats", c) => Brings("insCats", c)'
      /\ \A c : About("findProds", c) => About("findProds", c)'
      /\ \A c : About("acc", c) => About("acc", c)'
      /\ \A c, p : Inserts(c, p) => Inserts(c, p)' \/ (c = h.cat /\ p \in h.of)
      /\ \A p : Brings("delProds", p) => Brings("delProds", p)'
    BY <1>1, <1>2 DEF Finding, Brings, About, Inserts
<1>5. \A j \in Queued' : Innocent(j)'
    BY <1>1, <1>2 DEF StoreInv, Innocent
<1>6. /\ kept \subseteq Products /\ "none" \notin DOMAIN last
      /\ \A c \in DOMAIN last : c # h.cat => last[c] \intersect last[h.cat] = {}
    BY <1>3, MenuAssumption DEF TypeInv, TypeOK
<1>7. CategoriesDue'
    BY <1>1, <1>4 DEF StoreInv, CategoriesDue
<1>8. ProductsDue'
    <2> SUFFICES ASSUME NEW c \in DOMAIN last, NEW p \in last[c] \intersect kept
                 PROVE  /\ prods'[p] \in {c, "none"}
                        /\ prods'[p] = "none" =>
                             Finding' \/ About("findProds", c)' \/ Inserts(c, p)'
        BY <1>1 DEF ProductsDue
    <2>1. /\ prods[p] \in {c, "none"}
          /\ prods[p] = "none" => Finding \/ About("findProds", c) \/ Inserts(c, p)
        BY DEF StoreInv, ProductsDue
    <2>2. p \in last[h.cat] => c = h.cat
        BY <1>6
    <2>3. /\ prods'[p] = prods[p] \/ prods'[p] = c
          /\ p \in last[h.cat] /\ p \in h.of => prods'[p] = c
        BY <1>1, <1>3, <1>6, <2>2
    <2>4. c # "none"
        BY <1>6
    <2> QED
        BY <1>4, <2>1, <2>3, <2>4
<1>9. DeletionsDue'
    <2>1. \A p \in Products, c \in DOMAIN last :
            prods'[p] = c /\ p \notin last[c] => prods[p] = c
        BY <1>1, <1>3
    <2> QED
        BY <1>1, <1>4, <2>1 DEF StoreInv, DeletionsDue, InCategory
<1> QED
    BY <1>5, <1>7, <1>8, <1>9 DEF StoreInv

LEMMA AccKeepsStore ==
    ASSUME TypeInv, StoreInv, last # NoMenu, Acc
    PROVE  StoreInv'
<1> DEFINE h == jobs[1]
           gone == InCategory(h.cat) \ h.menu[h.cat]
           del == Job("delProds", "none", gone, NoMenu)
           k == Stamp(del, h)
<1>1. /\ Operations /\ h.op = "acc" /\ UNCHANGED <<last, kept, cats, prods>>
    BY DEF Acc, Operations, Runs, OnlyTables, stored, tables
<1>2. /\ Innocent(h) /\ h \in ProperJobs
      /\ \A j \in Queued : j # h => j \in Queued'
      /\ \A j \in Queued' : \/ j \in Queued
                            \/ \E i \in IssuedBy(h) : j = Stamp(i, h)
      /\ \A i \in IssuedBy(h) : Stamp(i, h) \in Queued'
    BY <1>1, HeadOf
<1>3. h.menu = last /\ h.cat \in DOMAIN last /\ h.live
    BY <1>1, <1>2 DEF Innocent, ProperJobs, Proper, Carriers
<1>4. del \in IssuedBy(h) /\ \A i \in IssuedBy(h) : i = del \/ i = Items(selected)
    BY <1>1 DEF IssuedBy, OnMenu, Range
<1> HIDE DEF h
<1>5. k \in Queued' /\ k.op = "delProds" /\ k.of = gone /\ k.live
    BY <1>2, <1>3, <1>4 DEF Stamp, Job
<1>6. \A j \in Queued' : j \in Queued \/ j = k \/ (j.op = "items" /\ j.live)
    <2>1. Stamp(Items(selected), h).op = "items" /\ Stamp(Items(selected), h).live
        BY <1>3 DEF Stamp, Items, Job
    <2> QED
        BY <1>2, <1>4, <2>1
<1> HIDE DEF k
<1>7. /\ Finding => Finding'
      /\ \A c : Brings("delCats", c) => Brings("delCats", c)'
      /\ \A c : Brings("insCats", c) => Brings("insCats", c)'
      /\ \A c : About("findProds", c) => About("findProds", c)'
      /\ \A c : About("acc", c) => About("acc", c)' \/ c = h.cat
      /\ \A c, p : Inserts(c, p) => Inserts(c, p)'
      /\ \A p : Brings("delProds", p) => Brings("delProds", p)'
    BY <1>1, <1>2 DEF Finding, Brings, About, Inserts
<1>8. \A p \in gone : Brings("delProds", p)'
    BY <1>5 DEF Brings
<1>9. \A c \in DOMAIN last : gone \intersect last[c] \intersect kept = {}
    <2> SUFFICES ASSUME NEW c \in DOMAIN last, NEW p \in last[c] \intersect kept, p \in gone
                 PROVE  FALSE
        OBVIOUS
    <2>1. prods[p] = h.cat /\ p \notin last[h.cat]
        BY <1>3 DEF InCategory
    <2>2. prods[p] \in {c, "none"} /\ h.cat # "none"
        BY <1>3, MenuAssumption DEF StoreInv, ProductsDue, TypeInv, TypeOK
    <2> QED
        BY <2>1, <2>2
<1>10. \A j \in Queued' : Innocent(j)'
    <2> TAKE j \in Queued'
    <2>1. CASE j \in Queued
        BY <1>1, <2>1 DEF StoreInv, Innocent
    <2>2. CASE j = k
        BY <1>1, <1>5, <1>9, <2>2 DEF Innocent, Carriers
    <2>3. CASE j.op = "items" /\ j.live
        BY <2>3 DEF Innocent, Carriers
    <2> QED
        BY <1>6, <2>1, <2>2, <2>3
<1>11. CategoriesDue'
    BY <1>1, <1>7 DEF StoreInv, CategoriesDue
<1>12. ProductsDue'
    BY <1>1, <1>7 DEF StoreInv, ProductsDue
<1>13. DeletionsDue'
    <2>1. \A p \in InCategory(h.cat) \ last[h.cat] : Brings("delProds", p)'
        BY <1>3, <1>8
    <2> HIDE DEF gone
    <2> QED
        BY <1>1, <1>7, <2>1 DEF StoreInv, DeletionsDue, InCategory
<1> QED
    BY <1>10, <1>11, <1>12, <1>13 DEF StoreInv

LEMMA FindProdsKeepsStore ==
    ASSUME TypeInv, StoreInv, last # NoMenu, FindProds
    PROVE  StoreInv'
<1> DEFINE h == jobs[1]
           new == NewOf(h)
           put == Stamp([h EXCEPT !.op = "putProds", !.of = new], h)
           acc == Stamp([h EXCEPT !.op = "acc"], h)
<1>1. /\ Operations /\ h.op = "findProds" /\ UNCHANGED <<last, kept, cats, prods>>
    BY DEF FindProds, Operations, Runs, OnlyTables, stored, tables
<1>2. /\ Innocent(h) /\ h \in ProperJobs
      /\ \A j \in Queued : j # h => j \in Queued'
      /\ \A j \in Queued' : \/ j \in Queued
                            \/ \E i \in IssuedBy(h) : j = Stamp(i, h)
      /\ \A i \in IssuedBy(h) : Stamp(i, h) \in Queued'
    BY <1>1, HeadOf
<1>3. h.menu = last /\ h.cat \in DOMAIN last /\ h.live /\ last[h.cat] # {}
    BY <1>1, <1>2 DEF Innocent, ProperJobs, Proper, Carriers
<1>4. IssuedBy(h) = {[h EXCEPT !.op = "putProds", !.of = new], [h EXCEPT !.op = "acc"]}
    BY <1>1, <1>3 DEF IssuedBy
<1> HIDE DEF h
<1>5. \A p \in last[h.cat] : prods[p] = "none" => p \in new
    BY <1>3 DEF NewOf
<1> HIDE DEF new
<1>6. /\ put \in Queued' /\ acc \in Queued'
      /\ \A j \in Queued' : j \in Queued \/ j = put \/ j = acc
    BY <1>2, <1>4
<1>7. /\ put.op = "putProds" /\ put.cat = h.cat /\ put.of = new /\ put.live /\ put.menu = last
      /\ acc.op = "acc" /\ acc.cat = h.cat /\ acc.live /\ acc.menu = last
    BY <1>2, <1>3 DEF Stamp, ProperJobs, Jobs
<1> HIDE DEF put, acc
<1>8. /\ Finding => Finding'
      /\ \A c : Brings("delCats", c) => Brings("delCats", c)'
      /\ \A c : Brings("insCats", c) => Brings("insCats", c)'
      /\ \A c : About("findProds", c) => About("findProds", c)' \/ c = h.cat
      /\ \A c : About("acc", c) => About("acc", c)'
      /\ \A c, p : Inserts(c, p) => Inserts(c, p)'
      /\ \A p : Brings("delProds", p) => Brings("delProds", p)'
    BY <1>1, <1>2 DEF Finding, Brings, About, Inserts
<1>9. \A c : c = h.cat => About("acc", c)' /\ \A p \in new : Inserts(c, p)'
    BY <1>6, <1>7 DEF Inserts, About
<1>10. \A j \in Queued' : Innocent(j)'
    <2> TAKE j \in Queued'
    <2>1. CASE j \in Queued
        BY <1>1, <2>1 DEF StoreInv, Innocent
    <2>2. CASE j = put \/ j = acc
        BY <1>1, <1>3, <1>7, <2>2 DEF Innocent
    <2> QED
        BY <1>6, <2>1, <2>2
<1>11. CategoriesDue'
    BY <1>1, <1>8 DEF StoreInv, CategoriesDue
<1>12. ProductsDue'
    BY <1>1, <1>5, <1>8, <1>9 DEF StoreInv, ProductsDue
<1>13. DeletionsDue'
    BY <1>1, <1>8, <1>9 DEF StoreInv, DeletionsDue, InCategory
<1> QED
    BY <1>10, <1>11, <1>12, <1>13 DEF StoreInv

LEMMA FindCatsKeepsStore ==
    ASSUME TypeInv, StoreInv, last # NoMenu, FindCats
    PROVE  StoreInv'
<1> DEFINE h == jobs[1]
           ins == Job("insCats", "none", DOMAIN last \ cats, NoMenu)
           del == Job("delCats", "none", cats \ DOMAIN last, NoMenu)
           find(c) == Job("findProds", c, {}, last)
<1>1. /\ Operations /\ h.op = "findCats" /\ UNCHANGED <<last, kept, cats, prods>>
    BY DEF FindCats, Operations, Runs, OnlyTables, stored, tables
<1>2. /\ Innocent(h) /\ h \in ProperJobs
      /\ \A j \in Queued : j # h => j \in Queued'
      /\ \A j \in Queued' : \/ j \in Queued
                            \/ \E i \in IssuedBy(h) : j = Stamp(i, h)
      /\ \A i \in IssuedBy(h) : Stamp(i, h) \in Queued'
    BY <1>1, HeadOf
<1>3. h.menu = last /\ h.live
    BY <1>1, <1>2 DEF Innocent
<1>4. IssuedBy(h) = FoundOf(h)
    BY <1>1 DEF IssuedBy
<1>5. /\ ins \in IssuedBy(h) /\ del \in IssuedBy(h)
      /\ \A c \in DOMAIN last : last[c] # {} => find(c) \in IssuedBy(h)
    BY <1>3, <1>4 DEF FoundOf, DetailsOf
<1>6. \A i \in IssuedBy(h) : \/ i = ins \/ i = del
                             \/ \E c \in DOMAIN last : i = find(c) /\ last[c] # {}
                             \/ i = Items(selected) \/ i = Job("readCats", "none", {}, NoMenu)
    <2>1. Range(OnMenu(<<Items(selected)>>)) \subseteq {Items(selected)}
        BY DEF OnMenu, Range
    <2>2. Range(OnMenu(<<Job("readCats", "none", {}, NoMenu)>>))
            \subseteq {Job("readCats", "none", {}, NoMenu)}
        BY DEF OnMenu, Range
    <2>3. \A c \in DOMAIN last : \A i \in DetailsOf(h, c) :
            i = Items(selected) \/ (i = find(c) /\ last[c] # {})
        BY <1>3, <2>1 DEF DetailsOf
    <2>4. \A i \in IssuedBy(h) :
            \/ i = ins \/ i = del
            \/ \E c \in DOMAIN last : i \in DetailsOf(h, c)
            \/ i \in Range(OnMenu(<<Job("readCats", "none", {}, NoMenu)>>))
        BY <1>3, <1>4 DEF FoundOf
    <2> HIDE DEF find
    <2> QED
        BY <2>2, <2>3, <2>4
<1> HIDE DEF h
<1>7. /\ Stamp(ins, h).op = "insCats" /\ Stamp(ins, h).of = DOMAIN last \ cats /\ Stamp(ins, h).live
      /\ Stamp(del, h).op = "delCats" /\ Stamp(del, h).of = cats \ DOMAIN last /\ Stamp(del, h).live
      /\ \A c : /\ Stamp(find(c), h).op = "findProds" /\ Stamp(find(c), h).cat = c
                /\ Stamp(find(c), h).menu = last /\ Stamp(find(c), h).live
      /\ Stamp(Items(selected), h).op = "items" /\ Stamp(Items(selected), h).live
      /\ Stamp(Job("readCats", "none", {}, NoMenu), h).op = "readCats"
      /\ Stamp(Job("readCats", "none", {}, NoMenu), h).live
    BY <1>3 DEF Stamp, Job, Items
<1>8. /\ Stamp(ins, h) \in Queued' /\ Stamp(del, h) \in Queued'
      /\ \A c \in DOMAIN last : last[c] # {} => Stamp(find(c), h) \in Queued'
    BY <1>2, <1>5
<1>9. /\ \A c \in DOMAIN last \ cats : Brings("insCats", c)'
      /\ \A c \in cats \ DOMAIN last : Brings("delCats", c)'
      /\ \A c \in DOMAIN last : last[c] # {} => About("findProds", c)'
    BY <1>7, <1>8 DEF Brings, About
<1>10. \A j \in Queued' : Innocent(j)'
    <2> TAKE j \in Queued'
    <2>1. CASE j \in Queued
        BY <1>1, <2>1 DEF StoreInv, Innocent
    <2>2. CASE j = Stamp(ins, h) \/ j = Stamp(del, h)
        BY <1>1, <1>7, <2>2 DEF Innocent, Carriers
    <2>3. CASE \E c \in DOMAIN last : j = Stamp(find(c), h) /\ last[c] # {}
        BY <1>1, <1>7, <2>3 DEF Innocent, Carriers
    <2>4. CASE \/ j = Stamp(Items(selected), h)
               \/ j = Stamp(Job("readCats", "none", {}, NoMenu), h)
        BY <1>7, <2>4 DEF Innocent, Carriers
    <2> QED
        BY <1>2, <1>6, <2>1, <2>2, <2>3, <2>4
<1>11. CategoriesDue'
    BY <1>1, <1>9 DEF CategoriesDue
<1>12. ProductsDue'
    <2>1. \A c \in DOMAIN last : \A p \in last[c] \intersect kept :
            prods[p] \in {c, "none"} /\ last[c] # {}
        BY DEF StoreInv, ProductsDue
    <2> QED
        BY <1>1, <1>9, <2>1 DEF ProductsDue
<1>13. DeletionsDue'
    BY <1>1, <1>9 DEF DeletionsDue, InCategory
<1> QED
    BY <1>10, <1>11, <1>12, <1>13 DEF StoreInv

LEMMA OperationsKeepStore ==
    ASSUME TypeInv, StoreInv, Operations
    PROVE  StoreInv'
<1>1. last' = last
    BY DEF Operations, Cats, FindCats, InsCats, DelCats, ReadCats, FindProds, PutProds, Acc,
           DelProds, ReadItems, OnlyTables, stored
<1> SUFFICES ASSUME last # NoMenu PROVE StoreInv'
    BY <1>1 DEF StoreInv
<1>2. CASE Cats \/ ReadCats \/ ReadItems
    <2> DEFINE h == jobs[1]
    <2>1. /\ h.op \in Harmless /\ UNCHANGED <<cats, prods, last, kept>>
        BY <1>2 DEF Cats, ReadCats, ReadItems, Runs, Harmless, tables, stored
    <2>2. \A k \in IssuedBy(h) : k = Items(selected)
        BY <2>1 DEF IssuedBy, Harmless
    <2>3. /\ Innocent(h)
          /\ \A j \in Queued : j # h => j \in Queued'
          /\ \A j \in Queued' : \/ j \in Queued
                                \/ \E k \in IssuedBy(h) : j = Stamp(k, h)
        BY HeadOf
    <2> HIDE DEF h
    <2>4. Stamp(Items(selected), h).op = "items" /\ Stamp(Items(selected), h).live
        BY <2>3 DEF Stamp, Items, Job, Innocent
    <2>5. /\ \A j \in Queued' : j \in Queued \/ (j.op \in Harmless /\ (last # NoMenu => j.live))
          /\ \A j \in Queued : j \in Queued' \/ j.op \in Harmless
        BY <2>1, <2>2, <2>3, <2>4 DEF Harmless
    <2> HIDE DEF Operations
    <2> QED
        BY <2>1, <2>5, ReadsKeepStore
<1> QED
    BY <1>2, FindCatsKeepsStore, InsCatsKeepsStore, DelCatsKeepsStore, FindProdsKeepsStore,
       PutProdsKeepsStore, AccKeepsStore, DelProdsKeepsStore DEF Operations

LEMMA VisitKeepsStore ==
    ASSUME TypeInv, StoreInv, NEW f \in Fetches, NEW c \in Categories,
           NEW queued, Visit(f, c, queued), jobs = <<>> => queued = <<>>
    PROVE  StoreInv'
<1>1. CASE jobs = <<>>
    <2> DEFINE j == Job("cats", "none", {}, NoMenu)
    <2>1. j \in ProperJobs /\ j.op \in Harmless /\ j.live
        BY Made DEF Job, Harmless
    <2>2. jobs' = Append(<<>>, j)
        BY <1>1 DEF Visit
    <2> HIDE DEF j
    <2>3. Queued = {} /\ Queued' = {j}
        BY <1>1, <2>1, <2>2, Singles, Appended DEF Queued
    <2>4. UNCHANGED <<cats, prods, last, kept>>
        BY <1>1 DEF Visit, tables
    <2> QED
        BY <2>1, <2>3, <2>4, ReadsKeepStore
<1>2. CASE jobs # <<>>
    BY <1>2 DEF Visit, StoreInv
<1> QED
    BY <1>1, <1>2

LEMMA NothingLeft ==
    ASSUME NEW same \in BOOLEAN, jobs = <<>>
    PROVE  [i \in DOMAIN jobs |->
                [jobs[i] EXCEPT !.live = @ /\ same /\ jobs[i].screen = "home"]] = <<>>
<1> DEFINE t == [i \in DOMAIN jobs |->
                    [jobs[i] EXCEPT !.live = @ /\ same /\ jobs[i].screen = "home"]]
<1>1. DOMAIN jobs = {} /\ t = [i \in DOMAIN jobs |-> t[i]]
    OBVIOUS
<1>2. jobs \in Seq(ProperJobs) /\ \A i \in DOMAIN jobs : t[i] \in ProperJobs
    BY <1>1, EmptySeq
<1> HIDE DEF t
<1>3. t \in Seq(ProperJobs) /\ Len(t) = Len(jobs)
    BY <1>1, <1>2, Mapped
<1>4. t = <<>>
    BY <1>3, EmptySeq
<1> QED
    BY <1>4 DEF t

\* What is queued, the tables and the menu stored are left alone.
LEMMA IdleKeepsStore ==
    ASSUME StoreInv, UNCHANGED <<jobs, cats, prods, last, kept>>
    PROVE  StoreInv'
<1>1. Queued' = Queued
    BY DEF Queued
<1> QED
    BY <1>1, ReadsKeepStore DEF StoreInv, Innocent

LEMMA CustomerKeepsStore ==
    ASSUME TypeInv, StoreInv, Customer
    PROVE  StoreInv'
<1>1. ASSUME NEW c \in Categories, Select(c) PROVE StoreInv'
    <2> DEFINE j == Items(c)
    <2>1. j \in ProperJobs /\ j.op \in Harmless /\ j.live
        BY Made DEF Items, Job, Harmless
    <2>2. jobs' = Append(jobs, j) /\ UNCHANGED <<cats, prods, last, kept>>
        BY <1>1 DEF Select, tables, stored
    <2> HIDE DEF j
    <2>3. Queued' = Queued \union {j}
        BY <2>1, <2>2, Appended DEF Queued, TypeInv
    <2> QED
        BY <2>1, <2>2, <2>3, ReadsKeepStore
<1>2. ASSUME NEW f \in Fetches, Mark(f) PROVE StoreInv'
    BY <1>2, IdleKeepsStore DEF Mark, tables, stored
<1>3. ASSUME NEW f \in Fetches, NEW c \in Categories, Restart(f, c) PROVE StoreInv'
    BY <1>3, VisitKeepsStore DEF Restart
<1>4. ASSUME NEW f \in Fetches, NEW c \in Categories, NEW same \in BOOLEAN,
             Reopen(f, c, same)
      PROVE  StoreInv'
    BY <1>4, NothingLeft, VisitKeepsStore DEF Reopen
<1> QED
    BY <1>1, <1>2, <1>3, <1>4 DEF Customer

LEMMA NetworkKeepsStore ==
    ASSUME TypeInv, StoreInv, ~Overlap, Network
    PROVE  StoreInv'
<1>1. CASE ChangeMenu \/ HomeServed \/ HomeFails
    BY <1>1, IdleKeepsStore DEF ChangeMenu, HomeServed, HomeFails, tables, stored
<1>2. ASSUME NEW f \in Fetches,
             MarkSent(f) \/ Marked(f) \/ AskMenu(f) \/ Fails(f) \/ Serve(f) \/ Refused(f)
      PROVE  StoreInv'
    BY <1>2, IdleKeepsStore
       DEF MarkSent, Marked, AskMenu, Proceeds, Fails, Serve, Refused, tables, stored
<1>3. CASE HomeAnswered
    <2> DEFINE j == [Job("findCats", "none", {}, home.menu) EXCEPT !.screen = "home"]
               m == home.menu
    <2>1. m \in Menus /\ m # NoMenu /\ MayStore(m) /\ Stores(m, "home")
        BY <1>3 DEF HomeAnswered, TypeInv, TypeOK
    <2>2. j \in ProperJobs /\ j.op = "findCats" /\ j.menu = m /\ j.live
        BY <2>1, Made, Marks DEF Job, Screens
    <2>3. jobs' = Append(jobs, j) /\ UNCHANGED <<cats, prods>>
        BY <1>3 DEF HomeAnswered, tables
    <2> HIDE DEF j, m
    <2>4. Queued' = Queued \union {j}
        BY <2>2, <2>3, Appended DEF Queued, TypeInv
    <2> DEFINE new == {j}
    <2>5. /\ \E i \in new : i.op = "findCats"
          /\ \A i \in new : i.live /\ (i.op \in Harmless \/ (i.op = "findCats" /\ i.menu = m))
        BY <2>2
    <2> HIDE DEF new
    <2>6. Queued' = Queued \union new
        BY <2>4 DEF new
    <2> QED
        BY <2>1, <2>3, <2>5, <2>6, StoresKeepStore
<1>4. ASSUME NEW f \in Fetches, Answered(f) PROVE StoreInv'
    <2>1. CASE reply[f] = NoMenu
        BY <1>4, <2>1 DEF Answered, Stores, StoreInv
    <2>2. CASE reply[f] # NoMenu
        <3> DEFINE m == reply[f]
                   j == Job("findCats", "none", {}, m)
                   i == Items(selected)
                   t == <<j, i>>
        <3>1. m \in Menus /\ m # NoMenu /\ MayStore(m) /\ Stores(m, "menu")
            BY <1>4, <2>2 DEF Answered, TypeInv, TypeOK
        <3>2. /\ j \in ProperJobs /\ j.op = "findCats" /\ j.menu = m /\ j.live
              /\ i \in ProperJobs /\ i.op \in Harmless /\ i.live
            BY <3>1, Made DEF Job, Items, Harmless, TypeInv, TypeOK
        <3>3. jobs' = jobs \o t /\ UNCHANGED <<cats, prods>>
            BY <1>4, <2>2 DEF Answered, tables
        <3> HIDE DEF i, j, m
        <3>4. t \in Seq(ProperJobs) /\ DOMAIN t = {1, 2} /\ t[1] = j /\ t[2] = i
            BY <3>2
        <3> HIDE DEF t
        <3>5. Range(t) = {j, i}
            BY <3>4 DEF Range
        <3>6. Queued' = Queued \union {j, i}
            BY <3>3, <3>4, <3>5, Joins DEF Queued, TypeInv
        <3> DEFINE new == {j, i}
        <3>7. /\ \E k \in new : k.op = "findCats"
              /\ \A k \in new : k.live /\ (k.op \in Harmless \/ (k.op = "findCats" /\ k.menu = m))
            BY <3>2
        <3> HIDE DEF new
        <3>8. Queued' = Queued \union new
            BY <3>6 DEF new
        <3> QED
            BY <3>1, <3>3, <3>7, <3>8, StoresKeepStore
    <2> QED
        BY <2>1, <2>2
<1> QED
    BY <1>1, <1>2, <1>3, <1>4 DEF Network

LEMMA StoreKept == ~Overlap => (Spec => [](TypeInv /\ StoreInv))
<1> SUFFICES ASSUME ~Overlap PROVE Spec => [](TypeInv /\ StoreInv)
    OBVIOUS
<1>1. Init => StoreInv
    BY DEF Init, StoreInv
<1>2. TypeInv /\ StoreInv /\ [Next]_vars => StoreInv'
    <2> SUFFICES ASSUME TypeInv, StoreInv, [Next]_vars PROVE StoreInv'
        OBVIOUS
    <2>1. CASE UNCHANGED vars
        BY <2>1, IdleKeepsStore DEF vars, tables, stored
    <2> QED
        BY <2>1, CustomerKeepsStore, NetworkKeepsStore, OperationsKeepStore DEF Next
<1> QED
    BY <1>1, <1>2, TypeKept, PTL DEF Spec

\* A menu that is stored whole is what the tables hold when the last operation
\* has run (updateCategoriesDetails, updateProductsDetails), whatever they held
\* before, whichever screens store it, however often and in whatever order their
\* operations run, if no answer comes while another menu is being stored.
THEOREM StoredKept == ~Overlap => (Spec => []StoredIsSent)
<1> SUFFICES ASSUME ~Overlap PROVE Spec => []StoredIsSent
    OBVIOUS
<1>1. TypeInv /\ StoreInv => StoredIsSent
    <2> SUFFICES ASSUME TypeInv, StoreInv, jobs = <<>>, last # NoMenu
                 PROVE  /\ cats = DOMAIN last
                        /\ \A c \in DOMAIN last : last[c] # {} =>
                              /\ InCategory(c) \subseteq last[c]
                              /\ last[c] \intersect kept \subseteq InCategory(c)
        BY DEF StoredIsSent
    <2>1. Queued = {}
        BY DEF Queued, Range
    <2>2. /\ ~Finding
          /\ \A op, x : ~Brings(op, x) /\ ~About(op, x)
          /\ \A c, p : ~Inserts(c, p)
        BY <2>1 DEF Finding, Brings, About, Inserts
    <2>3. cats = DOMAIN last
        BY <2>2 DEF StoreInv, CategoriesDue
    <2>4. ASSUME NEW c \in DOMAIN last, last[c] # {}
          PROVE  /\ InCategory(c) \subseteq last[c]
                 /\ last[c] \intersect kept \subseteq InCategory(c)
        <3>1. InCategory(c) \subseteq last[c]
            BY <2>2, <2>4 DEF StoreInv, DeletionsDue
        <3>2. \A p \in last[c] \intersect kept : prods[p] = c
            BY <2>2, <2>4 DEF StoreInv, ProductsDue
        <3>3. kept \subseteq Products
            BY DEF TypeInv, TypeOK
        <3> QED
            BY <3>1, <3>2, <3>3 DEF InCategory
    <2> QED
        BY <2>3, <2>4
<1> QED
    BY <1>1, StoreKept, PTL

-----------------------------------------------------------------------------
(* ShownIsSelected, when answers do not overlap.  Whatever will still       *)
(* change the list shown, or the stored products, is followed by a read of  *)
(* the selected category.  An operation of a higher rank is followed in     *)
(* this sense by what it issues in its turn, after all that is queued now.  *)

Rank(j) == CASE j.op = "findCats"  -> 3
             [] j.op = "findProds" -> 2
             [] j.op = "acc"       -> 1
             [] OTHER              -> 0

\* With category s selected: j changes what is stored, or shows another one.
Disturbs(j, s) == \/ j.op \in Carriers \union {"findCats", "delProds"}
                  \/ j.op = "items" /\ j.cat # s

\* j reads the category s, or issues an operation that does.
Reads(j, s) == \/ j.op \in {"findCats", "findProds", "acc"} /\ j.screen = "menu"
               \/ j.op = "items" /\ j.cat = s

Precedes(j, i, r, k) == \/ Rank(j) < Rank(r)
                        \/ Rank(j) = Rank(r) /\ i <= k

Followed ==
    \A i \in 1..Len(jobs) : Disturbs(jobs[i], selected) =>
        \E k \in 1..Len(jobs) : Reads(jobs[k], selected) /\ Precedes(jobs[i], i, jobs[k], k)

ReadDue == \E k \in 1..Len(jobs) : Reads(jobs[k], selected)

ShownOrDue == \/ ReadDue
              \/ menuItems = InCategory(selected)
              \/ jobs # <<>> /\ jobs[1].op = "cats" /\ cats # {}

ShownInv == last # NoMenu /\ reread => Followed /\ ShownOrDue

LEMMA Ranks == \A j : Rank(j) \in 0..3
BY DEF Rank

\* The operations after the first one, and what it has issued.
LEMMA Shifted ==
    ASSUME jobs \in Seq(ProperJobs), jobs # <<>>, NEW t \in Seq(ProperJobs),
           NEW next, next = Tail(jobs) \o t
    PROVE  /\ Len(jobs) \in Nat \ {0} /\ Len(t) \in Nat
           /\ Len(next) = Len(jobs) - 1 + Len(t)
           /\ \A i \in 2..Len(jobs) : i - 1 \in 1..Len(next) /\ next[i - 1] = jobs[i]
           /\ \A i \in 1..Len(t) : Len(jobs) - 1 + i \in 1..Len(next)
                                   /\ next[Len(jobs) - 1 + i] = t[i]
           /\ \A i \in 1..Len(next) :
                \/ i + 1 \in 2..Len(jobs)
                \/ i - (Len(jobs) - 1) \in 1..Len(t)
<1> DEFINE n == Len(jobs)
           u == Tail(jobs)
<1>1. /\ n \in Nat \ {0} /\ u \in Seq(ProperJobs) /\ Len(u) = n - 1
      /\ \A i \in 1..Len(u) : u[i] = jobs[i + 1]
    BY EmptySeq, HeadTailProperties
<1>2. Len(t) \in Nat
    BY LenProperties
<1> HIDE DEF u
<1>3. /\ Len(next) = n - 1 + Len(t)
      /\ \A i \in 1..(n - 1 + Len(t)) : next[i] = IF i <= n - 1 THEN u[i] ELSE t[i - (n - 1)]
    BY <1>1, ConcatProperties DEF u
<1> HIDE DEF n
<1>4. ASSUME NEW i \in 2..n PROVE i - 1 \in 1..Len(next) /\ next[i - 1] = jobs[i]
    <2>1. i - 1 \in 1..Len(u) /\ i - 1 \in 1..(n - 1 + Len(t)) /\ i - 1 <= n - 1 /\ (i - 1) + 1 = i
        BY <1>1, <1>2
    <2>2. next[i - 1] = u[i - 1] /\ u[i - 1] = jobs[(i - 1) + 1]
        BY <1>1, <1>3, <2>1
    <2> QED
        BY <1>3, <2>1, <2>2
<1>5. ASSUME NEW i \in 1..Len(t) PROVE n - 1 + i \in 1..Len(next) /\ next[n - 1 + i] = t[i]
    <2>1. /\ n - 1 + i \in 1..(n - 1 + Len(t)) /\ ~(n - 1 + i <= n - 1)
          /\ (n - 1 + i) - (n - 1) = i
        BY <1>1, <1>2
    <2>2. next[n - 1 + i] = t[(n - 1 + i) - (n - 1)]
        BY <1>3, <2>1
    <2> QED
        BY <1>3, <2>1, <2>2
<1>6. ASSUME NEW i \in 1..Len(next)
      PROVE  i + 1 \in 2..n \/ i - (n - 1) \in 1..Len(t)
    BY <1>1, <1>2, <1>3
<1> QED
    BY <1>1, <1>2, <1>3, <1>4, <1>5, <1>6 DEF n

\* Followed outlives the first operation if what that operation issues stands
\* in for it, and is followed itself.
LEMMA FollowedOn ==
    ASSUME jobs \in Seq(ProperJobs), jobs # <<>>, Followed,
           NEW t \in Seq(ProperJobs), jobs' = Tail(jobs) \o t, selected' = selected,
           Reads(jobs[1], selected) =>
               \A i \in 2..Len(jobs) :
                   Disturbs(jobs[i], selected) /\ Rank(jobs[i]) < Rank(jobs[1]) =>
                       \E k \in 1..Len(t) : /\ Reads(t[k], selected)
                                            /\ Rank(jobs[i]) <= Rank(t[k]),
           \A i \in 1..Len(t) : Disturbs(t[i], selected) =>
               \/ \E k \in 1..Len(t) : Reads(t[k], selected) /\ Precedes(t[i], i, t[k], k)
               \/ /\ Disturbs(jobs[1], selected) /\ ~Reads(jobs[1], selected)
                  /\ Rank(t[i]) < Rank(jobs[1])
    PROVE  Followed'
<1> DEFINE next == jobs'
           n == Len(jobs)
<1>1. /\ n \in Nat \ {0} /\ Len(t) \in Nat
      /\ \A i \in 2..n : i - 1 \in 1..Len(next) /\ next[i - 1] = jobs[i]
      /\ \A i \in 1..Len(t) : n - 1 + i \in 1..Len(next) /\ next[n - 1 + i] = t[i]
      /\ \A i \in 1..Len(next) : i + 1 \in 2..n \/ i - (n - 1) \in 1..Len(t)
      /\ Len(next) = n - 1 + Len(t)
    BY Shifted
<1> HIDE DEF next, n
<1> SUFFICES ASSUME NEW i \in 1..Len(next), Disturbs(next[i], selected)
             PROVE  \E k \in 1..Len(next) :
                        Reads(next[k], selected) /\ Precedes(next[i], i, next[k], k)
    BY DEF Followed, next
<1>2. CASE i + 1 \in 2..n
    <2>1. next[(i + 1) - 1] = jobs[i + 1] /\ (i + 1) - 1 = i
        BY <1>1, <1>2
    <2>2. next[i] = jobs[i + 1]
        BY <2>1
    <2>3. i + 1 \in 1..n /\ Disturbs(jobs[i + 1], selected)
        BY <1>1, <1>2, <2>2
    <2>4. PICK k \in 1..n : /\ Reads(jobs[k], selected)
                            /\ Precedes(jobs[i + 1], i + 1, jobs[k], k)
        BY <2>3 DEF Followed, n
    <2>5. CASE k \in 2..n
        <3>1. k - 1 \in 1..Len(next) /\ next[k - 1] = jobs[k]
            BY <1>1, <2>5
        <3>2. i + 1 <= k => i <= k - 1
            BY <1>1, <2>5
        <3>3. Precedes(next[i], i, next[k - 1], k - 1)
            BY <2>2, <2>4, <3>1, <3>2 DEF Precedes
        <3> QED
            BY <2>4, <3>1, <3>3
    <2>6. CASE k = 1
        <3>1. ~(i + 1 <= 1) /\ i + 1 \in 2..Len(jobs)
            BY <1>1, <1>2 DEF n
        <3>2. Rank(jobs[i + 1]) < Rank(jobs[1]) /\ Reads(jobs[1], selected)
            BY <2>4, <2>6, <3>1 DEF Precedes
        <3>3. PICK r \in 1..Len(t) : Reads(t[r], selected) /\ Rank(jobs[i + 1]) <= Rank(t[r])
            BY <2>3, <3>1, <3>2
        <3>4. n - 1 + r \in 1..Len(next) /\ next[n - 1 + r] = t[r]
            BY <1>1
        <3>5. i <= n - 1 + r
            BY <1>1, <1>2
        <3>6. Precedes(next[i], i, next[n - 1 + r], n - 1 + r)
            <4>1. Rank(jobs[i + 1]) \in 0..3 /\ Rank(t[r]) \in 0..3
                BY Ranks
            <4>2. Rank(jobs[i + 1]) < Rank(t[r]) \/ Rank(jobs[i + 1]) = Rank(t[r])
                BY <3>3, <4>1
            <4> QED
                BY <2>2, <3>4, <3>5, <4>2 DEF Precedes
        <3> QED
            BY <3>3, <3>4, <3>6
    <2> QED
        BY <1>1, <2>5, <2>6
<1>3. CASE i - (n - 1) \in 1..Len(t)
    <2> DEFINE m == i - (n - 1)
    <2>1. m \in 1..Len(t) /\ n - 1 + m = i
        BY <1>1, <1>3
    <2>2. next[n - 1 + m] = t[m]
        BY <1>1, <2>1
    <2>3. next[i] = t[m]
        BY <2>1, <2>2
    <2> HIDE DEF m
    <2>4. CASE \E k \in 1..Len(t) : Reads(t[k], selected) /\ Precedes(t[m], m, t[k], k)
        <3>1. PICK k \in 1..Len(t) : Reads(t[k], selected) /\ Precedes(t[m], m, t[k], k)
            BY <2>4
        <3>2. n - 1 + k \in 1..Len(next) /\ next[n - 1 + k] = t[k]
            BY <1>1
        <3>3. m <= k => i <= n - 1 + k
            BY <1>1, <2>1
        <3>4. Precedes(next[i], i, next[n - 1 + k], n - 1 + k)
            BY <2>3, <3>1, <3>2, <3>3 DEF Precedes
        <3> QED
            BY <3>1, <3>2, <3>4
    <2>5. CASE /\ Disturbs(jobs[1], selected) /\ ~Reads(jobs[1], selected)
               /\ Rank(t[m]) < Rank(jobs[1])
        <3>1. 1 \in 1..Len(jobs)
            BY <1>1 DEF n
        <3>2. PICK k \in 1..n : Reads(jobs[k], selected) /\ Precedes(jobs[1], 1, jobs[k], k)
            BY <2>5, <3>1 DEF Followed, n
        <3>3. k \in 2..n
            BY <1>1, <2>5, <3>2
        <3>4. k - 1 \in 1..Len(next) /\ next[k - 1] = jobs[k]
            BY <1>1, <3>3
        <3>5. Rank(t[m]) < Rank(jobs[k])
            <4>1. Rank(t[m]) \in 0..3 /\ Rank(jobs[1]) \in 0..3 /\ Rank(jobs[k]) \in 0..3
                BY Ranks
            <4>2. Rank(jobs[1]) < Rank(jobs[k]) \/ Rank(jobs[1]) = Rank(jobs[k])
                BY <3>2 DEF Precedes
            <4> QED
                BY <2>5, <4>1, <4>2
        <3>6. Precedes(next[i], i, next[k - 1], k - 1)
            BY <2>3, <3>4, <3>5 DEF Precedes
        <3> QED
            BY <3>2, <3>4, <3>6
    <2> QED
        BY <2>1, <2>3, <2>4, <2>5
<1> QED
    BY <1>1, <1>2, <1>3

\* A read is still due after the first operation, if another one was or if
\* what that operation issues is one.
LEMMA ReadDueOn ==
    ASSUME jobs \in Seq(ProperJobs), jobs # <<>>,
           NEW t \in Seq(ProperJobs), jobs' = Tail(jobs) \o t, selected' = selected,
           \/ \E k \in 2..Len(jobs) : Reads(jobs[k], selected)
           \/ \E k \in 1..Len(t) : Reads(t[k], selected)
    PROVE  ReadDue'
<1> DEFINE next == jobs'
           n == Len(jobs)
<1>1. /\ \A i \in 2..n : i - 1 \in 1..Len(next) /\ next[i - 1] = jobs[i]
      /\ \A i \in 1..Len(t) : n - 1 + i \in 1..Len(next) /\ next[n - 1 + i] = t[i]
    BY Shifted
<1> HIDE DEF next
<1>2. \E k \in 1..Len(next) : Reads(next[k], selected)
    BY <1>1
<1> QED
    BY <1>2 DEF ReadDue, next

LEMMA ThenTail ==
    ASSUME jobs \in Seq(ProperJobs), jobs # <<>>, NEW todo \in Seq(ProperJobs), Then(todo)
    PROVE  \E t \in Seq(ProperJobs) :
              /\ jobs' = Tail(jobs) \o t
              /\ Len(t) = Len(todo)
              /\ \A i \in 1..Len(t) : t[i] = Stamp(todo[i], jobs[1])
<1> DEFINE h == jobs[1]
           t == [i \in DOMAIN todo |-> Stamp(todo[i], h)]
<1>1. h \in ProperJobs
    BY Tails
<1>2. h.live \in BOOLEAN /\ h.screen \in Screens
    BY <1>1 DEF ProperJobs, Jobs
<1> HIDE DEF h
<1>3. \A i \in DOMAIN todo : todo[i] \in ProperJobs
    BY LenProperties
<1>4. \A i \in DOMAIN todo : t[i] = Stamp(todo[i], h) /\ Stamp(todo[i], h) \in ProperJobs
    BY <1>2, <1>3, Marks DEF Stamp
<1>5. t = [i \in DOMAIN todo |-> t[i]] /\ DOMAIN t = DOMAIN todo
    OBVIOUS
<1>6. jobs' = Tail(jobs) \o t
    BY DEF Then, Stamp, h
<1>7. \A i \in DOMAIN todo : t[i] \in ProperJobs
    BY <1>4
<1> HIDE DEF t
<1>8. t \in Seq(ProperJobs) /\ Len(t) = Len(todo) /\ DOMAIN todo = 1..Len(todo)
    BY <1>5, <1>7, Mapped, LenProperties
<1>9. \A i \in 1..Len(t) : t[i] = Stamp(todo[i], h)
    BY <1>4, <1>8
<1> QED
    BY <1>6, <1>8, <1>9 DEF h

LEMMA IssuedTail ==
    ASSUME TypeInv, Operations
    PROVE  \E t \in Seq(ProperJobs) :
              /\ jobs' = Tail(jobs) \o t
              /\ \A i \in 1..Len(t) : \E j \in IssuedBy(jobs[1]) : t[i] = Stamp(j, jobs[1])
              /\ \A j \in IssuedBy(jobs[1]) : \E i \in 1..Len(t) : t[i] = Stamp(j, jobs[1])
<1>1. PICK todo \in Seq(ProperJobs) : Then(todo) /\ Range(todo) = IssuedBy(jobs[1])
    BY Issues
<1> HIDE DEF Operations
<1>2. jobs # <<>> /\ jobs \in Seq(ProperJobs)
    BY Issues DEF TypeInv
<1>3. PICK t \in Seq(ProperJobs) :
              /\ jobs' = Tail(jobs) \o t
              /\ Len(t) = Len(todo)
              /\ \A i \in 1..Len(t) : t[i] = Stamp(todo[i], jobs[1])
    BY <1>1, <1>2, ThenTail
<1>4. \A j : j \in Range(todo) <=> \E i \in 1..Len(t) : j = todo[i]
    <2>1. DOMAIN todo = 1..Len(t)
        BY <1>3, LenProperties
    <2> QED
        BY <2>1 DEF Range
<1>5. \A i \in 1..Len(t) : \E j \in IssuedBy(jobs[1]) : t[i] = Stamp(j, jobs[1])
    BY <1>1, <1>3, <1>4
<1>6. \A j \in IssuedBy(jobs[1]) : \E i \in 1..Len(t) : t[i] = Stamp(j, jobs[1])
    BY <1>1, <1>3, <1>4
<1> QED
    BY <1>3, <1>5, <1>6

\* The menu screen reads the selected category after the deletion.
LEMMA AccTail ==
    ASSUME TypeInv, Acc, jobs[1].screen = "menu"
    PROVE  \E t \in Seq(ProperJobs) :
              /\ jobs' = Tail(jobs) \o t /\ Len(t) = 2
              /\ t[1].op = "delProds"
              /\ t[2].op = "items" /\ t[2].cat = selected
<1> DEFINE h == jobs[1]
           del == Job("delProds", "none", InCategory(h.cat) \ h.menu[h.cat], NoMenu)
           read == Items(selected)
           todo == <<del>> \o <<read>>
<1>1. jobs # <<>> /\ jobs \in Seq(ProperJobs)
    BY DEF Acc, Runs, TypeInv
<1>2. Then(todo)
    BY DEF Acc, OnMenu
<1>3. del \in ProperJobs /\ read \in ProperJobs
    <2>1. InCategory(h.cat) \ h.menu[h.cat] \in SUBSET Products
        BY DEF InCategory
    <2> QED
        BY <2>1, Made, ItemsTodo
<1>4. /\ Stamp(del, h).op = "delProds"
      /\ Stamp(read, h).op = "items" /\ Stamp(read, h).cat = selected
    BY DEF Stamp, Items, Job
<1> HIDE DEF h, del, read
<1>5. todo \in Seq(ProperJobs) /\ Len(todo) = 2 /\ todo[1] = del /\ todo[2] = read
    BY <1>3
<1> HIDE DEF todo
<1>6. PICK t \in Seq(ProperJobs) :
              /\ jobs' = Tail(jobs) \o t
              /\ Len(t) = Len(todo)
              /\ \A i \in 1..Len(t) : t[i] = Stamp(todo[i], h)
    BY <1>1, <1>2, <1>5, ThenTail DEF h
<1>7. t[1] = Stamp(del, h) /\ t[2] = Stamp(read, h)
    BY <1>5, <1>6
<1> QED
    BY <1>4, <1>5, <1>6, <1>7

Quiet == {"cats", "insCats", "delCats", "readCats", "putProds", "delProds", "items"}

\* An operation that is not followed itself leaves the others followed.
LEMMA QuietFollowed ==
    ASSUME TypeInv, Operations, Followed, jobs[1].op \in Quiet
    PROVE  Followed'
<1> DEFINE h == jobs[1]
<1>1. PICK t \in Seq(ProperJobs) :
              /\ jobs' = Tail(jobs) \o t
              /\ \A i \in 1..Len(t) : \E j \in IssuedBy(h) : t[i] = Stamp(j, h)
    BY IssuedTail
<1>2. jobs \in Seq(ProperJobs) /\ jobs # <<>> /\ selected' = selected
    BY Issues DEF TypeInv, Operations, Cats, FindCats, InsCats, DelCats, ReadCats, FindProds,
                  PutProds, Acc, DelProds, ReadItems, OnlyTables, screenVars
<1>3. \A j \in IssuedBy(h) : j = Items(selected)
    BY DEF IssuedBy, Quiet
<1>4. \A i \in 1..Len(t) : ~Disturbs(t[i], selected)
    <2>1. ~Disturbs(Stamp(Items(selected), h), selected)
        BY DEF Stamp, Items, Job, Disturbs, Carriers
    <2> QED
        BY <1>1, <1>3, <2>1
<1>5. Rank(h) = 0
    BY DEF Rank, Quiet
<1>6. \A i \in 2..Len(jobs) : ~(Rank(jobs[i]) < Rank(h))
    BY <1>5, Ranks
<1> HIDE DEF Operations
<1> QED
    BY <1>1, <1>2, <1>4, <1>6, FollowedOn

\* What an operation that only reads, or only writes, leaves on the screen.
LEMMA QuietShown ==
    ASSUME TypeInv, StoreInv, last # NoMenu, Operations, Followed, ShownOrDue,
           jobs[1].op \in Quiet
    PROVE  ShownOrDue'
<1> DEFINE h == jobs[1]
           n == Len(jobs)
<1>1. PICK t \in Seq(ProperJobs) :
              /\ jobs' = Tail(jobs) \o t
              /\ \A j \in IssuedBy(h) : \E i \in 1..Len(t) : t[i] = Stamp(j, h)
    BY IssuedTail
<1>2. /\ jobs \in Seq(ProperJobs) /\ jobs # <<>> /\ selected' = selected
      /\ n \in Nat \ {0}
    BY Issues, EmptySeq DEF TypeInv, Operations, Cats, FindCats, InsCats, DelCats, ReadCats,
                  FindProds, PutProds, Acc, DelProds, ReadItems, OnlyTables, screenVars
<1>3. Innocent(h)
    BY HeadOf
<1>4. ASSUME \/ \E k \in 2..n : Reads(jobs[k], selected)
             \/ \E k \in 1..Len(t) : Reads(t[k], selected)
      PROVE  ShownOrDue'
    <2> HIDE DEF Operations
    <2>1. ReadDue'
        BY <1>1, <1>2, <1>4, ReadDueOn
    <2> QED
        BY <2>1 DEF ShownOrDue
<1>5. \A k \in 1..n : k = 1 \/ k \in 2..n
    BY <1>2
<1>6. CASE Disturbs(h, selected)
    <2>1. 1 \in 1..n
        BY <1>2
    <2>2. PICK k \in 1..n : Reads(jobs[k], selected)
        BY <1>6, <2>1 DEF Followed
    <2>3. ~Reads(h, selected)
        BY <1>6 DEF Disturbs, Reads, Quiet, Carriers
    <2>4. k \in 2..n
        BY <1>5, <2>2, <2>3
    <2> QED
        BY <1>4, <2>2, <2>4
<1>7. CASE ~Disturbs(h, selected) /\ h.op = "items"
    <2>1. ReadItems /\ h.cat = selected
        BY <1>7 DEF Disturbs, Operations, Cats, FindCats, InsCats, DelCats, ReadCats,
                    FindProds, PutProds, Acc, DelProds, Runs
    <2>2. menuItems' = InCategory(selected) /\ prods' = prods
        BY <1>3, <2>1 DEF ReadItems, Innocent, tables
    <2>3. menuItems' = InCategory(selected)'
        BY <1>2, <2>2 DEF InCategory
    <2> QED
        BY <2>3 DEF ShownOrDue
<1>8. CASE ~Disturbs(h, selected) /\ h.op # "items"
    <2>1. h.op \in {"cats", "insCats", "delCats", "readCats"} /\ ~Reads(h, selected)
        BY <1>8 DEF Quiet, Disturbs, Carriers, Reads
    <2>2. menuItems' = menuItems /\ prods' = prods
        BY <2>1 DEF Operations, Cats, FindCats, InsCats, DelCats, ReadCats,
                    FindProds, PutProds, Acc, DelProds, ReadItems, Runs, OnlyTables,
                    screenVars, tables
    <2>3. CASE ReadDue
        BY <1>4, <1>5, <2>1, <2>3 DEF ReadDue
    <2>4. CASE menuItems = InCategory(selected)
        <3>1. menuItems' = InCategory(selected)'
            BY <1>2, <2>2, <2>4 DEF InCategory
        <3> QED
            BY <3>1 DEF ShownOrDue
    <2>5. CASE h.op = "cats" /\ cats # {}
        <3>1. Items(selected) \in IssuedBy(h)
            BY <2>5 DEF IssuedBy
        <3>2. Reads(Stamp(Items(selected), h), selected)
            BY DEF Stamp, Items, Job, Reads
        <3>3. \E k \in 1..Len(t) : Reads(t[k], selected)
            BY <1>1, <3>1, <3>2
        <3> QED
            BY <1>4, <3>3
    <2> QED
        BY <2>3, <2>4, <2>5 DEF ShownOrDue
<1> QED
    BY <1>6, <1>7, <1>8

\* The other operations: the home screen's are followed by the menu screen's
\* of a higher rank, and those by what they issue.
LEMMA ReaderBehind ==
    ASSUME jobs \in Seq(ProperJobs), jobs # <<>>, Followed,
           Disturbs(jobs[1], selected), ~Reads(jobs[1], selected)
    PROVE  \E k \in 2..Len(jobs) : Reads(jobs[k], selected)
<1>1. Len(jobs) \in Nat \ {0}
    BY EmptySeq
<1>2. PICK k \in 1..Len(jobs) : Reads(jobs[k], selected)
    BY <1>1 DEF Followed
<1>3. k \in 2..Len(jobs)
    BY <1>1, <1>2
<1> QED
    BY <1>2, <1>3

LEMMA AccShown ==
    ASSUME TypeInv, Acc, Followed
    PROVE  Followed' /\ ReadDue'
<1> DEFINE h == jobs[1]
<1>1. /\ jobs \in Seq(ProperJobs) /\ jobs # <<>> /\ selected' = selected
      /\ h.op = "acc" /\ Operations
    BY DEF TypeInv, Acc, Runs, OnlyTables, screenVars, Operations
<1>2. Rank(h) = 1 /\ Disturbs(h, selected)
    BY <1>1 DEF Rank, Disturbs, Carriers
<1>3. CASE h.screen = "menu"
    <2>1. PICK t \in Seq(ProperJobs) :
              /\ jobs' = Tail(jobs) \o t /\ Len(t) = 2
              /\ t[1].op = "delProds"
              /\ t[2].op = "items" /\ t[2].cat = selected
        BY <1>3, AccTail
    <2>2. /\ Rank(t[1]) = 0 /\ Rank(t[2]) = 0
          /\ Reads(t[2], selected) /\ ~Disturbs(t[2], selected)
        BY <2>1 DEF Rank, Reads, Disturbs, Carriers
    <2>3. 2 \in 1..Len(t) /\ \A i \in 1..Len(t) : i = 1 \/ i = 2
        BY <2>1
    <2>4. \A i \in 2..Len(jobs) : Rank(jobs[i]) < Rank(h) => Rank(jobs[i]) <= Rank(t[2])
        BY <1>2, <2>2, Ranks
    <2>5. Precedes(t[1], 1, t[2], 2)
        BY <2>2 DEF Precedes
    <2>6. Followed'
        BY <1>1, <2>1, <2>2, <2>3, <2>4, <2>5, FollowedOn
    <2>7. ReadDue'
        BY <1>1, <2>1, <2>2, <2>3, ReadDueOn
    <2> QED
        BY <2>6, <2>7
<1>4. CASE h.screen # "menu"
    <2>1. PICK t \in Seq(ProperJobs) :
              /\ jobs' = Tail(jobs) \o t
              /\ \A i \in 1..Len(t) : \E j \in IssuedBy(h) : t[i] = Stamp(j, h)
        BY <1>1, IssuedTail
    <2>2. ~Reads(h, selected)
        BY <1>1, <1>4 DEF Reads
    <2>3. \A j \in IssuedBy(h) : Rank(Stamp(j, h)) = 0
        <3>1. \A j \in IssuedBy(h) :
                j = Job("delProds", "none", InCategory(h.cat) \ h.menu[h.cat], NoMenu)
            BY <1>1, <1>4 DEF IssuedBy, OnMenu, Range
        <3>2. \A s : Rank(Stamp(Job("delProds", "none", s, NoMenu), h)) = 0
            BY DEF Rank, Stamp, Job
        <3> QED
            BY <3>1, <3>2
    <2>4. \A i \in 1..Len(t) : Rank(t[i]) < Rank(h)
        BY <1>2, <2>1, <2>3
    <2>5. Followed'
        BY <1>1, <1>2, <2>1, <2>2, <2>4, FollowedOn
    <2>6. ReadDue'
        BY <1>1, <1>2, <2>1, <2>2, ReaderBehind, ReadDueOn
    <2> QED
        BY <2>5, <2>6
<1> QED
    BY <1>3, <1>4

LEMMA FindProdsShown ==
    ASSUME TypeInv, FindProds, Followed
    PROVE  Followed' /\ ReadDue'
<1> DEFINE h == jobs[1]
           put == Stamp([h EXCEPT !.op = "putProds", !.of = NewOf(h)], h)
           acc == Stamp([h EXCEPT !.op = "acc"], h)
<1>1. /\ jobs \in Seq(ProperJobs) /\ jobs # <<>> /\ selected' = selected
      /\ h.op = "findProds" /\ Operations /\ h \in ProperJobs
    BY Tails DEF TypeInv, FindProds, Runs, OnlyTables, screenVars, Operations
<1>2. Rank(h) = 2 /\ Disturbs(h, selected)
    BY <1>1 DEF Rank, Disturbs, Carriers
<1>3. PICK t \in Seq(ProperJobs) :
              /\ jobs' = Tail(jobs) \o t
              /\ \A i \in 1..Len(t) : \E j \in IssuedBy(h) : t[i] = Stamp(j, h)
              /\ \A j \in IssuedBy(h) : \E i \in 1..Len(t) : t[i] = Stamp(j, h)
    BY <1>1, IssuedTail
<1>4. /\ \A i \in 1..Len(t) : t[i] = put \/ t[i] = acc
      /\ \E i \in 1..Len(t) : t[i] = acc
    BY <1>1, <1>3 DEF IssuedBy
<1>5. /\ put.op = "putProds"
      /\ acc.op = "acc" /\ acc.screen = h.screen
    BY <1>1 DEF Stamp, ProperJobs, Jobs
<1> HIDE DEF put, acc, h
<1>6. Rank(put) = 0 /\ Rank(acc) = 1
    BY <1>5 DEF Rank
<1>7. PICK r \in 1..Len(t) : t[r] = acc
    BY <1>4
<1>8. CASE h.screen = "menu"
    <2>1. Reads(acc, selected)
        BY <1>5, <1>8 DEF Reads
    <2>2. \A i \in 2..Len(jobs) : Rank(jobs[i]) < Rank(h) => Rank(jobs[i]) <= Rank(t[r])
        BY <1>2, <1>6, <1>7, Ranks
    <2>3. Len(t) \in Nat
        BY LenProperties
    <2>4. \A i \in 1..Len(t) :
            \E k \in 1..Len(t) : Reads(t[k], selected) /\ Precedes(t[i], i, t[k], k)
        <3> TAKE i \in 1..Len(t)
        <3>1. CASE t[i] = put
            BY <1>6, <1>7, <2>1, <3>1 DEF Precedes
        <3>2. CASE t[i] = acc
            BY <2>1, <2>3, <3>2 DEF Precedes
        <3> QED
            BY <1>4, <3>1, <3>2
    <2>5. Followed'
        BY <1>1, <1>3, <1>7, <2>1, <2>2, <2>4, FollowedOn DEF h
    <2>6. ReadDue'
        BY <1>1, <1>3, <1>7, <2>1, ReadDueOn
    <2> QED
        BY <2>5, <2>6
<1>9. CASE h.screen # "menu"
    <2>1. ~Reads(h, selected)
        BY <1>1, <1>9 DEF Reads
    <2>2. \A i \in 1..Len(t) : Rank(t[i]) < Rank(h)
        BY <1>2, <1>4, <1>6
    <2>3. Followed'
        BY <1>1, <1>2, <1>3, <2>1, <2>2, FollowedOn DEF h
    <2>4. ReadDue'
        BY <1>1, <1>2, <1>3, <2>1, ReaderBehind, ReadDueOn DEF h
    <2> QED
        BY <2>3, <2>4
<1> QED
    BY <1>8, <1>9

\* NoMenu is the only menu without categories.
LEMMA SomeCategory ==
    ASSUME NEW m \in Menus, m # NoMenu
    PROVE  DOMAIN m # {}
<1> SUFFICES ASSUME DOMAIN m = {} PROVE FALSE
    OBVIOUS
<1>1. m \in [DOMAIN m -> SUBSET Products] /\ 1..0 = {}
    BY MenuAssumption
<1>2. m \in [1..0 -> SUBSET Products]
    BY <1>1
<1>3. m \in Seq(SUBSET Products) /\ Len(m) = 0
    BY <1>2
<1>4. m = <<>>
    BY <1>3, EmptySeq
<1> QED
    BY <1>4 DEF NoMenu

LEMMA FindCatsShown ==
    ASSUME TypeInv, StoreInv, last # NoMenu, FindCats, Followed
    PROVE  Followed' /\ ReadDue'
<1> DEFINE h == jobs[1]
           ins == Job("insCats", "none", DOMAIN last \ cats, NoMenu)
           del == Job("delCats", "none", cats \ DOMAIN last, NoMenu)
           find(c) == Job("findProds", c, {}, last)
           items == Items(selected)
           read == Job("readCats", "none", {}, NoMenu)
<1>1. /\ jobs \in Seq(ProperJobs) /\ jobs # <<>> /\ selected' = selected
      /\ h.op = "findCats" /\ Operations
    BY DEF TypeInv, FindCats, Runs, OnlyTables, screenVars, Operations
<1>2. Rank(h) = 3 /\ Disturbs(h, selected)
    BY <1>1 DEF Rank, Disturbs, Carriers
<1>3. PICK t \in Seq(ProperJobs) :
              /\ jobs' = Tail(jobs) \o t
              /\ \A i \in 1..Len(t) : \E j \in IssuedBy(h) : t[i] = Stamp(j, h)
              /\ \A j \in IssuedBy(h) : \E i \in 1..Len(t) : t[i] = Stamp(j, h)
    BY <1>1, IssuedTail
<1>4. h.menu = last /\ h.live
    BY <1>1, HeadOf DEF Innocent
<1>5. IssuedBy(h) = FoundOf(h)
    BY <1>1 DEF IssuedBy
<1>6. \A c \in DOMAIN last : last[c] # {} => find(c) \in IssuedBy(h)
    BY <1>4, <1>5 DEF FoundOf, DetailsOf
<1>7. h.screen = "menu" => \A c \in DOMAIN last : last[c] = {} => items \in IssuedBy(h)
    <2> SUFFICES ASSUME h.screen = "menu", NEW c \in DOMAIN last, last[c] = {}
                 PROVE  items \in IssuedBy(h)
        OBVIOUS
    <2>1. items \in Range(OnMenu(<<items>>))
        BY ItemsTodo DEF OnMenu
    <2>2. items \in DetailsOf(h, c)
        BY <1>4, <2>1 DEF DetailsOf
    <2> HIDE DEF items
    <2> QED
        BY <1>4, <1>5, <2>2 DEF FoundOf
<1>8. \A i \in IssuedBy(h) : \/ i = ins \/ i = del \/ i = items \/ i = read
                             \/ \E c \in DOMAIN last : i = find(c)
    <2>1. Range(OnMenu(<<items>>)) \subseteq {items}
        BY DEF OnMenu, Range
    <2>2. Range(OnMenu(<<read>>)) \subseteq {read}
        BY DEF OnMenu, Range
    <2>3. \A c \in DOMAIN last : \A i \in DetailsOf(h, c) : i = items \/ i = find(c)
        BY <1>4, <2>1 DEF DetailsOf
    <2>4. \A i \in IssuedBy(h) :
            \/ i = ins \/ i = del \/ i \in Range(OnMenu(<<read>>))
            \/ \E c \in DOMAIN last : i \in DetailsOf(h, c)
        BY <1>4, <1>5 DEF FoundOf
    <2> HIDE DEF items, ins, del, read, find
    <2> QED
        BY <2>2, <2>3, <2>4
<1>9. /\ Stamp(ins, h).op = "insCats" /\ Stamp(del, h).op = "delCats"
      /\ Stamp(read, h).op = "readCats"
      /\ Stamp(items, h).op = "items" /\ Stamp(items, h).cat = selected
      /\ \A c : /\ Stamp(find(c), h).op = "findProds"
                /\ Stamp(find(c), h).screen = h.screen
    BY DEF Stamp, Job, Items
<1> HIDE DEF h, ins, del, items, read, find
<1>10. /\ \A c : Rank(Stamp(find(c), h)) = 2 /\ Rank(Stamp(items, h)) = 0
       /\ Reads(Stamp(items, h), selected) /\ ~Disturbs(Stamp(items, h), selected)
       /\ ~Disturbs(Stamp(ins, h), selected) /\ ~Disturbs(Stamp(del, h), selected)
       /\ ~Disturbs(Stamp(read, h), selected)
    BY <1>9 DEF Rank, Reads, Disturbs, Carriers
<1>11. \A i \in 1..Len(t) : Disturbs(t[i], selected) =>
            \E c \in DOMAIN last : t[i] = Stamp(find(c), h)
    <2> TAKE i \in 1..Len(t)
    <2>1. PICK j \in IssuedBy(h) : t[i] = Stamp(j, h)
        BY <1>3 DEF h
    <2> QED
        BY <1>8, <1>10, <2>1
<1>12. CASE h.screen = "menu"
    <2>1. \A c : Reads(Stamp(find(c), h), selected)
        BY <1>9, <1>12 DEF Reads
    <2>2. \A c \in DOMAIN last : last[c] # {} =>
            \E k \in 1..Len(t) : Reads(t[k], selected) /\ Rank(t[k]) = 2
        <3> SUFFICES ASSUME NEW c \in DOMAIN last, last[c] # {}
                     PROVE  \E k \in 1..Len(t) : Reads(t[k], selected) /\ Rank(t[k]) = 2
            OBVIOUS
        <3>1. PICK k \in 1..Len(t) : t[k] = Stamp(find(c), h)
            BY <1>3, <1>6 DEF h
        <3> QED
            BY <1>10, <2>1, <3>1
    <2>3. \E k \in 1..Len(t) : Reads(t[k], selected)
        <3>1. PICK c \in DOMAIN last : TRUE
            BY SomeCategory DEF TypeInv, TypeOK
        <3>2. CASE last[c] # {}
            BY <2>2, <3>2
        <3>3. CASE last[c] = {}
            <4>1. PICK k \in 1..Len(t) : t[k] = Stamp(items, h)
                BY <1>3, <1>7, <1>12, <3>3 DEF h
            <4> QED
                BY <1>10, <4>1
        <3> QED
            BY <3>2, <3>3
    <2>4. ASSUME NEW i \in 2..Len(jobs), Disturbs(jobs[i], selected), Rank(jobs[i]) < Rank(h)
          PROVE  \E k \in 1..Len(t) : Reads(t[k], selected) /\ Rank(jobs[i]) <= Rank(t[k])
        <3> DEFINE j == jobs[i]
        <3>1. i \in 1..Len(jobs) /\ DOMAIN jobs = 1..Len(jobs)
            BY <1>1, LenProperties
        <3>2. j \in ProperJobs /\ j \in Queued
            BY <1>1, <3>1, ElementOfSeq DEF Queued, Range
        <3>3. Innocent(j)
            BY <3>2 DEF StoreInv
        <3> HIDE DEF j
        <3>4. CASE j.op \in Carriers
            <4>1. j.cat \in DOMAIN last /\ last[j.cat] # {}
                BY <3>2, <3>3, <3>4 DEF Innocent, ProperJobs, Proper
            <4>2. PICK k \in 1..Len(t) : Reads(t[k], selected) /\ Rank(t[k]) = 2
                BY <2>2, <4>1
            <4>3. Rank(j) <= 2
                BY <3>4 DEF Rank, Carriers
            <4> QED
                BY <4>2, <4>3 DEF j
        <3>5. CASE j.op \notin Carriers
            <4>1. Rank(j) = 0
                BY <1>2, <2>4, <3>5 DEF Rank, Carriers, j
            <4>2. PICK k \in 1..Len(t) : Reads(t[k], selected)
                BY <2>3
            <4>3. Rank(t[k]) \in 0..3
                BY Ranks
            <4> QED
                BY <4>1, <4>2, <4>3 DEF j
        <3> QED
            BY <3>4, <3>5
    <2>5. ASSUME NEW i \in 1..Len(t), Disturbs(t[i], selected)
          PROVE  \E k \in 1..Len(t) : Reads(t[k], selected) /\ Precedes(t[i], i, t[k], k)
        <3>1. Reads(t[i], selected)
            BY <1>11, <2>1, <2>5
        <3>2. Precedes(t[i], i, t[i], i)
            BY LenProperties DEF Precedes
        <3> QED
            BY <3>1, <3>2
    <2>6. Followed'
        BY <1>1, <1>3, <2>4, <2>5, FollowedOn DEF h
    <2>7. ReadDue'
        BY <1>1, <1>3, <2>3, ReadDueOn
    <2> QED
        BY <2>6, <2>7
<1>13. CASE h.screen # "menu"
    <2>1. ~Reads(h, selected)
        BY <1>1, <1>13 DEF Reads, h
    <2>2. \A i \in 1..Len(t) : Disturbs(t[i], selected) => Rank(t[i]) < Rank(h)
        BY <1>2, <1>10, <1>11
    <2>3. Followed'
        BY <1>1, <1>2, <1>3, <2>1, <2>2, FollowedOn DEF h
    <2>4. ReadDue'
        BY <1>1, <1>2, <1>3, <2>1, ReaderBehind, ReadDueOn DEF h
    <2> QED
        BY <2>3, <2>4
<1> QED
    BY <1>12, <1>13

LEMMA OperationsKeepShown ==
    ASSUME TypeInv, StoreInv, ShownInv, Operations
    PROVE  ShownInv'
<1>1. last' = last /\ reread' = reread
    BY DEF Operations, Cats, FindCats, InsCats, DelCats, ReadCats, FindProds, PutProds, Acc,
           DelProds, ReadItems, OnlyTables, stored
<1> SUFFICES ASSUME last # NoMenu, reread PROVE Followed' /\ ShownOrDue'
    BY <1>1 DEF ShownInv
<1>2. Followed /\ ShownOrDue
    BY DEF ShownInv
<1>3. CASE FindCats \/ FindProds \/ Acc
    BY <1>2, <1>3, FindCatsShown, FindProdsShown, AccShown DEF ShownOrDue
<1>4. CASE ~(FindCats \/ FindProds \/ Acc)
    <2>1. jobs[1].op \in Quiet
        BY <1>4 DEF Operations, Cats, InsCats, DelCats, ReadCats, PutProds, DelProds, ReadItems,
                    Runs, Quiet
    <2> HIDE DEF Operations
    <2> QED
        BY <1>2, <2>1, QuietFollowed, QuietShown
<1> QED
    BY <1>3, <1>4

LEMMA IdleKeepsShown ==
    ASSUME ShownInv, UNCHANGED <<jobs, selected, menuItems, prods, cats, last, reread>>
    PROVE  ShownInv'
BY DEF ShownInv, Followed, ShownOrDue, ReadDue, InCategory

\* The customer selects another category: what read the one before disturbs now.
LEMMA SelectKeepsShown ==
    ASSUME TypeInv, ShownInv, NEW c \in Categories, Select(c)
    PROVE  ShownInv'
<1> SUFFICES ASSUME last # NoMenu, reread PROVE Followed' /\ ShownOrDue'
    BY DEF ShownInv, Select, stored
<1> DEFINE n == Len(jobs)
           j == Items(c)
           next == jobs'
<1>1. j \in ProperJobs /\ j.op = "items" /\ j.cat = c
    BY Made DEF Items, Job
<1>2. jobs \in Seq(ProperJobs) /\ next = Append(jobs, j) /\ selected' = c /\ n \in Nat
    BY LenProperties DEF Select, TypeInv
<1> HIDE DEF j, next
<1>3. /\ Len(next) = n + 1 /\ next[n + 1] = j
      /\ \A i \in 1..n : i \in 1..Len(next) /\ next[i] = jobs[i]
      /\ n + 1 \in 1..Len(next)
      /\ \A i \in 1..Len(next) : i \in 1..n \/ i = n + 1
    BY <1>1, <1>2
<1>4. Reads(j, c) /\ ~Disturbs(j, c) /\ Rank(j) = 0
    BY <1>1 DEF Reads, Disturbs, Rank, Carriers
<1>5. ASSUME NEW i \in 1..Len(next), Disturbs(next[i], c)
      PROVE  \E k \in 1..Len(next) : Reads(next[k], c) /\ Precedes(next[i], i, next[k], k)
    <2>1. i \in 1..n /\ next[i] = jobs[i] /\ i <= n + 1
        BY <1>2, <1>3, <1>4, <1>5
    <2>2. CASE Rank(jobs[i]) = 0
        <3>1. Precedes(next[i], i, next[n + 1], n + 1)
            BY <1>3, <1>4, <2>1, <2>2 DEF Precedes
        <3> QED
            BY <1>3, <1>4, <3>1
    <2>3. CASE Rank(jobs[i]) # 0
        <3>1. Disturbs(jobs[i], selected)
            BY <2>1, <2>3, <1>5 DEF Disturbs, Rank
        <3>2. PICK k \in 1..n : Reads(jobs[k], selected) /\ Precedes(jobs[i], i, jobs[k], k)
            BY <2>1, <3>1 DEF ShownInv, Followed
        <3>3. Rank(jobs[i]) \in 0..3 /\ Rank(jobs[k]) \in 0..3
            BY Ranks
        <3>4. Rank(jobs[k]) # 0
            BY <2>3, <3>2, <3>3 DEF Precedes
        <3>5. Reads(jobs[k], c)
            BY <3>2, <3>4 DEF Reads, Rank
        <3>6. k \in 1..Len(next) /\ next[k] = jobs[k]
            BY <1>3
        <3> QED
            BY <2>1, <3>2, <3>5, <3>6
    <2> QED
        BY <2>2, <2>3
<1>6. Followed'
    BY <1>2, <1>5 DEF Followed, next
<1>7. ReadDue'
    BY <1>2, <1>3, <1>4 DEF ReadDue, next
<1> QED
    BY <1>6, <1>7 DEF ShownOrDue

\* A screen opened when everything is stored reads the categories first, of
\* which there are some.
LEMMA VisitKeepsShown ==
    ASSUME TypeInv, StoreInv, ShownInv, NEW f \in Fetches, NEW c \in Categories,
           NEW queued, Visit(f, c, queued), jobs = <<>> => queued = <<>>
    PROVE  ShownInv'
<1> SUFFICES ASSUME last' # NoMenu PROVE Followed' /\ ShownOrDue'
    BY DEF ShownInv
<1>1. jobs = <<>> /\ last # NoMenu
    BY DEF Visit
<1> DEFINE j == Job("cats", "none", {}, NoMenu)
<1>2. jobs' = <<j>> /\ cats' = cats /\ j.op = "cats"
    <2>1. jobs' = Append(<<>>, j) /\ cats' = cats
        BY <1>1 DEF Visit, tables
    <2>2. j.op = "cats"
        BY DEF Job
    <2> HIDE DEF j
    <2> QED
        BY <2>1, <2>2
<1> HIDE DEF j
<1>3. jobs' # <<>> /\ Len(jobs') = 1 /\ jobs'[1] = j
    BY <1>2
<1>4. ~Disturbs(j, selected')
    BY <1>2 DEF Disturbs, Carriers
<1>5. Followed'
    BY <1>3, <1>4 DEF Followed
<1>6. cats # {}
    <2>1. DOMAIN last # {}
        BY <1>1, SomeCategory DEF TypeInv, TypeOK
    <2>2. Queued = {}
        BY <1>1 DEF Queued, Range
    <2>3. DOMAIN last \ cats = {}
        BY <1>1, <2>2 DEF StoreInv, CategoriesDue, Finding, Brings
    <2> QED
        BY <2>1, <2>3
<1> QED
    BY <1>2, <1>3, <1>5, <1>6 DEF ShownOrDue

LEMMA CustomerKeepsShown ==
    ASSUME TypeInv, StoreInv, ShownInv, Customer
    PROVE  ShownInv'
<1>1. ASSUME NEW f \in Fetches, Mark(f) PROVE ShownInv'
    BY <1>1, IdleKeepsShown DEF Mark, tables, stored
<1>2. ASSUME NEW f \in Fetches, NEW c \in Categories, Restart(f, c) PROVE ShownInv'
    BY <1>2, VisitKeepsShown DEF Restart
<1>3. ASSUME NEW f \in Fetches, NEW c \in Categories, NEW same \in BOOLEAN,
             Reopen(f, c, same)
      PROVE  ShownInv'
    BY <1>3, NothingLeft, VisitKeepsShown DEF Reopen
<1> QED
    BY <1>1, <1>2, <1>3, SelectKeepsShown DEF Customer

\* The menu screen's answer is of the highest rank, and the last one queued.
LEMMA AnswerKeepsShown ==
    ASSUME TypeInv, NEW f \in Fetches, Answered(f)
    PROVE  ShownInv'
<1> SUFFICES ASSUME last' # NoMenu PROVE Followed' /\ ReadDue'
    BY DEF ShownInv, ShownOrDue
<1> DEFINE n == Len(jobs)
           j == Job("findCats", "none", {}, reply[f])
           i0 == Items(selected)
           next == jobs'
<1>1. reply[f] # NoMenu /\ reply[f] \in Menus
    BY DEF Answered, Stores, TypeInv, TypeOK
<1>2. /\ j \in ProperJobs /\ j.op = "findCats" /\ j.screen = "menu"
      /\ i0 \in ProperJobs /\ i0.op = "items" /\ i0.cat = selected
    BY <1>1, Made DEF Items, Job, TypeInv, TypeOK
<1>3. /\ jobs \in Seq(ProperJobs) /\ next = jobs \o <<j, i0>> /\ selected' = selected
      /\ n \in Nat
    BY <1>1, LenProperties DEF Answered, TypeInv
<1> HIDE DEF j, i0, next
<1>4. /\ Len(next) = n + 2 /\ next[n + 1] = j /\ next[n + 2] = i0
      /\ n + 1 \in 1..Len(next)
      /\ \A i \in 1..Len(next) : i <= n + 1 \/ i = n + 2
    BY <1>2, <1>3
<1>5. /\ Reads(j, selected) /\ Rank(j) = 3 /\ ~Disturbs(i0, selected)
    BY <1>2 DEF Reads, Disturbs, Rank, Carriers
<1>6. ASSUME NEW i \in 1..Len(next), Disturbs(next[i], selected)
      PROVE  Precedes(next[i], i, next[n + 1], n + 1)
    <2>1. i <= n + 1
        BY <1>4, <1>5, <1>6
    <2>2. Rank(next[i]) \in 0..3 /\ Rank(next[n + 1]) = 3
        BY <1>4, <1>5, Ranks
    <2>3. Rank(next[i]) < 3 \/ Rank(next[i]) = 3
        BY <2>2
    <2> QED
        BY <2>1, <2>2, <2>3 DEF Precedes
<1>7. Followed'
    BY <1>3, <1>4, <1>5, <1>6 DEF Followed, next
<1>8. ReadDue'
    BY <1>3, <1>4, <1>5 DEF ReadDue, next
<1> QED
    BY <1>7, <1>8

LEMMA NetworkKeepsShown ==
    ASSUME TypeInv, ShownInv, Network
    PROVE  ShownInv'
<1>1. CASE ChangeMenu \/ HomeServed \/ HomeFails
    BY <1>1, IdleKeepsShown DEF ChangeMenu, HomeServed, HomeFails, tables, stored, screenVars
<1>2. ASSUME NEW f \in Fetches,
             MarkSent(f) \/ Marked(f) \/ AskMenu(f) \/ Fails(f) \/ Serve(f) \/ Refused(f)
      PROVE  ShownInv'
    BY <1>2, IdleKeepsShown
       DEF MarkSent, Marked, AskMenu, Proceeds, Fails, Serve, Refused, tables, stored, screenVars
<1>3. CASE HomeAnswered
    <2>1. ~reread'
        BY <1>3 DEF HomeAnswered, Stores
    <2> QED
        BY <2>1 DEF ShownInv
<1> QED
    BY <1>1, <1>2, <1>3, AnswerKeepsShown DEF Network

\* Once the menu screen has stored a menu whole, its list shows the products
\* stored in the category selected (getProductDataDB), although reads of other
\* categories, the home screen's writes and the customer's taps come in between,
\* if no answer comes while another menu is being stored.
THEOREM ShownKept == ~Overlap => (Spec => []ShownIsSelected)
<1> SUFFICES ASSUME ~Overlap PROVE Spec => []ShownIsSelected
    OBVIOUS
<1>1. Init => ShownInv
    BY DEF Init, ShownInv
<1>2. TypeInv /\ StoreInv /\ ShownInv /\ [Next]_vars => ShownInv'
    <2> SUFFICES ASSUME TypeInv, StoreInv, ShownInv, [Next]_vars PROVE ShownInv'
        OBVIOUS
    <2>1. CASE UNCHANGED vars
        BY <2>1, IdleKeepsShown DEF vars, tables, stored, screenVars
    <2> QED
        BY <2>1, CustomerKeepsShown, NetworkKeepsShown, OperationsKeepShown DEF Next
<1>3. ShownInv => ShownIsSelected
    BY DEF ShownInv, ShownIsSelected, ShownOrDue, ReadDue
<1>4. Spec => [](TypeInv /\ StoreInv)
    BY StoreKept
<1> QED
    BY <1>1, <1>2, <1>3, <1>4, PTL DEF Spec

=============================================================================
