-------------------------- MODULE FeedStoreProofs --------------------------
(***************************************************************************)
(* What the handlers of the feed do not break as long as their saves do    *)
(* not overlap, for every number of handlers, domains and clients, and     *)
(* that the feed is then the list FeedList promises.                       *)
(***************************************************************************)
EXTENDS FeedStore, TLAPS

(* What a running handler carries is one of the changes of the API, made    *)
(* for the list it loaded.                                                  *)
OfTheApi(q) ==
    \/ \E e \in Entries : q.adds = {e} /\ q.drops = {} /\ e \notin q.loaded
    \/ /\ q.adds = {}
       /\ q.drops \cap q.loaded # {}
       /\ \E d \in Domains, cs \in SUBSET Clients : q.drops = {d} \X cs
    \/ /\ q.drops = {}
       /\ \E c \in Clients, ds \in SUBSET Domains : q.adds = ds \X {c}

(* Without overlapping saves feed.tmp belongs to the one handler that       *)
(* saves: empty from its open on, then the list that handler made.          *)
OneSaver ==
    ~mixed =>
        /\ \A g, h \in Handlers : Saving(g) /\ Saving(h) => g = h
        /\ \A h \in Handlers : change[h].at = "opened" =>
              change[h].on = "tmp" /\ tmp.state = "empty"
        /\ \A h \in Handlers : change[h].at = "written" =>
              tmp = Whole(Changed(change[h].loaded, change[h]))

Inv == /\ TypeOK
       /\ FeedParses
       /\ OneSaver
       /\ \A h \in Handlers : Busy(h) => OfTheApi(change[h])

-----------------------------------------------------------------------------
LEMMA FilledIsAFile ==
  ASSUME NEW L, NEW f \in File(L), NEW d \in L, NEW g \in Filled(f, d)
  PROVE  g \in File(L)
BY DEF File, FileStates, Filled, Whole

LEMMA FilledEmpty ==
  ASSUME NEW f, f.state = "empty", NEW d, NEW g \in Filled(f, d)
  PROVE  g = Whole(d)
BY DEF Filled

LEMMA EmptiedIsAFile ==
  ASSUME NEW L, NEW f \in File(L)
  PROVE  Emptied(f) \in File(L) /\ Emptied(f).state = "empty"
BY DEF File, FileStates, Emptied

LEMMA WholeIsAFile ==
  ASSUME NEW L, NEW d \in L
  PROVE  Whole(d) \in File(L) /\ Parses(Whole(d)) /\ Whole(d).data = d
BY DEF File, FileStates, Whole, Parses

LEMMA ChangedIsAList ==
  ASSUME NEW q \in Change
  PROVE  Changed(q.loaded, q) \in List
BY DEF Change, Changed, List

LEMMA NoChangeIsAChange == NoChange \in Change
BY DEF Change, NoChange, List

(* What every change a request starts with looks like.                      *)
Started(loaded, adds, drops) ==
    [NoChange EXCEPT !.at = "loaded", !.loaded = loaded,
                     !.adds = adds, !.drops = drops]

LEMMA StartedIsAChange ==
  ASSUME NEW l \in List, NEW a \in List, NEW d \in List
  PROVE  /\ Started(l, a, d) \in Change
         /\ Started(l, a, d).at = "loaded"
         /\ Started(l, a, d).on = "none"
         /\ Started(l, a, d).loaded = l
         /\ Started(l, a, d).adds = a
         /\ Started(l, a, d).drops = d
BY DEF Started, NoChange, Change, List

-----------------------------------------------------------------------------
LEMMA InitInv == Init => Inv
<1> SUFFICES ASSUME Init PROVE Inv
  OBVIOUS
<1>1. Whole({}) \in File(List) /\ Parses(Whole({}))
  BY WholeIsAFile, {} \in List DEF List
<1>2. TypeOK
  BY <1>1, NoChangeIsAChange DEF Init, TypeOK
<1>3. \A h \in Handlers : change[h].at = "idle"
  BY DEF Init, NoChange
<1>4. OneSaver /\ FeedParses
  BY <1>1, <1>3 DEF OneSaver, Saving, FeedParses, Init
<1>5. QED
  BY <1>2, <1>3, <1>4 DEF Inv, Busy

(* A request only loads: it starts one of the changes of the API.           *)
LEMMA RequestStarts ==
  ASSUME Inv, NEW h \in Handlers, Request(h)
  PROVE  \E a, d \in List : /\ Load(h, a, d)
                            /\ OfTheApi(Started(feed.data, a, d))
<1>0. feed.data \in List
  BY DEF Inv, TypeOK, File
<1>1. ASSUME NEW a \in List, NEW d \in List, Load(h, a, d),
             \/ \E e \in Entries : a = {e} /\ d = {} /\ e \notin feed.data
             \/ /\ a = {} /\ d \cap feed.data # {}
                /\ \E x \in Domains, cs \in SUBSET Clients : d = {x} \X cs
             \/ /\ d = {}
                /\ \E c \in Clients, ds \in SUBSET Domains : a = ds \X {c}
      PROVE  \E b, e \in List : Load(h, b, e) /\ OfTheApi(Started(feed.data, b, e))
  <2> DEFINE q == Started(feed.data, a, d)
  <2>1. q.loaded = feed.data /\ q.adds = a /\ q.drops = d
    BY <1>0, StartedIsAChange
  <2> HIDE DEF q
  <2>2. OfTheApi(q)
    BY <1>1, <2>1 DEF OfTheApi
  <2>3. OfTheApi(Started(feed.data, a, d))
    BY <2>2 DEF q
  <2>4. QED
    BY <1>1, <2>3
<1>2. CASE \E e \in Entries : AddDomain(h, e)
  BY <1>1, <1>2 DEF AddDomain, List
<1>3. CASE \E d \in Domains, c \in Clients : RemoveDomain(h, {<<d, c>>})
  <2> PICK d \in Domains, c \in Clients : RemoveDomain(h, {<<d, c>>})
    BY <1>3
  <2>1. {<<d, c>>} = {d} \X {c} /\ {<<d, c>>} \in List
    BY DEF List, Entries
  <2>2. Load(h, {}, {<<d, c>>}) /\ {<<d, c>>} \cap feed.data # {}
    BY DEF RemoveDomain
  <2>3. {} \in List /\ {c} \in SUBSET Clients
    BY DEF List
  <2>4. QED
    BY <1>1, <2>1, <2>2, <2>3
<1>4. CASE \E d \in Domains, c \in Clients : PromoteDomain(h, d, c)
  BY <1>1, <1>4 DEF PromoteDomain, List, Entries
<1>5. CASE \E d \in Domains : RemoveDomain(h, {d} \X Clients)
  <2> PICK d \in Domains : RemoveDomain(h, {d} \X Clients)
    BY <1>5
  <2>1. {d} \X Clients \in List /\ {} \in List
    BY DEF List, Entries
  <2>2. Load(h, {}, {d} \X Clients) /\ ({d} \X Clients) \cap feed.data # {}
    BY DEF RemoveDomain
  <2>3. QED
    BY <1>1, <2>1, <2>2
<1>6. CASE \E c \in Clients, ds \in SUBSET Domains : OnboardClient(h, c, ds)
  <2> PICK c \in Clients, ds \in SUBSET Domains : OnboardClient(h, c, ds)
    BY <1>6
  <2>1. ds \X {c} \in List /\ {} \in List
    BY DEF List, Entries
  <2>2. Load(h, ds \X {c}, {})
    BY DEF OnboardClient
  <2>3. QED
    BY <1>1, <2>1, <2>2
<1>7. QED
  BY <1>2, <1>3, <1>4, <1>5, <1>6 DEF Request

-----------------------------------------------------------------------------
(* How the steps that only touch what one handler carries keep Inv.         *)
LEMMA CarriedKeepsInv ==
  ASSUME Inv, NEW h \in Handlers, NEW q \in Change,
         change' = [change EXCEPT ![h] = q],
         q.at \in {"idle", "loaded"},
         q.at = "loaded" => OfTheApi(q),
         UNCHANGED <<feed, tmp, tmpThere, stale, mixed>>
  PROVE  Inv'
<1>1. TypeOK'
  BY DEF Inv, TypeOK
<1>2. FeedParses'
  BY DEF Inv, FeedParses
<1>3. ASSUME NEW g \in Handlers
      PROVE  IF g = h THEN change'[g] = q ELSE change'[g] = change[g]
  BY DEF Inv, TypeOK
<1>4. ASSUME NEW g \in Handlers, Saving(g)'
      PROVE  Saving(g) /\ change'[g] = change[g]
  BY <1>3, <1>4 DEF Saving
<1>5. OneSaver'
  BY <1>3, <1>4 DEF Inv, OneSaver, Saving
<1>6. ASSUME NEW g \in Handlers, Busy(g)'
      PROVE  OfTheApi(change'[g])
  BY <1>3, <1>6 DEF Inv, Busy
<1>7. QED
  BY <1>1, <1>2, <1>5, <1>6 DEF Inv

LEMMA RequestKeepsInv ==
  ASSUME Inv, NEW h \in Handlers, Request(h)
  PROVE  Inv'
<1>1. PICK a, d \in List : Load(h, a, d) /\ OfTheApi(Started(feed.data, a, d))
  BY RequestStarts
<1>2. feed.data \in List
  BY DEF Inv, TypeOK, File
<1>3. change' = [change EXCEPT ![h] = Started(feed.data, a, d)]
  BY <1>1 DEF Load, Started
<1>4. UNCHANGED <<feed, tmp, tmpThere, stale, mixed>>
  BY <1>1 DEF Load
<1> DEFINE q == Started(feed.data, a, d)
<1>5. q \in Change /\ q.at = "loaded" /\ OfTheApi(q)
  BY <1>1, <1>2, StartedIsAChange
<1>6. change' = [change EXCEPT ![h] = q]
  BY <1>3
<1> HIDE DEF q
<1>7. QED
  BY <1>4, <1>5, <1>6, CarriedKeepsInv

LEMMA FailKeepsInv ==
  ASSUME Inv, NEW h \in Handlers, Fail(h)
  PROVE  Inv'
<1>1. NoChange.at = "idle"
  BY DEF NoChange
<1>2. QED
  BY <1>1, NoChangeIsAChange, CarriedKeepsInv DEF Fail

LEMMA CrashKeepsInv ==
  ASSUME Inv, Crash
  PROVE  Inv'
<1>1. \A h \in Handlers : change'[h].at = "idle"
  BY DEF Crash, NoChange
<1>2. TypeOK'
  BY NoChangeIsAChange DEF Inv, TypeOK, Crash
<1>3. OneSaver' /\ FeedParses'
  BY <1>1 DEF Inv, OneSaver, Saving, FeedParses, Crash
<1>4. QED
  BY <1>1, <1>2, <1>3 DEF Inv, Busy

(* Opening feed.tmp: the handler is then the only one that saves, or mixed. *)
LEMMA OpenKeepsInv ==
  ASSUME Inv, NEW h \in Handlers, OpenTmp(h)
  PROVE  Inv'
<1> DEFINE q == [change[h] EXCEPT !.at = "opened", !.on = "tmp"]
<1>0. change[h] \in Change
  BY DEF Inv, TypeOK
<1>1. /\ q \in Change /\ q.at = "opened" /\ q.on = "tmp"
      /\ q.loaded = change[h].loaded /\ q.adds = change[h].adds
      /\ q.drops = change[h].drops
  BY <1>0 DEF Change
<1>2. change' = [change EXCEPT ![h] = q]
  BY DEF OpenTmp, Inv, TypeOK
<1> HIDE DEF q
<1>3. ASSUME NEW g \in Handlers
      PROVE  IF g = h THEN change'[g] = q ELSE change'[g] = change[g]
  BY <1>2 DEF Inv, TypeOK
<1>4. tmp' \in File(List) /\ tmp'.state = "empty"
  BY EmptiedIsAFile DEF OpenTmp, Inv, TypeOK
<1>5. TypeOK'
  BY <1>1, <1>2, <1>4 DEF OpenTmp, Inv, TypeOK
<1>6. FeedParses'
  BY DEF Inv, FeedParses, OpenTmp
<1>7. ASSUME ~mixed', NEW g \in Handlers, Saving(g)'
      PROVE  g = h
  BY <1>3, <1>7 DEF OpenTmp, Saving
<1>8. OneSaver'
  BY <1>1, <1>3, <1>4, <1>7 DEF OneSaver, Saving
<1>9. ASSUME NEW g \in Handlers, Busy(g)'
      PROVE  OfTheApi(change'[g])
  <2>1. OfTheApi(change[h])
    BY DEF Inv, Busy, OpenTmp
  <2>2. OfTheApi(q)
    BY <1>1, <2>1 DEF OfTheApi
  <2>3. QED
    BY <1>3, <1>9, <2>2 DEF Inv, Busy
<1>10. QED
  BY <1>5, <1>6, <1>8, <1>9 DEF Inv

(* Writing out: without overlapping saves, over an empty feed.tmp.          *)
LEMMA WriteKeepsInv ==
  ASSUME Inv, NEW h \in Handlers, WriteOut(h)
  PROVE  Inv'
<1> DEFINE q == [change[h] EXCEPT !.at = "written", !.on = "none"]
           saved == Changed(change[h].loaded, change[h])
<1>0. change[h] \in Change
  BY DEF Inv, TypeOK
<1>1. /\ q \in Change /\ q.at = "written" /\ q.on = "none"
      /\ q.loaded = change[h].loaded /\ q.adds = change[h].adds
      /\ q.drops = change[h].drops
  BY <1>0 DEF Change
<1>2. change' = [change EXCEPT ![h] = q]
  BY DEF WriteOut, Inv, TypeOK
<1>3. saved \in List
  BY <1>0, ChangedIsAList
<1>4. saved = Changed(q.loaded, q)
  BY <1>1 DEF Changed
<1>5. \/ tmp' \in Filled(tmp, saved) /\ UNCHANGED feed
      \/ change[h].on = "feed" /\ feed' \in Filled(feed, saved) /\ UNCHANGED tmp
      \/ UNCHANGED <<feed, tmp>>
  BY DEF WriteOut
<1>6. ~mixed => tmp' \in Filled(tmp, saved) /\ UNCHANGED feed /\ tmp.state = "empty"
  BY DEF WriteOut, Inv, OneSaver
<1> HIDE DEF q, saved
<1>7. feed' \in File(List) /\ tmp' \in File(List)
  BY <1>3, <1>5, FilledIsAFile DEF Inv, TypeOK
<1>8. TypeOK'
  BY <1>1, <1>2, <1>7 DEF WriteOut, Inv, TypeOK
<1>9. ASSUME NEW g \in Handlers
      PROVE  IF g = h THEN change'[g] = q ELSE change'[g] = change[g]
  BY <1>2 DEF Inv, TypeOK
<1>10. mixed' = mixed
  BY DEF WriteOut
<1>11. FeedParses'
  BY <1>6, <1>10 DEF Inv, FeedParses
<1>12. ASSUME ~mixed', NEW g \in Handlers, Saving(g)'
       PROVE  g = h
  <2>1. Saving(h)
    BY DEF WriteOut, Saving
  <2>2. g = h \/ Saving(g)
    BY <1>9, <1>12 DEF Saving
  <2>3. QED
    BY <1>10, <1>12, <2>1, <2>2 DEF Inv, OneSaver
<1>13. ~mixed' => tmp' = Whole(saved)
  BY <1>6, <1>10, FilledEmpty
<1>14. OneSaver'
  <2> SUFFICES ASSUME ~mixed' PROVE OneSaver'
    BY DEF OneSaver
  <2>1. change'[h] = q
    BY <1>9
  <2>2. tmp' = Whole(Changed(change'[h].loaded, change'[h]))
    BY <1>4, <1>13, <2>1
  <2>3. \A g \in Handlers : change'[g].at \in {"opened", "written"} => g = h
    BY <1>12 DEF Saving
  <2>4. QED
    BY <1>1, <2>1, <2>2, <2>3 DEF OneSaver, Saving
<1>15. ASSUME NEW g \in Handlers, Busy(g)'
       PROVE  OfTheApi(change'[g])
  <2>1. OfTheApi(change[h])
    BY DEF Inv, Busy, WriteOut
  <2>2. OfTheApi(q)
    BY <1>1, <2>1 DEF OfTheApi
  <2>3. QED
    BY <1>9, <1>15, <2>2 DEF Inv, Busy
<1>16. QED
  BY <1>8, <1>11, <1>14, <1>15 DEF Inv

(* The rename ends the save; the other handles move with the file.          *)
LEMMA RenameKeepsInv ==
  ASSUME Inv, NEW h \in Handlers, Rename(h)
  PROVE  /\ Inv'
         /\ ~mixed => feed' = Whole(Changed(change[h].loaded, change[h]))
<1> DEFINE q(g) == [change[g] EXCEPT !.on = Moved(@)]
<1>0. \A g \in Handlers : change[g] \in Change
  BY DEF Inv, TypeOK
<1>1. ASSUME NEW g \in Handlers
      PROVE  /\ q(g) \in Change /\ q(g).at = change[g].at
             /\ q(g).loaded = change[g].loaded /\ q(g).adds = change[g].adds
             /\ q(g).drops = change[g].drops
  BY <1>0 DEF Change, Moved
<1>2. change' = [g \in Handlers |-> IF g = h THEN NoChange ELSE q(g)]
  BY DEF Rename
<1>3. change[h].at = "written" /\ Saving(h)
  BY DEF Rename, Saving
<1> HIDE DEF q
<1>4. ASSUME NEW g \in Handlers
      PROVE  IF g = h THEN change'[g] = NoChange ELSE change'[g] = q(g)
  BY <1>2
<1>5. TypeOK'
  <2>1. change' \in [Handlers -> Change]
    BY <1>1, <1>2, NoChangeIsAChange
  <2>2. stale' \in BOOLEAN
    BY DEF Rename, Inv, TypeOK
  <2>3. QED
    BY <2>1, <2>2 DEF Rename, Inv, TypeOK
<1>6. ~mixed => feed' = Whole(Changed(change[h].loaded, change[h]))
  BY <1>3 DEF Inv, OneSaver, Rename
<1>7. FeedParses'
  BY <1>6 DEF FeedParses, Parses, Whole, Rename
<1>8. ASSUME ~mixed', NEW g \in Handlers
      PROVE  ~Saving(g)'
  <2>1. g # h => ~Saving(g)
    BY <1>3, <1>8 DEF Inv, OneSaver, Rename
  <2>2. QED
    BY <1>1, <1>4, <2>1 DEF Saving, NoChange
<1>9. OneSaver'
  BY <1>8 DEF OneSaver, Saving
<1>10. ASSUME NEW g \in Handlers, Busy(g)'
       PROVE  OfTheApi(change'[g])
  <2>1. g # h
    BY <1>4, <1>10 DEF Busy, NoChange
  <2>2. change'[g] = q(g) /\ Busy(g)
    BY <1>1, <1>4, <1>10, <2>1 DEF Busy
  <2>3. OfTheApi(change[g])
    BY <2>2 DEF Inv
  <2>4. OfTheApi(q(g))
    BY <1>1, <2>3 DEF OfTheApi
  <2>5. QED
    BY <2>2, <2>4
<1>11. QED
  BY <1>5, <1>6, <1>7, <1>9, <1>10 DEF Inv

LEMMA StepKeepsInv == Inv /\ [Next]_vars => Inv'
<1> SUFFICES ASSUME Inv, [Next]_vars PROVE Inv'
  OBVIOUS
<1>1. ASSUME NEW h \in Handlers, Request(h) \/ Save(h) PROVE Inv'
  BY <1>1, RequestKeepsInv, OpenKeepsInv, WriteKeepsInv, RenameKeepsInv,
     FailKeepsInv DEF Save
<1>2. CASE UNCHANGED vars
  BY <1>2 DEF vars, Inv, TypeOK, FeedParses, OneSaver, Saving, Busy
<1>3. QED
  BY <1>1, <1>2, CrashKeepsInv DEF Next

LEMMA Invariance == Spec => []Inv
BY InitInv, StepKeepsInv, PTL DEF Spec

(* The state keeps its type.                                                *)
THEOREM TypeCorrect == Spec => []TypeOK
<1>1. Inv => TypeOK
  BY DEF Inv
<1>2. QED
  BY <1>1, Invariance, PTL

(* For every number of handlers: saves that do not overlap never leave a    *)
(* feed.json that does not parse, whatever fails or dies in them.           *)
THEOREM SavesKeepFeed == Spec => []FeedParses
<1>1. Inv => FeedParses
  BY DEF Inv
<1>2. QED
  BY <1>1, Invariance, PTL

-----------------------------------------------------------------------------
(* Without overlapping saves only a rename changes feed.json.               *)
LEMMA OnlyRenameChanges ==
  ASSUME Inv, [Next]_vars, feed' # feed, ~mixed'
  PROVE  \E h \in Handlers :
            /\ Rename(h)
            /\ feed' = Whole(Changed(change[h].loaded, change[h]))
<1>1. ASSUME NEW h \in Handlers, Request(h) PROVE FALSE
  BY <1>1, RequestStarts DEF Load
<1>2. ASSUME NEW h \in Handlers, OpenTmp(h) PROVE FALSE
  BY <1>2 DEF OpenTmp
<1>3. ASSUME NEW h \in Handlers, WriteOut(h) PROVE FALSE
  BY <1>3 DEF WriteOut, Inv, OneSaver
<1>4. ASSUME NEW h \in Handlers, Fail(h) PROVE FALSE
  BY <1>4 DEF Fail
<1>5. CASE Crash
  BY <1>5 DEF Crash
<1>6. CASE UNCHANGED vars
  BY <1>6 DEF vars
<1>7. PICK h \in Handlers : Rename(h)
  BY <1>1, <1>2, <1>3, <1>4, <1>5, <1>6 DEF Next, Save
<1>8. ~mixed
  BY <1>7 DEF Rename
<1>9. QED
  BY <1>7, <1>8, RenameKeepsInv

(* feed.json only ever goes from one list to one that a handler made.       *)
THEOREM FeedChangesWhole == Spec => FeedReplacedWhole
<1> DEFINE Goes == feed' # feed /\ ~mixed =>
             \E h \in Handlers :
                /\ change[h].at = "written"
                /\ feed' = Whole(Changed(change[h].loaded, change[h]))
<1>1. Inv /\ [Next]_vars => [Goes]_vars
  <2> SUFFICES ASSUME Inv, [Next]_vars, feed' # feed, ~mixed
               PROVE  \E h \in Handlers :
                         /\ change[h].at = "written"
                         /\ feed' = Whole(Changed(change[h].loaded, change[h]))
    OBVIOUS
  <2>1. CASE mixed'
    <3>1. PICK h \in Handlers : OpenTmp(h)
      BY <2>1, RequestStarts DEF Next, Save, WriteOut, Rename, Fail, Crash, Load, vars
    <3>2. QED
      BY <3>1 DEF OpenTmp
  <2>2. CASE ~mixed'
    BY <2>2, OnlyRenameChanges DEF Rename
  <2>3. QED
    BY <2>1, <2>2
<1>2. QED
  BY <1>1, Invariance, PTL DEF Spec, FeedReplacedWhole

-----------------------------------------------------------------------------
(* The refinement of FeedList.                                              *)

LEMMA ApiChangeIsPromised ==
  ASSUME NEW q, OfTheApi(q), q.loaded = feed.data,
         feed'.data = Changed(q.loaded, q),
         (stale \/ mixed)' = (stale \/ mixed)
  PROVE  Promise!Next
<1>1. CASE \E e \in Entries : q.adds = {e} /\ q.drops = {} /\ e \notin q.loaded
  <2> PICK e \in Entries : q.adds = {e} /\ q.drops = {} /\ e \notin q.loaded
    BY <1>1
  <2>1. Promise!Add(e)
    BY DEF Promise!Add, Changed
  <2>2. QED
    BY <2>1 DEF Promise!Next, Promise!Entries, Entries
<1>2. CASE /\ q.adds = {}
           /\ q.drops \cap q.loaded # {}
           /\ \E d \in Domains, cs \in SUBSET Clients : q.drops = {d} \X cs
  <2> PICK d \in Domains, cs \in SUBSET Clients : q.drops = {d} \X cs
    BY <1>2
  <2>1. Promise!Remove({d} \X cs)
    BY <1>2 DEF Promise!Remove, Changed
  <2>2. QED
    BY <2>1 DEF Promise!Next
<1>3. CASE /\ q.drops = {}
           /\ \E c \in Clients, ds \in SUBSET Domains : q.adds = ds \X {c}
  <2> PICK c \in Clients, ds \in SUBSET Domains : q.adds = ds \X {c}
    BY <1>3
  <2>1. Promise!Onboard(c, ds)
    BY <1>3 DEF Promise!Onboard, Changed
  <2>2. QED
    BY <2>1 DEF Promise!Next
<1>4. QED
  BY <1>1, <1>2, <1>3 DEF OfTheApi

LEMMA StepIsPromised ==
  Inv /\ Inv' /\ [Next]_vars => [Promise!Next]_(Promise!vars)
<1> SUFFICES ASSUME Inv, Inv', [Next]_vars PROVE [Promise!Next]_(Promise!vars)
  OBVIOUS
<1>0. feed'.data \in SUBSET Promise!Entries
  BY DEF Inv, TypeOK, File, List, Promise!Entries, Entries
<1>1. CASE (stale \/ mixed)'
  <2>1. (stale \/ mixed)' = TRUE
    BY <1>1 DEF Inv, TypeOK
  <2>2. Promise!Lose
    BY <1>0, <2>1 DEF Promise!Lose
  <2>3. QED
    BY <2>2 DEF Promise!Next
<1>2. CASE ~(stale \/ mixed)'
  <2>1. (stale' = FALSE) /\ (mixed' = FALSE)
    BY <1>2 DEF Inv, TypeOK
  <2>2. CASE feed' = feed
    <3>1. ~(stale \/ mixed)
      BY <1>2, RequestStarts
         DEF Next, Save, OpenTmp, WriteOut, Rename, Fail, Crash, Load, vars
    <3>2. (stale \/ mixed)' = (stale \/ mixed)
      BY <1>2, <3>1
    <3>3. QED
      BY <2>2, <3>2 DEF Promise!vars
  <2>3. CASE feed' # feed
    <3>1. PICK h \in Handlers : /\ Rename(h)
                                /\ feed' = Whole(Changed(change[h].loaded, change[h]))
      BY <1>2, <2>3, OnlyRenameChanges
    <3>2. ~stale /\ ~mixed /\ change[h].loaded = feed.data
      BY <1>2, <3>1 DEF Rename
    <3>3. OfTheApi(change[h])
      BY <3>1 DEF Inv, Busy, Rename
    <3>4. feed'.data = Changed(change[h].loaded, change[h])
      BY <3>1 DEF Whole
    <3>5. (stale \/ mixed)' = (stale \/ mixed)
      BY <1>2, <3>2
    <3>6. QED
      BY <3>2, <3>3, <3>4, <3>5, ApiChangeIsPromised
  <2>4. QED
    BY <2>2, <2>3
<1>3. QED
  BY <1>1, <1>2

(* As long as changes do not overlap, feed.json is the list of FeedList:    *)
(* an acknowledged change takes effect at once, one that fails has none.    *)
THEOREM FeedIsTheList == Spec => ImplementsList
<1>1. Init => Promise!Init
  BY DEF Init, Promise!Init, Whole
<1>2. QED
  BY <1>1, StepIsPromised, Invariance, PTL DEF Spec, ImplementsList, Promise!Spec
=============================================================================
