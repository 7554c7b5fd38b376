------------------------ MODULE WhitelistStoreProofs ------------------------
(***************************************************************************)
(* What a cut-short save costs a whitelist, for every number of handlers   *)
(* and domains, as long as saves do not overlap.                           *)
(***************************************************************************)
EXTENDS WhitelistStore, TLAPS

Written(h) == change[h].at \in {"json_done", "txt_open"}

NoSaver == \A h \in Handlers : ~Saving(h)

(* The two files at each stage of the one save under way.                   *)
Stages ==
    /\ \A g, h \in Handlers : Saving(g) /\ Saving(h) => g = h
    /\ \A h \in Handlers : Saving(h) => jsonThere
    /\ \A h \in Handlers : change[h].at = "json_open" => json.state = "empty"
    /\ \A h \in Handlers : Written(h) =>
          Holds(json, good) /\ good = Changed(change[h].loaded, change[h])
    /\ \A h \in Handlers : change[h].at = "txt_open" => txt.state = "empty"

(* A json that parses is the last list written, and so is the txt until the *)
(* json has been written anew; one save cut short leaves one of the two.    *)
Kept ==
    /\ jsonThere /\ Parses(json) => json.data = good
    /\ ~jsonThere => cuts = 0
    /\ cuts = 0 /\ (\A h \in Handlers : ~Written(h)) => Holds(txt, good)
    /\ cuts = 0 /\ NoSaver /\ jsonThere => Holds(json, good)
    /\ cuts = 1 /\ NoSaver => Holds(json, good) \/ Holds(txt, good)

(* The last list written tells what was acknowledged, but for the changes   *)
(* that are in doubt or just being saved.                                   *)
Agreed ==
    \A d \in Domains \ doubt :
       \/ d \in good <=> d \in acked
       \/ \E h \in Handlers : Written(h) /\ d \in change[h].adds \cup change[h].drops

Inv == /\ TypeOK
       /\ ~mixed => Stages /\ Kept
       /\ ~mixed /\ ~stale => Agreed

-----------------------------------------------------------------------------
LEMMA FilledIsAFile ==
  ASSUME NEW L, NEW f \in File(L), NEW d \in L, NEW g \in Filled(f, d)
  PROVE  g \in File(L)
BY DEF File, FileStates, Filled, Whole

LEMMA FilledEmpty ==
  ASSUME NEW f, f.state = "empty", NEW d, NEW g \in Filled(f, d)
  PROVE  Holds(g, d)
BY DEF Filled, Holds, Parses, Whole

LEMMA EmptiedIsAFile ==
  ASSUME NEW L, NEW f \in File(L)
  PROVE  /\ Emptied(f) \in File(L) /\ Emptied(f).state = "empty"
         /\ ~Parses(Emptied(f))
BY DEF File, FileStates, Emptied, Parses

LEMMA WholeIsAFile ==
  ASSUME NEW L, NEW d \in L
  PROVE  Whole(d) \in File(L) /\ Holds(Whole(d), d)
BY DEF File, FileStates, Whole, Holds, Parses

LEMMA ChangedIsAList ==
  ASSUME NEW q \in Change, NEW l \in List
  PROVE  Changed(l, q) \in List
BY DEF Change, Changed, List

LEMMA NoChangeIsAChange == NoChange \in Change /\ NoChange.at = "idle"
BY DEF Change, NoChange, List

(* A handler that moves on in its save keeps what it carries.               *)
LEMMA MovedOn ==
  ASSUME TypeOK, NEW h \in Handlers,
         NEW at \in {"json_open", "json_done", "txt_open"},
         change' = [change EXCEPT ![h].at = at]
  PROVE  /\ change' \in [Handlers -> Change]
         /\ change'[h].at = at
         /\ change'[h].loaded = change[h].loaded
         /\ change'[h].adds = change[h].adds
         /\ change'[h].drops = change[h].drops
         /\ \A g \in Handlers : g # h => change'[g] = change[g]
<1>1. change[h] \in Change
  BY DEF TypeOK
<1> DEFINE q == [change[h] EXCEPT !.at = at]
<1>2. /\ q \in Change /\ q.at = at /\ q.loaded = change[h].loaded
      /\ q.adds = change[h].adds /\ q.drops = change[h].drops
  BY <1>1 DEF Change
<1>3. change' = [change EXCEPT ![h] = q]
  BY DEF TypeOK
<1> HIDE DEF q
<1>4. QED
  BY <1>2, <1>3 DEF TypeOK

-----------------------------------------------------------------------------
LEMMA InitInv == Init => Inv
<1> SUFFICES ASSUME Init PROVE Inv
  OBVIOUS
<1> PICK list \in List : /\ json = Emptied(Whole({})) /\ txt = Whole(list)
                         /\ good = list /\ acked = list
  BY DEF Init
<1>1. /\ json \in File(List) /\ ~Parses(json)
  BY WholeIsAFile, EmptiedIsAFile, {} \in List DEF List
<1>2. txt \in File(List) /\ Holds(txt, good)
  BY WholeIsAFile
<1>3. \A h \in Handlers : change[h].at = "idle"
  BY NoChangeIsAChange DEF Init
<1>4. TypeOK
  <2>1. change \in [Handlers -> Change]
    BY NoChangeIsAChange DEF Init
  <2>2. good \in List /\ acked \in List /\ doubt \in List
    BY DEF Init, List
  <2>3. cuts \in 0 .. 2
    <3>1. cuts = 0
      BY DEF Init
    <3>2. QED
      BY <3>1
  <2>4. jsonThere \in BOOLEAN /\ stale \in BOOLEAN /\ mixed \in BOOLEAN
    BY DEF Init
  <2>5. QED
    BY <1>1, <1>2, <2>1, <2>2, <2>3, <2>4 DEF TypeOK
<1>5. Stages /\ Kept
  BY <1>1, <1>2, <1>3 DEF Init, Stages, Kept, Saving, Written
<1>6. Agreed
  BY DEF Agreed
<1>7. QED
  BY <1>4, <1>5, <1>6 DEF Inv

(* Loading leaves both files and everything told about them alone.          *)
LEMMA LoadKeepsInv ==
  ASSUME Inv, NEW h \in Handlers, NEW a \in List, NEW d \in List, Load(h, a, d)
  PROVE  Inv'
<1> DEFINE q == [at |-> "loaded", loaded |-> Current, adds |-> a, drops |-> d]
<1>1. Current \in List
  BY DEF Inv, TypeOK, Current, File
<1>2. q \in Change /\ q.at = "loaded"
  BY <1>1 DEF Change
<1>3. change' = [change EXCEPT ![h] = q]
  BY DEF Load
<1> HIDE DEF q
<1>4. /\ change' \in [Handlers -> Change]
      /\ change'[h].at = "loaded"
      /\ \A g \in Handlers : g # h => change'[g] = change[g]
  BY <1>2, <1>3 DEF Inv, TypeOK
<1>5. UNCHANGED <<json, jsonThere, txt, good, acked, doubt, cuts, stale, mixed>>
  BY DEF Load
<1>6. TypeOK'
  BY <1>4, <1>5 DEF Inv, TypeOK
<1>7. change[h].at = "idle"
  BY DEF Load, Busy
<1>8. \A g \in Handlers : /\ Saving(g)' <=> Saving(g)
                          /\ Written(g)' <=> Written(g)
                          /\ Saving(g) \/ Written(g) => change'[g] = change[g]
  BY <1>4, <1>7 DEF Saving, Written
<1>9. Stages => Stages'
  <2>1. \A g \in Handlers : change'[g].at \in {"json_open", "txt_open"} =>
           change'[g] = change[g]
    BY <1>4
  <2>2. QED
    BY <1>5, <1>8, <2>1 DEF Stages
<1>10. Kept => Kept'
  BY <1>5, <1>8 DEF Kept, NoSaver
<1>11. Agreed => Agreed'
  BY <1>5, <1>8 DEF Agreed
<1>12. QED
  BY <1>5, <1>6, <1>9, <1>10, <1>11 DEF Inv

(* Opening the json: from then on the txt alone tells the list.             *)
LEMMA OpenJsonKeepsInv ==
  ASSUME Inv, NEW h \in Handlers, OpenJson(h)
  PROVE  Inv'
<1>1. /\ change' \in [Handlers -> Change]
      /\ change'[h].at = "json_open"
      /\ \A g \in Handlers : g # h => change'[g] = change[g]
  BY MovedOn DEF OpenJson, Inv
<1>2. json' \in File(List) /\ json'.state = "empty" /\ ~Parses(json')
  BY EmptiedIsAFile DEF OpenJson, Inv, TypeOK
<1>3. TypeOK'
  BY <1>1, <1>2 DEF OpenJson, Inv, TypeOK
<1>4. ~mixed' => ~mixed /\ NoSaver
  BY DEF OpenJson, NoSaver, Saving
<1>5. NoSaver => \A g \in Handlers : ~Written(g)' /\ ~Written(g)
  BY <1>1 DEF NoSaver, Saving, Written, OpenJson
<1>6. NoSaver => \A g \in Handlers : Saving(g)' <=> g = h
  BY <1>1 DEF NoSaver, Saving
<1>7. ASSUME NoSaver, Stages, Kept PROVE Stages' /\ Kept'
  <2>1. Stages'
    <3>1. \A g \in Handlers : change'[g].at # "txt_open"
      BY <1>5, <1>7 DEF Written
    <3>2. QED
      BY <1>2, <1>5, <1>6, <1>7, <3>1 DEF Stages, OpenJson
  <2>2. ~NoSaver'
    BY <1>6, <1>7 DEF NoSaver
  <2>3. cuts = 0 => Holds(txt, good)
    BY <1>5, <1>7 DEF Kept
  <2>4. Kept'
    BY <1>2, <2>2, <2>3 DEF Kept, OpenJson
  <2>5. QED
    BY <2>1, <2>4
<1>8. NoSaver /\ Agreed => Agreed'
  BY <1>5 DEF Agreed, OpenJson
<1>9. stale' = stale
  BY DEF OpenJson
<1>10. QED
  BY <1>3, <1>4, <1>7, <1>8, <1>9 DEF Inv

(* Writing the json: the list that counts from now on.                      *)
LEMMA WriteJsonKeepsInv ==
  ASSUME Inv, NEW h \in Handlers, WriteJson(h)
  PROVE  Inv'
<1>1. /\ change' \in [Handlers -> Change]
      /\ change'[h].at = "json_done"
      /\ change'[h].loaded = change[h].loaded
      /\ change'[h].adds = change[h].adds /\ change'[h].drops = change[h].drops
      /\ \A g \in Handlers : g # h => change'[g] = change[g]
  BY MovedOn DEF WriteJson, Inv
<1>2. change[h] \in Change /\ change[h].loaded \in List
  BY DEF Inv, TypeOK, Change
<1>3. good' = Changed(change[h].loaded, change[h]) /\ good' \in List
  BY <1>2, ChangedIsAList DEF WriteJson
<1>4. json' \in Filled(json, good')
  BY DEF WriteJson
<1>5. json' \in File(List)
  BY <1>3, <1>4, FilledIsAFile DEF Inv, TypeOK
<1>6. TypeOK'
  BY <1>1, <1>3, <1>5 DEF WriteJson, Inv, TypeOK
<1>7. Saving(h) /\ change[h].at = "json_open"
  BY DEF WriteJson, Saving
<1>8. ASSUME ~mixed PROVE Stages' /\ Kept'
  <2>0. Stages /\ Kept
    BY <1>8 DEF Inv
  <2>1. \A g \in Handlers : g # h => ~Saving(g) /\ ~Saving(g)' /\ ~Written(g)'
    BY <1>1, <1>7, <2>0 DEF Stages, Saving, Written
  <2>2. Saving(h)' /\ Written(h)'
    BY <1>1 DEF Saving, Written
  <2>3. Holds(json', good')
    BY <1>4, <1>7, <2>0, FilledEmpty DEF Stages
  <2>4. good' = Changed(change'[h].loaded, change'[h])
    BY <1>1, <1>3 DEF Changed
  <2>5. jsonThere' = TRUE
    BY <1>7, <2>0 DEF Stages, WriteJson, Inv, TypeOK
  <2>6. \A g \in Handlers : change'[g].at \notin {"json_open", "txt_open"}
    BY <1>1, <2>1 DEF Saving
  <2>7. Stages'
    BY <2>1, <2>2, <2>3, <2>4, <2>5, <2>6 DEF Stages, Holds, Parses
  <2>8. Kept'
    BY <2>2, <2>3, <2>5 DEF Kept, NoSaver, Holds
  <2>9. QED
    BY <2>7, <2>8
<1>9. ASSUME ~mixed, ~stale' PROVE Agreed'
  <2>0. Stages /\ Agreed /\ change[h].loaded = good
    BY <1>9 DEF Inv, WriteJson
  <2>1. \A g \in Handlers : ~Written(g)
    BY <1>7, <2>0 DEF Stages, Saving, Written
  <2>2. \A d \in Domains \ doubt : d \in good <=> d \in acked
    BY <2>0, <2>1 DEF Agreed
  <2>3. ASSUME NEW d, d \notin change[h].adds \cup change[h].drops
        PROVE  d \in good' <=> d \in good
    BY <1>3, <2>0, <2>3 DEF Changed
  <2>4. Written(h)'
    BY <1>1 DEF Written
  <2>5. doubt' = doubt /\ acked' = acked
    BY DEF WriteJson
  <2>6. QED
    BY <1>1, <2>2, <2>3, <2>4, <2>5 DEF Agreed
<1>10. mixed' = mixed
  BY DEF WriteJson
<1>11. QED
  BY <1>6, <1>8, <1>9, <1>10 DEF Inv

(* Opening the txt: the json tells the list.                                *)
LEMMA OpenTxtKeepsInv ==
  ASSUME Inv, NEW h \in Handlers, OpenTxt(h)
  PROVE  Inv'
<1>1. /\ change' \in [Handlers -> Change]
      /\ change'[h].at = "txt_open"
      /\ change'[h].loaded = change[h].loaded
      /\ change'[h].adds = change[h].adds /\ change'[h].drops = change[h].drops
      /\ \A g \in Handlers : g # h => change'[g] = change[g]
  BY MovedOn DEF OpenTxt, Inv
<1>2. txt' \in File(List) /\ txt'.state = "empty"
  BY EmptiedIsAFile DEF OpenTxt, Inv, TypeOK
<1>3. UNCHANGED <<json, jsonThere, good, acked, doubt, cuts, stale, mixed>>
  BY DEF OpenTxt
<1>4. TypeOK'
  BY <1>1, <1>2, <1>3 DEF Inv, TypeOK
<1>5. Saving(h) /\ Written(h) /\ change[h].at = "json_done"
  BY DEF OpenTxt, Saving, Written
<1>6. Saving(h)' /\ Written(h)'
  BY <1>1 DEF Saving, Written
<1>7. ASSUME ~mixed PROVE Stages' /\ Kept'
  <2>0. Stages /\ Kept
    BY <1>7 DEF Inv
  <2>1. \A g \in Handlers : g # h => ~Saving(g) /\ ~Saving(g)' /\ ~Written(g)'
    BY <1>1, <1>5, <2>0 DEF Stages, Saving, Written
  <2>2. Holds(json, good) /\ good = Changed(change'[h].loaded, change'[h])
    BY <1>1, <1>5, <2>0 DEF Stages, Changed
  <2>3. \A g \in Handlers : change'[g].at # "json_open"
    BY <1>1, <2>1 DEF Saving
  <2>4. Stages'
    BY <1>2, <1>3, <1>5, <1>6, <2>0, <2>1, <2>2, <2>3 DEF Stages, Holds
  <2>5. Kept'
    BY <1>3, <1>6, <2>0 DEF Kept, NoSaver
  <2>6. QED
    BY <2>4, <2>5
<1>8. Agreed => Agreed'
  <2>1. \A g \in Handlers : Written(g) =>
           /\ Written(g)'
           /\ change'[g].adds = change[g].adds /\ change'[g].drops = change[g].drops
    BY <1>1, <1>6 DEF Written
  <2>2. QED
    BY <1>3, <2>1 DEF Agreed
<1>9. QED
  BY <1>3, <1>4, <1>7, <1>8 DEF Inv

(* Writing the txt ends the save: both files hold the list, and the change  *)
(* that is acknowledged with it is in the list.                             *)
LEMMA WriteTxtKeepsInv ==
  ASSUME Inv, NEW h \in Handlers, WriteTxt(h)
  PROVE  Inv'
<1>0. change[h] \in Change
  BY DEF Inv, TypeOK
<1>1. /\ change' \in [Handlers -> Change]
      /\ change'[h] = NoChange
      /\ \A g \in Handlers : g # h => change'[g] = change[g]
  BY NoChangeIsAChange DEF WriteTxt, Inv, TypeOK
<1>2. UNCHANGED <<json, jsonThere, good, stale, mixed>> /\ cuts' = 0
  BY DEF WriteTxt
<1>3. /\ acked' = Changed(acked, change[h])
      /\ doubt' = doubt \ (change[h].adds \cup change[h].drops)
      /\ txt' \in Filled(txt, Changed(change[h].loaded, change[h]))
  BY DEF WriteTxt
<1>4. TypeOK'
  <2>1. acked' \in List
    BY <1>0, <1>3, ChangedIsAList DEF Inv, TypeOK
  <2>2. doubt' \in List
    BY <1>3 DEF Inv, TypeOK, List
  <2>3. Changed(change[h].loaded, change[h]) \in List
    BY <1>0, ChangedIsAList DEF Change
  <2>4. txt' \in File(List)
    BY <1>3, <2>3, FilledIsAFile DEF Inv, TypeOK
  <2>5. QED
    BY <1>1, <1>2, <2>1, <2>2, <2>4 DEF Inv, TypeOK
<1>5. Saving(h) /\ Written(h) /\ change[h].at = "txt_open"
  BY DEF WriteTxt, Saving, Written
<1>6. ASSUME ~mixed
      PROVE  /\ \A g \in Handlers : ~Saving(g)' /\ ~Written(g)'
             /\ \A g \in Handlers : Written(g) => g = h
             /\ good = Changed(change[h].loaded, change[h])
             /\ Holds(json, good)
  <2>0. Stages
    BY <1>6 DEF Inv
  <2>1. \A g \in Handlers : g # h => ~Saving(g) /\ ~Written(g)
    BY <1>5, <2>0 DEF Stages, Saving, Written
  <2>2. \A g \in Handlers : change'[g].at \notin {"json_open", "json_done", "txt_open"}
    BY <1>1, <2>1, NoChangeIsAChange DEF Saving
  <2>3. QED
    BY <1>5, <2>0, <2>1, <2>2 DEF Stages, Saving, Written
<1>7. ASSUME ~mixed PROVE Stages' /\ Kept'
  <2>0. Stages /\ Kept
    BY <1>7 DEF Inv
  <2>1. jsonThere
    BY <1>5, <2>0 DEF Stages
  <2>2. Holds(txt', good)
    BY <1>3, <1>5, <1>6, <1>7, <2>0, FilledEmpty DEF Stages
  <2>3. Stages'
    BY <1>6, <1>7 DEF Stages, Saving
  <2>4. Kept'
    BY <1>2, <1>6, <1>7, <2>1, <2>2 DEF Kept, Holds
  <2>5. QED
    BY <2>3, <2>4
<1>8. ASSUME ~mixed, ~stale PROVE Agreed'
  <2> SUFFICES ASSUME NEW d \in Domains \ doubt' PROVE d \in good <=> d \in acked'
    BY <1>2 DEF Agreed
  <2>1. CASE d \in change[h].adds \cup change[h].drops
    BY <1>3, <1>6, <1>8, <2>1 DEF Changed
  <2>2. CASE d \notin change[h].adds \cup change[h].drops
    <3>1. d \in acked' <=> d \in acked
      BY <1>3, <2>2 DEF Changed
    <3>2. d \in Domains \ doubt
      BY <1>3, <2>2
    <3>3. d \in good <=> d \in acked
      BY <1>6, <1>8, <2>2, <3>2 DEF Inv, Agreed
    <3>4. QED
      BY <3>1, <3>3
  <2>3. QED
    BY <2>1, <2>2
<1>9. QED
  BY <1>2, <1>4, <1>7, <1>8 DEF Inv

(* Handlers that end early leave their change in doubt if they were saving; *)
(* one save cut short leaves the list in one of the files.                  *)
LEMMA CutKeepsInv ==
  ASSUME Inv, NEW hs \in SUBSET Handlers, Cut(hs)
  PROVE  Inv'
<1>1. /\ change' \in [Handlers -> Change]
      /\ \A g \in Handlers : IF g \in hs THEN change'[g] = NoChange
                              ELSE change'[g] = change[g]
  BY NoChangeIsAChange DEF Cut, Inv, TypeOK
<1>2. UNCHANGED <<json, jsonThere, txt, good, acked, stale, mixed>>
  BY DEF Cut
<1>3. doubt' = doubt \cup UNION {change[h].adds \cup change[h].drops :
                                     h \in {g \in hs : Saving(g)}}
  BY DEF Cut
<1>4. cuts' = IF (\E h \in hs : Saving(h)) /\ cuts < 2 THEN cuts + 1 ELSE cuts
  BY DEF Cut
<1>5. cuts' \in 0 .. 2
  BY <1>4 DEF Inv, TypeOK
<1>6. doubt' \in List
  <2>1. \A h \in Handlers : change[h].adds \in List /\ change[h].drops \in List
    BY DEF Inv, TypeOK, Change
  <2>2. QED
    BY <1>3, <2>1 DEF Inv, TypeOK, List
<1>7. TypeOK'
  BY <1>1, <1>2, <1>5, <1>6 DEF Inv, TypeOK
<1>8. \A g \in Handlers : /\ Saving(g)' <=> Saving(g) /\ g \notin hs
                          /\ Written(g)' <=> Written(g) /\ g \notin hs
                          /\ Saving(g)' => change'[g] = change[g]
                          /\ Written(g) => Saving(g)
  BY <1>1, NoChangeIsAChange DEF Saving, Written
<1>9. Stages => Stages'
  <2>1. \A g \in Handlers : change'[g].at \in {"json_open", "txt_open"} =>
           change'[g] = change[g]
    BY <1>1, NoChangeIsAChange
  <2>2. QED
    BY <1>2, <1>8, <2>1 DEF Stages
<1>10. ASSUME Stages, Kept PROVE Kept'
  <2>1. CASE \E h \in hs : Saving(h)
    <3> PICK h \in hs : Saving(h)
      BY <2>1
    <3>1. h \in Handlers /\ jsonThere
      BY <1>10 DEF Stages
    <3>2. cuts' # 0
      BY <1>4, <2>1 DEF Inv, TypeOK
    <3>3. cuts' = 1 => cuts = 0
      BY <1>4, <2>1 DEF Inv, TypeOK
    <3>4. \A g \in Handlers : Saving(g) => g = h
      BY <1>10, <3>1 DEF Stages
    <3>5. cuts = 0 => Holds(json, good) \/ Holds(txt, good)
      <4>1. CASE Written(h)
        BY <1>10, <3>1, <4>1 DEF Stages
      <4>2. CASE ~Written(h)
        BY <1>8, <1>10, <3>4, <4>2 DEF Kept
      <4>3. QED
        BY <4>1, <4>2
    <3>6. QED
      BY <1>2, <1>10, <3>1, <3>2, <3>3, <3>5 DEF Kept
  <2>2. CASE ~\E h \in hs : Saving(h)
    <3>1. cuts' = cuts
      BY <1>4, <2>2
    <3>2. \A g \in Handlers : (Saving(g)' <=> Saving(g)) /\ (Written(g)' <=> Written(g))
      BY <1>8, <2>2
    <3>3. QED
      BY <1>2, <1>10, <3>1, <3>2 DEF Kept, NoSaver
  <2>3. QED
    BY <2>1, <2>2
<1>11. Agreed => Agreed'
  <2> SUFFICES ASSUME Agreed, NEW d \in Domains \ doubt', ~(d \in good <=> d \in acked)
               PROVE  \E h \in Handlers :
                         Written(h)' /\ d \in change'[h].adds \cup change'[h].drops
    BY <1>2 DEF Agreed
  <2>1. PICK h \in Handlers : Written(h) /\ d \in change[h].adds \cup change[h].drops
    BY <1>3 DEF Agreed
  <2>2. h \notin hs
    BY <1>3, <1>8, <2>1
  <2>3. QED
    BY <1>1, <1>8, <2>1, <2>2
<1>12. QED
  BY <1>2, <1>7, <1>9, <1>10, <1>11 DEF Inv

LEMMA StepKeepsInv == Inv /\ [Next]_vars => Inv'
<1> SUFFICES ASSUME Inv, [Next]_vars PROVE Inv'
  OBVIOUS
<1>1. ASSUME NEW h \in Handlers, Request(h) PROVE Inv'
  <2>1. PICK d \in Domains : Load(h, {d}, {}) \/ Load(h, {}, {d})
    BY <1>1 DEF Request, AddWhitelist, RemoveWhitelist
  <2>2. {d} \in List /\ {} \in List
    BY DEF List
  <2>3. QED
    BY <2>1, <2>2, LoadKeepsInv
<1>2. ASSUME NEW h \in Handlers, Save(h) PROVE Inv'
  <2>1. {h} \in SUBSET Handlers
    OBVIOUS
  <2>2. CASE Fail(h)
    BY <2>1, <2>2, CutKeepsInv DEF Fail
  <2>3. QED
    BY <1>2, <2>2, OpenJsonKeepsInv, WriteJsonKeepsInv, OpenTxtKeepsInv,
       WriteTxtKeepsInv DEF Save
<1>3. CASE Crash
  BY <1>3, CutKeepsInv DEF Crash
<1>4. CASE UNCHANGED vars
  BY <1>4 DEF vars, Inv, TypeOK, Stages, Kept, Agreed, Saving, Written, NoSaver,
              Holds, Parses
<1>5. QED
  BY <1>1, <1>2, <1>3, <1>4 DEF Next

LEMMA Invariance == Spec => []Inv
BY InitInv, StepKeepsInv, PTL DEF Spec

(* The state keeps its type.                                                *)
THEOREM TypeCorrect == Spec => []TypeOK
<1>1. Inv => TypeOK
  BY DEF Inv
<1>2. QED
  BY <1>1, Invariance, PTL

(* For every number of handlers: one save cut short does not cost the list. *)
THEOREM ListSurvives == Spec => []ListRecoverable
<1>1. Inv => ListRecoverable
  <2> SUFFICES ASSUME Inv, ~mixed, cuts <= 1, NoSaver
               PROVE  (jsonThere /\ Holds(json, good)) \/ Holds(txt, good)
    BY DEF ListRecoverable, NoSaver
  <2>1. Stages /\ Kept
    BY DEF Inv
  <2>2. cuts = 0 \/ cuts = 1
    BY DEF Inv, TypeOK
  <2>3. \A h \in Handlers : ~Written(h)
    BY DEF NoSaver, Saving, Written
  <2>4. QED
    BY <2>1, <2>2, <2>3 DEF Kept
<1>2. QED
  BY <1>1, Invariance, PTL

(* For every number of handlers: what was acknowledged is in effect, what   *)
(* was refused is not, but for the domains of saves that were cut short.    *)
THEOREM AcknowledgedCounts == Spec => []AcknowledgedInEffect
<1>1. Inv => AcknowledgedInEffect
  <2> SUFFICES ASSUME Inv, ~mixed, ~stale, NoSaver, Readable,
                      NEW d \in Domains \ doubt
               PROVE  d \in Current <=> d \in acked
    BY DEF AcknowledgedInEffect, NoSaver
  <2>1. Kept /\ Agreed
    BY DEF Inv
  <2>2. \A h \in Handlers : ~Written(h)
    BY DEF NoSaver, Saving, Written
  <2>3. Current = good
    <3>1. CASE jsonThere
      BY <2>1, <3>1 DEF Kept, Readable, Current
    <3>2. CASE ~jsonThere
      BY <2>1, <2>2, <3>2 DEF Kept, Current, Holds
    <3>3. QED
      BY <3>1, <3>2
  <2>4. QED
    BY <2>1, <2>2, <2>3 DEF Agreed
<1>2. QED
  BY <1>1, Invariance, PTL

(* For every number of handlers: a complete save leaves the txt in step.    *)
THEOREM TxtFollowsJson == Spec => []TxtInSync
<1>1. Inv => TxtInSync
  <2> SUFFICES ASSUME Inv, ~mixed, cuts = 0, jsonThere, NoSaver
               PROVE  Holds(json, good) /\ Holds(txt, good)
    BY DEF TxtInSync, NoSaver
  <2>1. \A h \in Handlers : ~Written(h)
    BY DEF NoSaver, Saving, Written
  <2>2. QED
    BY <2>1 DEF Inv, Kept
<1>2. QED
  BY <1>1, Invariance, PTL

-----------------------------------------------------------------------------
(* The refinement of Whitelist.  A handler carries one of the API's changes *)
(* of the list it loaded.                                                   *)

OfTheApi(q) == \E d \in Domains : \/ q.adds = {d} /\ q.drops = {}
                                  \/ q.adds = {} /\ q.drops = {d} /\ d \in q.loaded

Asked == \A h \in Handlers : Busy(h) => OfTheApi(change[h])

LEMMA AskedBegins == Init => Asked
BY NoChangeIsAChange DEF Init, Asked, Busy

LEMMA StepKeepsAsked == TypeOK /\ Asked /\ [Next]_vars => Asked'
<1> SUFFICES ASSUME TypeOK, Asked, [Next]_vars PROVE Asked'
  OBVIOUS
<1>1. ASSUME NEW h \in Handlers, NEW d \in Domains, NEW a, NEW r, Load(h, a, r),
             (a = {d} /\ r = {}) \/ (a = {} /\ r = {d} /\ d \in Current)
      PROVE  Asked'
  <2> DEFINE q == [at |-> "loaded", loaded |-> Current, adds |-> a, drops |-> r]
  <2>1. OfTheApi(q)
    BY <1>1 DEF OfTheApi
  <2>2. change' = [change EXCEPT ![h] = q]
    BY <1>1 DEF Load
  <2> HIDE DEF q
  <2>3. change'[h] = q /\ \A g \in Handlers : g # h => change'[g] = change[g]
    BY <2>2 DEF TypeOK
  <2>4. QED
    BY <2>1, <2>3 DEF Asked, Busy
<1>2. ASSUME NEW h \in Handlers, Request(h) PROVE Asked'
  BY <1>1, <1>2 DEF Request, AddWhitelist, RemoveWhitelist
<1>3. ASSUME NEW h \in Handlers, NEW at \in {"json_open", "json_done", "txt_open"},
             change[h].at # "idle", change' = [change EXCEPT ![h].at = at]
      PROVE  Asked'
  <2>1. /\ change'[h].loaded = change[h].loaded /\ change'[h].adds = change[h].adds
        /\ change'[h].drops = change[h].drops
        /\ \A g \in Handlers : g # h => change'[g] = change[g]
    BY <1>3, MovedOn
  <2>2. OfTheApi(change'[h])
    BY <1>3, <2>1 DEF Asked, Busy, OfTheApi
  <2>3. QED
    BY <2>1, <2>2 DEF Asked, Busy
<1>4. ASSUME NEW h \in Handlers, WriteTxt(h) PROVE Asked'
  BY <1>4, NoChangeIsAChange DEF WriteTxt, TypeOK, Asked, Busy
<1>5. ASSUME NEW hs \in SUBSET Handlers, Cut(hs) PROVE Asked'
  BY <1>5, NoChangeIsAChange DEF Cut, Asked, Busy
<1>6. ASSUME NEW h \in Handlers, Save(h) PROVE Asked'
  <2>1. CASE OpenJson(h) \/ WriteJson(h) \/ OpenTxt(h)
    BY <1>3, <2>1 DEF OpenJson, WriteJson, OpenTxt
  <2>2. CASE Fail(h)
    <3>1. {h} \in SUBSET Handlers
      OBVIOUS
    <3>2. QED
      BY <1>5, <2>2, <3>1 DEF Fail
  <2>3. QED
    BY <1>4, <1>6, <2>1, <2>2 DEF Save
<1>7. CASE Crash
  BY <1>5, <1>7 DEF Crash
<1>8. CASE UNCHANGED vars
  BY <1>8 DEF vars, Asked, Busy
<1>9. QED
  BY <1>2, <1>6, <1>7, <1>8 DEF Next

(* Whatever stage the files are in, what is shown is the last list written. *)
LEMMA ShownIsGood == Inv /\ ~mixed => Shown = good
<1> SUFFICES ASSUME Inv, ~mixed PROVE Shown = good
  OBVIOUS
<1>1. Stages /\ Kept
  BY DEF Inv
<1>2. CASE jsonThere
  BY <1>1, <1>2 DEF Kept, Shown, Readable, Current
<1>3. CASE ~jsonThere
  <2>1. cuts = 0 /\ \A h \in Handlers : ~Saving(h) /\ ~Written(h)
    BY <1>1, <1>3 DEF Stages, Kept, Saving, Written
  <2>2. QED
    BY <1>1, <1>3, <2>1 DEF Kept, Shown, Current, Holds
<1>4. QED
  BY <1>2, <1>3

LEMMA ShownIsAList == TypeOK => Shown \in List
BY DEF TypeOK, Shown, Current, File

(* Once changes have overlapped they stay so, and only the write of a json  *)
(* makes another list the last one written.                                 *)
LEMMA WhatWrites ==
  ASSUME TypeOK, [Next]_vars
  PROVE  /\ stale \/ mixed => (stale \/ mixed)'
         /\ good' # good => \E h \in Handlers : WriteJson(h)
<1>1. ASSUME NEW h \in Handlers, Request(h) PROVE UNCHANGED <<good, stale, mixed>>
  BY <1>1 DEF Request, AddWhitelist, RemoveWhitelist, Load
<1>2. ASSUME NEW h \in Handlers, Save(h)
      PROVE  /\ stale \/ mixed => (stale \/ mixed)'
             /\ good' # good => WriteJson(h)
  <2>1. CASE OpenJson(h)
    <3>1. mixed' = (mixed \/ \E g \in Handlers \ {h} : Saving(g)) /\ stale' = stale
      BY <2>1 DEF OpenJson
    <3>2. good' = good
      BY <2>1 DEF OpenJson
    <3>3. QED
      BY <3>1, <3>2, Zenon
  <2>2. CASE WriteJson(h)
    <3>1. stale' = (stale \/ change[h].loaded # good) /\ mixed' = mixed
      BY <2>2 DEF WriteJson
    <3>2. QED
      BY <2>2, <3>1, Zenon
  <2>3. CASE OpenTxt(h) \/ WriteTxt(h) \/ Fail(h)
    <3>1. UNCHANGED <<good, stale, mixed>>
      BY <2>3 DEF OpenTxt, WriteTxt, Fail, Cut
    <3>2. QED
      BY <3>1
  <2>4. QED
    BY <1>2, <2>1, <2>2, <2>3 DEF Save
<1>3. CASE Crash
  BY <1>3 DEF Crash, Cut
<1>4. CASE UNCHANGED vars
  BY <1>4 DEF vars
<1>5. QED
  BY <1>1, <1>2, <1>3, <1>4 DEF Next

LEMMA StepIsPromised ==
  Inv /\ Inv' /\ Asked /\ [Next]_vars => [Promise!Next]_(Promise!vars)
<1> SUFFICES ASSUME Inv, Inv', Asked, [Next]_vars
             PROVE  [Promise!Next]_(Promise!vars)
  OBVIOUS
<1>0. TypeOK /\ TypeOK'
  BY DEF Inv
<1>1. CASE (stale \/ mixed)'
  <2>1. (stale \/ mixed)' = TRUE
    BY <1>0, <1>1 DEF TypeOK
  <2>2. Shown' \in SUBSET Domains
    <3>1. (Shown \in List)'
      BY <1>0, ShownIsAList, PTL
    <3>2. QED
      BY <3>1 DEF List
  <2>3. Promise!Lose
    BY <2>1, <2>2 DEF Promise!Lose
  <2>4. QED
    BY <2>3 DEF Promise!Next
<1>2. CASE ~(stale \/ mixed)'
  <2>1. ~stale /\ ~mixed /\ ~stale' /\ ~mixed'
    BY <1>0, <1>2, WhatWrites
  <2>2. (stale \/ mixed)' = (stale \/ mixed)
    BY <1>0, <2>1 DEF TypeOK
  <2>3. Shown = good /\ Shown' = good'
    <3>1. (~mixed)'
      BY <2>1
    <3>2. (Shown = good)'
      BY <3>1, ShownIsGood, PTL
    <3>3. QED
      BY <2>1, <3>2, ShownIsGood
  <2>4. CASE good' = good
    BY <2>2, <2>3, <2>4 DEF Promise!vars
  <2>5. CASE good' # good
    <3>1. PICK h \in Handlers : WriteJson(h)
      BY <1>0, <2>5, WhatWrites
    <3>2. change[h].loaded = good /\ Busy(h)
      BY <2>1, <3>1 DEF WriteJson, Busy
    <3>3. good' = (good \ change[h].drops) \cup change[h].adds
      BY <3>1, <3>2 DEF WriteJson, Changed
    <3>4. PICK d \in Domains :
             \/ change[h].adds = {d} /\ change[h].drops = {}
             \/ change[h].adds = {} /\ change[h].drops = {d} /\ d \in good
      BY <3>2 DEF Asked, OfTheApi
    <3>5. Promise!Add(d) \/ Promise!Remove(d)
      BY <2>2, <2>3, <3>3, <3>4 DEF Promise!Add, Promise!Remove
    <3>6. QED
      BY <3>5 DEF Promise!Next
  <2>6. QED
    BY <2>4, <2>5
<1>3. QED
  BY <1>1, <1>2

(* For every number of handlers and domains: as long as no two changes      *)
(* overlapped, whatever failed or was killed, the list that is shown is one *)
(* that changes by whole requests.                                          *)
THEOREM ListIsTheWhitelist == Spec => ImplementsWhitelist
<1>1. Init => Promise!Init
  <2> SUFFICES ASSUME Init PROVE Promise!Init
    OBVIOUS
  <2>1. Shown \in SUBSET Domains
    BY DEF Init, Shown, Readable, Current, Whole, List
  <2>2. (stale \/ mixed) = FALSE
    BY DEF Init
  <2>3. QED
    BY <2>1, <2>2 DEF Promise!Init
<1>2. Inv => TypeOK
  BY DEF Inv
<1>3. QED
  BY <1>1, <1>2, AskedBegins, StepKeepsAsked, StepIsPromised, Invariance, PTL
     DEF Spec, ImplementsWhitelist, Promise!Spec
=============================================================================
