--------------------------- MODULE WhitelistStore ---------------------------
(***************************************************************************)
(* The whitelist of one client (services/feed_manager.py): handlers that   *)
(* load the list, change it, and rewrite first <client>.json and then      *)
(* <client>.txt, in place and without a lock.  The lists of two clients    *)
(* are in different files and never meet.                                  *)
(***************************************************************************)
EXTENDS Files, Naturals

CONSTANTS Domains,
          Handlers    \* the handlers that may be running at once

VARIABLES json,       \* <client>.json
          jsonThere,  \* whether it exists
          txt,        \* <client>.txt; a missing file reads as an empty list
          change,     \* change[h]: what a running handler carries
          good,       \* history: the list last written whole into the json
          acked,      \* history: the list by the acknowledged changes
          doubt,      \* history: domains whose last change was answered with
                      \* an error, or not at all, after the json was opened
          cuts,       \* history: saves cut short since the last complete
                      \* one, 2 standing for any number above
          stale,      \* history: a list was saved that was loaded before
                      \* another change
          mixed       \* history: two saves were under way at once

vars == <<json, jsonThere, txt, change, good, acked, doubt, cuts, stale, mixed>>

List == SUBSET Domains

Change == [at : {"idle", "loaded", "json_open", "json_done", "txt_open"},
           loaded : List, adds : List, drops : List]

NoChange == [at |-> "idle", loaded |-> {}, adds |-> {}, drops |-> {}]

Changed(list, q) == (list \ q.drops) \cup q.adds

Busy(h)   == change[h].at # "idle"
Saving(h) == change[h].at \in {"json_open", "json_done", "txt_open"}

(* An operator may have left a list in the txt. *)
Init == \E list \in List :
           /\ json = Emptied(Whole({}))
           /\ jsonThere = FALSE
           /\ txt = Whole(list)
           /\ change = [h \in Handlers |-> NoChange]
           /\ good = list
           /\ acked = list
           /\ doubt = {}
           /\ cuts = 0
           /\ stale = FALSE
           /\ mixed = FALSE

-----------------------------------------------------------------------------
(* _load_whitelist: the json, or the txt if there is none.  The request is  *)
(* answered 500 if the json does not parse.                                 *)
Readable == jsonThere => Parses(json)
Current  == IF jsonThere THEN json.data ELSE txt.data

Load(h, adds, drops) ==
    /\ ~Busy(h)
    /\ Readable
    /\ change' = [change EXCEPT ![h] = [at |-> "loaded", loaded |-> Current,
                                        adds |-> adds, drops |-> drops]]
    /\ UNCHANGED <<json, jsonThere, txt, good, acked, doubt, cuts, stale, mixed>>

(* A domain may be added again (with another reason), and only a listed one *)
(* be removed.                                                              *)
AddReplacing(h, d) == Load(h, {d}, Current \ {d})      \* mutant of AddWhitelist

AddWhitelist(h, d) == Load(h, {d}, {})

RemoveWhitelist(h, d) == d \in Current /\ Load(h, {}, {d})

-----------------------------------------------------------------------------
(* _save_whitelist. *)

OpenBoth(h) ==      \* mutant of OpenJson
    /\ change[h].at = "loaded"
    /\ jsonThere' = TRUE
    /\ json' = Emptied(json)
    /\ txt' = Emptied(txt)
    /\ change' = [change EXCEPT ![h].at = "json_open"]
    /\ mixed' = (mixed \/ \E g \in Handlers \ {h} : Saving(g))
    /\ UNCHANGED <<good, acked, doubt, cuts, stale>>

OpenJson(h) ==
    /\ change[h].at = "loaded"
    /\ jsonThere' = TRUE
    /\ json' = Emptied(json)
    /\ change' = [change EXCEPT ![h].at = "json_open"]
    /\ mixed' = (mixed \/ \E g \in Handlers \ {h} : Saving(g))
    /\ UNCHANGED <<txt, good, acked, doubt, cuts, stale>>

WriteJson(h) ==
    /\ change[h].at = "json_open"
    /\ LET saved == Changed(change[h].loaded, change[h])
       IN /\ json' \in Filled(json, saved)
          /\ good' = saved
    /\ change' = [change EXCEPT ![h].at = "json_done"]
    /\ stale' = (stale \/ change[h].loaded # good)
    /\ UNCHANGED <<jsonThere, txt, acked, doubt, cuts, mixed>>

OpenTxt(h) ==
    /\ change[h].at = "json_done"
    /\ txt' = Emptied(txt)
    /\ change' = [change EXCEPT ![h].at = "txt_open"]
    /\ UNCHANGED <<json, jsonThere, good, acked, doubt, cuts, stale, mixed>>

WriteTxtLoaded(h) ==      \* mutant of WriteTxt
    /\ change[h].at = "txt_open"
    /\ txt' \in Filled(txt, change[h].loaded)
    /\ change' = [change EXCEPT ![h] = NoChange]
    /\ acked' = Changed(acked, change[h])
    /\ doubt' = doubt \ (change[h].adds \cup change[h].drops)
    /\ cuts' = 0
    /\ UNCHANGED <<json, jsonThere, good, stale, mixed>>

(* The text goes in, and the request is answered. *)
WriteTxt(h) ==
    /\ change[h].at = "txt_open"
    /\ txt' \in Filled(txt, Changed(change[h].loaded, change[h]))
    /\ change' = [change EXCEPT ![h] = NoChange]
    /\ acked' = Changed(acked, change[h])
    /\ doubt' = doubt \ (change[h].adds \cup change[h].drops)
    /\ cuts' = 0
    /\ UNCHANGED <<json, jsonThere, good, stale, mixed>>

(* The handlers of hs end without having saved, or half-way. *)
Cut(hs) ==
    /\ change' = [h \in Handlers |-> IF h \in hs THEN NoChange ELSE change[h]]
    /\ doubt' = doubt \cup UNION {change[h].adds \cup change[h].drops :
                                     h \in {g \in hs : Saving(g)}}
    /\ cuts' = IF (\E h \in hs : Saving(h)) /\ cuts < 2 THEN cuts + 1 ELSE cuts
    /\ UNCHANGED <<json, jsonThere, txt, good, acked, stale, mixed>>

FailAnsweringOk(h) ==      \* mutant of Fail
    /\ Busy(h)
    /\ change' = [change EXCEPT ![h] = NoChange]
    /\ acked' = Changed(acked, change[h])
    /\ UNCHANGED <<json, jsonThere, txt, good, doubt, cuts, stale, mixed>>

(* A step of the save raises OSError (a full disk, a read-only mount): 503  *)
(* when adding, 500 when removing.                                          *)
Fail(h) == Busy(h) /\ Cut({h})

(* The service is killed and started again. *)
Crash == (\E h \in Handlers : Busy(h)) /\ Cut(Handlers)

-----------------------------------------------------------------------------
Request(h) == \E d \in Domains : AddWhitelist(h, d) \/ RemoveWhitelist(h, d)

Save(h) == OpenJson(h) \/ WriteJson(h) \/ OpenTxt(h) \/ WriteTxt(h) \/ Fail(h)

Next == \/ \E h \in Handlers : Request(h) \/ Save(h)
        \/ Crash

Spec == Init /\ [][Next]_vars

-----------------------------------------------------------------------------
(* The type of the state. *)
TypeOK == /\ json \in File(List) /\ txt \in File(List)
          /\ jsonThere \in BOOLEAN
          /\ change \in [Handlers -> Change]
          /\ good \in List /\ acked \in List /\ doubt \in List
          /\ cuts \in 0 .. 2
          /\ stale \in BOOLEAN /\ mixed \in BOOLEAN

Holds(f, list) == Parses(f) /\ f.data = list

(* A save that is cut short, by an error or by the death of the service,    *)
(* does not cost the list: the last one that was written out is still whole *)
(* in the json or in the txt, which _save_whitelist rewrites one after the  *)
(* other - as long as no two saves were under way at once, and no other     *)
(* save was cut short since the last complete one.                          *)
ListRecoverable ==
    ~mixed /\ cuts <= 1 /\ (\A h \in Handlers : ~Saving(h)) =>
        (jsonThere /\ Holds(json, good)) \/ Holds(txt, good)

(* Every acknowledged change is in effect and no refused one is, also after *)
(* saves that were cut short, except for the domains of those (a change     *)
(* that was answered with an error may have reached the json).              *)
AcknowledgedInEffect ==
    ~mixed /\ ~stale /\ (\A h \in Handlers : ~Saving(h)) /\ Readable =>
        \A d \in Domains \ doubt : d \in Current <=> d \in acked

(* "Also sync the txt" (comment in _save_whitelist): after a complete save  *)
(* both files hold the same list, even when changes undid each other.       *)
TxtInSync ==
    ~mixed /\ cuts = 0 /\ jsonThere /\ (\A h \in Handlers : ~Saving(h)) =>
        Holds(json, good) /\ Holds(txt, good)

(* What get_whitelist answers.  As long as it answers with an error, the    *)
(* list last written stands for the list.                                   *)
Shown == IF Readable THEN Current ELSE good

(* As long as no two changes overlapped, whoever asks for the list at any   *)
(* moment, be it in the middle of a save or after a save that was cut       *)
(* short, sees a list that changes by whole requests, each made on the list *)
(* that was shown before.                                                   *)
Promise == INSTANCE Whitelist WITH list <- Shown, lost <- (stale \/ mixed)
ImplementsWhitelist == Promise!Spec
=============================================================================
