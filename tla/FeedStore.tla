----------------------------- MODULE FeedStore -----------------------------
(***************************************************************************)
(* The feed of services/feed_manager.py: handlers that load feed.json,     *)
(* change the list and save it, by way of feed.tmp and a rename.  They run *)
(* in the threads of the service, without a lock.                          *)
(*                                                                         *)
(* A handle opened on feed.tmp stays on the file it was opened on: when    *)
(* another handler renames that file, the text goes into feed.json.        *)
(***************************************************************************)
EXTENDS Files

CONSTANTS Domains, Clients,
          Handlers    \* the handlers that may be running at once

VARIABLES feed,       \* feed.json; a missing file reads as an empty list
          tmp,        \* feed.tmp
          tmpThere,   \* whether feed.tmp exists
          change,     \* change[h]: what a running handler carries
          stale,      \* history: a list was saved that was loaded before
                      \* another change
          mixed       \* history: two saves were under way at once

vars == <<feed, tmp, tmpThere, change, stale, mixed>>

Entries == Domains \X Clients
List == SUBSET Entries

(* `loaded' is the list as read, `adds' and `drops' the change to it; `on'  *)
(* is the file the handle of the save is on.                                *)
Change == [at     : {"idle", "loaded", "opened", "written"},
           loaded : List, adds : List, drops : List,
           on     : {"none", "tmp", "feed", "gone"}]

NoChange == [at |-> "idle", loaded |-> {}, adds |-> {}, drops |-> {},
             on |-> "none"]

Changed(list, q) == (list \ q.drops) \cup q.adds

Busy(h)   == change[h].at # "idle"
Saving(h) == change[h].at \in {"opened", "written"}

Init == /\ feed = Whole({})
        /\ tmp = Whole({})
        /\ tmpThere = FALSE
        /\ change = [h \in Handlers |-> NoChange]
        /\ stale = FALSE
        /\ mixed = FALSE

-----------------------------------------------------------------------------
(* The handlers up to _save_feed.  A file that does not parse answers 500,  *)
(* a duplicate 400 and a domain or client that is not there 404: nothing is *)
(* saved then.                                                              *)
Load(h, adds, drops) ==
    /\ ~Busy(h)
    /\ Parses(feed)
    /\ change' = [change EXCEPT ![h] = [NoChange EXCEPT
                     !.at = "loaded", !.loaded = feed.data,
                     !.adds = adds, !.drops = drops]]
    /\ UNCHANGED <<feed, tmp, tmpThere, stale, mixed>>

AddDomain(h, e) == /\ e \notin feed.data
                   /\ Load(h, {e}, {})

RemoveDomain(h, gone) == /\ gone \cap feed.data # {}
                         /\ Load(h, {}, gone)

PromoteDomain(h, d, c) == /\ \E e \in feed.data : e[2] = c
                          /\ <<d, c>> \notin feed.data
                          /\ Load(h, {<<d, c>>}, {})

OnboardReplacing(h, c, ds) ==      \* mutant of OnboardClient
    Load(h, ds \X {c}, Domains \X {c})

OnboardClient(h, c, ds) == Load(h, ds \X {c}, {})

-----------------------------------------------------------------------------
(* _save_feed. *)

SaveInPlace(h) ==      \* mutant of OpenTmp
    /\ change[h].at = "loaded"
    /\ tmpThere' = TRUE
    /\ feed' = Emptied(feed)
    /\ change' = [change EXCEPT ![h].at = "opened", ![h].on = "feed"]
    /\ mixed' = (mixed \/ \E g \in Handlers \ {h} : Saving(g))
    /\ UNCHANGED <<tmp, stale>>

OpenTmp(h) ==
    /\ change[h].at = "loaded"
    /\ tmpThere' = TRUE
    /\ tmp' = Emptied(tmp)
    /\ change' = [change EXCEPT ![h].at = "opened", ![h].on = "tmp"]
    /\ mixed' = (mixed \/ \E g \in Handlers \ {h} : Saving(g))
    /\ UNCHANGED <<feed, stale>>

WriteOut(h) ==
    /\ change[h].at = "opened"
    /\ LET saved == Changed(change[h].loaded, change[h])
       IN \/ change[h].on = "tmp"  /\ tmp' \in Filled(tmp, saved) /\ UNCHANGED feed
          \/ change[h].on = "feed" /\ feed' \in Filled(feed, saved) /\ UNCHANGED tmp
          \/ change[h].on = "gone" /\ UNCHANGED <<feed, tmp>>
    /\ change' = [change EXCEPT ![h].at = "written", ![h].on = "none"]
    /\ UNCHANGED <<tmpThere, stale, mixed>>

(* The handles that were on feed.tmp are on feed.json after a rename, those *)
(* on feed.json on no file that has a name.                                 *)
Moved(on) == IF on = "tmp" THEN "feed" ELSE IF on = "feed" THEN "gone" ELSE on

RenameBeforeClose(h) ==      \* mutant of Rename
    /\ change[h].at = "opened"
    /\ tmpThere
    /\ feed' = tmp
    /\ tmpThere' = FALSE
    /\ change' = [g \in Handlers |-> IF g = h THEN NoChange
                                     ELSE [change[g] EXCEPT !.on = Moved(@)]]
    /\ stale' = (stale \/ change[h].loaded # feed.data)
    /\ UNCHANGED <<tmp, mixed>>

Rename(h) ==
    /\ change[h].at = "written"
    /\ tmpThere
    /\ feed' = tmp
    /\ tmpThere' = FALSE
    /\ change' = [g \in Handlers |-> IF g = h THEN NoChange
                                     ELSE [change[g] EXCEPT !.on = Moved(@)]]
    /\ stale' = (stale \/ change[h].loaded # feed.data)
    /\ UNCHANGED <<tmp, mixed>>

(* A handler ends with an error: the rename finds no feed.tmp, or a step of *)
(* the save raised OSError (a full disk).                                   *)
Fail(h) ==
    /\ Busy(h)
    /\ change' = [change EXCEPT ![h] = NoChange]
    /\ UNCHANGED <<feed, tmp, tmpThere, stale, mixed>>

(* The service is killed and started again: its handlers are gone, its      *)
(* files are as they were.                                                  *)
Crash == /\ \E h \in Handlers : Busy(h)
         /\ change' = [h \in Handlers |-> NoChange]
         /\ UNCHANGED <<feed, tmp, tmpThere, stale, mixed>>

-----------------------------------------------------------------------------
Request(h) == \/ \E e \in Entries : AddDomain(h, e)
              \/ \E d \in Domains, c \in Clients : \/ RemoveDomain(h, {<<d, c>>})
                                                   \/ PromoteDomain(h, d, c)
              \/ \E d \in Domains : RemoveDomain(h, {d} \X Clients)
              \/ \E c \in Clients, ds \in SUBSET Domains : OnboardClient(h, c, ds)

Save(h) == OpenTmp(h) \/ WriteOut(h) \/ Rename(h) \/ Fail(h)

Next == \/ \E h \in Handlers : Request(h) \/ Save(h)
        \/ Crash

Spec == Init /\ [][Next]_vars

-----------------------------------------------------------------------------
(* The type of the state. *)
TypeOK == /\ feed \in File(List)
          /\ tmp \in File(List)
          /\ tmpThere \in BOOLEAN
          /\ change \in [Handlers -> Change]
          /\ stale \in BOOLEAN
          /\ mixed \in BOOLEAN

(* As long as no two saves were under way at once, feed.json can be parsed  *)
(* at every moment, whatever step of a save fails or is cut short by the    *)
(* death of the service (_save_feed: temporary file, then rename).          *)
FeedParses == ~mixed => Parses(feed)

(* A change that overlaps others may undo them, but never by halves: as     *)
(* long as no two saves were under way at once, feed.json goes from one     *)
(* list straight to another that some handler loaded and changed.           *)
FeedReplacedWhole ==
    [][feed' # feed /\ ~mixed =>
         \E h \in Handlers :
            /\ change[h].at = "written"
            /\ feed' = Whole(Changed(change[h].loaded, change[h]))]_vars

(* As long as changes did not overlap, every change that is acknowledged    *)
(* takes effect at once, on the list that those before it left, and one     *)
(* that fails or is cut short has none (FeedList).                          *)
Promise == INSTANCE FeedList WITH list <- feed.data, lost <- (stale \/ mixed)
ImplementsList == Promise!Spec

-----------------------------------------------------------------------------
(* "Atomic write: write to tmp and rename to prevent corruption" (docstring *)
(* of _save_feed, in Italian): when no save is under way, feed.json can be  *)
(* parsed.                                                                  *)
NoCorruption == (\A h \in Handlers : ~Saving(h)) => Parses(feed)
=============================================================================
