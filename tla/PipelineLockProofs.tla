------------------------- MODULE PipelineLockProofs -------------------------
(***************************************************************************)
(* Proofs about PipelineLock, for any number of runs, any feeds and any    *)
(* limits.                                                                 *)
(***************************************************************************)
EXTENDS PipelineLock, FiniteSetTheorems, TLAPS

-----------------------------------------------------------------------------
(* Type correctness, one part of the state at a time.  The domain a run is  *)
(* in the middle of is still to be counted, so its count never drops below  *)
(* zero.                                                                    *)

RunsTyped == /\ run \in [Runs -> Run]
             /\ \A r \in Runs : run[r].at = "checking" => run[r].left > 0

AgesTyped == /\ startAge \in 0..(MaxTicks + 1)
             /\ beatAge \in 0..(StaleTicks + 1)
             /\ silence \in 0..(StaleTicks + 1)

ShownTyped == progress \in Progress

TInv == /\ RunsTyped /\ AgesTyped /\ ShownTyped
        /\ forced \subseteq Runs

(* A feed has finitely many domains, so its size is a number. *)
LEMMA FeedSizes ==
  ASSUME NEW feed \in Seq(Nat)
  PROVE  /\ IsFiniteSet(DomainsOf(feed))
         /\ Cardinality(DomainsOf(feed)) \in Nat
<1> DEFINE parts == {{i} \X (1..feed[i]) : i \in 1..Len(feed)}
<1>1. \A i \in 1..Len(feed) : IsFiniteSet({i} \X (1..feed[i]))
  <2> SUFFICES ASSUME NEW i \in 1..Len(feed)
               PROVE  IsFiniteSet({i} \X (1..feed[i]))
    OBVIOUS
  <2>1. feed[i] \in Nat
    OBVIOUS
  <2>2. IsFiniteSet({i})
    BY FS_Singleton, Zenon
  <2>3. feed[i] \in Int /\ 1 \in Int
    BY <2>1
  <2>4. IsFiniteSet(1..feed[i])
    BY <2>3, FS_Interval, Zenon
  <2>5. QED
    BY <2>2, <2>4, FS_Product, Zenon
<1>2. IsFiniteSet(1..Len(feed))
  BY FS_Interval
<1>3. IsFiniteSet(parts)
  <2> DEFINE part == [i \in 1..Len(feed) |-> {i} \X (1..feed[i])]
  <2>1. part \in Surjection(1..Len(feed), parts)
    BY DEF Surjection
  <2>2. QED
    <3> HIDE DEF parts, part
    <3> QED
      BY <1>2, <2>1, FS_Surjection
<1>4. IsFiniteSet(UNION parts)
  BY <1>1, <1>3, FS_UNION
<1>5. QED
  BY <1>4, FS_CardinalityType DEF DomainsOf

LEMMA Limits == StaleTicks \in Nat /\ MaxTicks \in Nat /\ Legits \in Nat
  BY PipelineAssumption DEF PipelineAssumption

LEMMA InitTInv == Init => TInv
<1> SUFFICES ASSUME Init
             PROVE  TInv
  OBVIOUS
<1>1. RunsTyped
  BY DEF Init, RunsTyped, Run, Absent, Places
<1>2. AgesTyped
  BY Limits DEF Init, AgesTyped
<1>3. ShownTyped
  BY DEF Init, ShownTyped, Progress, NoProgress, Phases
<1>4. QED
  BY <1>1, <1>2, <1>3 DEF TInv, Init

(* What every step of a run does to the clocks. *)
LEMMA RunSetsClocks ==
  ASSUME NEW r \in Runs, RunPipeline(r)
  PROVE  /\ silence' = 0 /\ beatAge' \in {0, beatAge}
         /\ startAge' = startAge /\ forced' = forced
  BY Zenon DEF RunPipeline, Scan, Begin, Reset, ReadFeed, NextClient,
               SkipWhitelisted, Check, Checked, EndClient, BeginTwist,
               TwistLegit, EndTwist, Complete, Fail, Close, Report, Advance

LEMMA RunKeepsAges ==
  ASSUME AgesTyped, NEW r \in Runs, RunPipeline(r)
  PROVE  AgesTyped'
  BY RunSetsClocks, Limits DEF AgesTyped

(* A domain that is left is one that can be counted off. *)
LEMMA CountOff ==
  ASSUME RunsTyped, NEW r \in Runs, run[r].left > 0
  PROVE  run[r].left - 1 \in Nat
  BY DEF RunsTyped, Run

LEMMA RunKeepsRuns ==
  ASSUME RunsTyped, NEW r \in Runs, RunPipeline(r)
  PROVE  RunsTyped'
<1>1. CASE Begin(r)
  BY <1>1 DEF Begin, Go, RunsTyped, Run, Places
<1>2. CASE Reset(r)
  BY <1>2 DEF Reset, Go, RunsTyped, Run, Places
<1>3. CASE ReadFeed(r)
  <2>1. PICK feed \in Feeds :
          run' = [run EXCEPT ![r].at = "clients", ![r].todo = feed]
    BY <1>3 DEF ReadFeed
  <2>2. feed \in Seq(Nat)
    BY PipelineAssumption DEF PipelineAssumption
  <2>3. QED
    BY <2>1, <2>2 DEF RunsTyped, Run, Places
<1>4. CASE NextClient(r)
  <2>1. run[r].todo \in Seq(Nat) /\ run[r].todo # <<>>
    BY <1>4 DEF NextClient, RunsTyped, Run
  <2>2. Tail(run[r].todo) \in Seq(Nat) /\ Head(run[r].todo) \in Nat
    BY <2>1
  <2>3. QED
    BY <1>4, <2>2 DEF NextClient, RunsTyped, Run, Places
<1>5. CASE SkipWhitelisted(r) \/ TwistLegit(r)
  <2>1. run[r].left - 1 \in Nat /\ run[r].at # "checking"
    BY <1>5, CountOff DEF SkipWhitelisted, TwistLegit
  <2>2. run' \in [Runs -> Run]
    BY <1>5, <2>1 DEF SkipWhitelisted, TwistLegit, RunsTyped, Run
  <2>3. QED
    BY <1>5, <2>1, <2>2 DEF SkipWhitelisted, TwistLegit, RunsTyped, Run
<1>6. CASE Check(r)
  BY <1>6 DEF Check, Go, RunsTyped, Run, Places
<1>7. CASE Checked(r)
  <2>1. run[r].left - 1 \in Nat
    BY <1>7, CountOff DEF Checked, RunsTyped
  <2>2. run' \in [Runs -> Run]
    BY <1>7, <2>1 DEF Checked, RunsTyped, Run, Places
  <2>3. QED
    BY <1>7, <2>1, <2>2 DEF Checked, RunsTyped, Run
<1>8. CASE EndClient(r) \/ EndTwist(r) \/ Complete(r)
  <2>1. PICK to \in {"clients", "closing"} : run' = [run EXCEPT ![r].at = to]
    BY <1>8 DEF EndClient, EndTwist, Complete, Go
  <2>2. QED
    BY <2>1 DEF RunsTyped, Run, Places
<1>9. CASE BeginTwist(r)
  <2>1. PICK legits \in 0..Legits :
          run' = [run EXCEPT ![r].at = "twist", ![r].left = legits]
    BY <1>9 DEF BeginTwist
  <2>2. legits \in Nat
    BY Limits
  <2>3. QED
    BY <2>1, <2>2 DEF RunsTyped, Run, Places
<1>10. CASE Fail(r)
  BY <1>10 DEF Fail, RunsTyped, Run, Places
<1>11. CASE Close(r)
  BY <1>11 DEF Close, RunsTyped, Run, Absent, Places
<1>12. QED
  BY <1>1, <1>2, <1>3, <1>4, <1>5, <1>6, <1>7, <1>8, <1>9, <1>10, <1>11
     DEF RunPipeline, Scan

LEMMA RunKeepsShown ==
  ASSUME ShownTyped, NEW r \in Runs, RunPipeline(r)
  PROVE  ShownTyped'
<1>1. CASE Reset(r)
  BY <1>1 DEF Reset, Report, ShownTyped, Progress, Phases
<1>2. CASE ReadFeed(r)
  <2>1. PICK feed \in Feeds :
          progress' = [progress EXCEPT !.total = Cardinality(DomainsOf(feed)),
                                       !.phase = "scanning"]
    BY <1>2 DEF ReadFeed, Report
  <2>2. Cardinality(DomainsOf(feed)) \in Nat
    BY FeedSizes, PipelineAssumption DEF PipelineAssumption
  <2>3. QED
    BY <2>1, <2>2 DEF ShownTyped, Progress, Phases
<1>3. CASE SkipWhitelisted(r) \/ Checked(r)
  BY <1>3 DEF SkipWhitelisted, Checked, ShownTyped, Progress
<1>4. CASE BeginTwist(r) \/ Complete(r) \/ Fail(r)
  BY <1>4 DEF BeginTwist, Complete, Fail, Report, ShownTyped, Progress, Phases
<1>5. CASE \/ Begin(r) \/ NextClient(r) \/ Check(r) \/ EndClient(r)
           \/ TwistLegit(r) \/ EndTwist(r) \/ Close(r)
  BY <1>5 DEF Begin, NextClient, Check, EndClient, TwistLegit, EndTwist, Close,
              Report, ShownTyped
<1>6. QED
  BY <1>1, <1>2, <1>3, <1>4, <1>5 DEF RunPipeline, Scan

LEMMA NextTInv == TInv /\ [Next]_vars => TInv'
<1> SUFFICES ASSUME TInv, [Next]_vars
             PROVE  TInv'
  OBVIOUS
<1>1. CASE Tick
  <2>1. AgesTyped'
    BY <1>1, Limits DEF TInv, AgesTyped, Tick, Age
  <2>2. QED
    BY <1>1, <2>1 DEF Tick, TInv, RunsTyped, ShownTyped
<1>2. CASE TriggerReset
  <2>1. ShownTyped'
    BY <1>2 DEF TInv, ShownTyped, TriggerReset, Progress, Phases
  <2>2. forced' \subseteq Runs
    BY <1>2 DEF TInv, TriggerReset, Live
  <2>3. QED
    BY <1>2, <2>1, <2>2 DEF TriggerReset, TInv, RunsTyped, AgesTyped
<1>3. CASE Restart
  <2>1. RunsTyped'
    BY <1>3 DEF Restart, RunsTyped, Run, Absent, Places
  <2>2. AgesTyped'
    BY <1>3, Limits DEF Restart, AgesTyped
  <2>3. ShownTyped'
    BY <1>3 DEF Restart, ShownTyped, Progress, NoProgress, Phases
  <2>4. QED
    BY <1>3, <2>1, <2>2, <2>3 DEF TInv, Restart
<1>4. ASSUME NEW r \in Runs, NEW twist \in BOOLEAN, Trigger(r, twist)
      PROVE  TInv'
  <2>1. RunsTyped'
    BY <1>4 DEF TInv, RunsTyped, Trigger, Run, Places, Absent
  <2>2. AgesTyped'
    BY <1>4, Limits DEF TInv, AgesTyped, Trigger
  <2>3. forced' \subseteq Runs
    BY <1>4 DEF TInv, Trigger, Live
  <2>4. QED
    BY <1>4, <2>1, <2>2, <2>3 DEF TInv, ShownTyped, Trigger
<1>5. ASSUME NEW r \in Runs, RunPipeline(r)
      PROVE  TInv'
  BY <1>5, RunKeepsRuns, RunKeepsAges, RunKeepsShown, RunSetsClocks DEF TInv
<1>6. CASE UNCHANGED vars
  BY <1>6 DEF vars, TInv, RunsTyped, AgesTyped, ShownTyped
<1>7. QED
  BY <1>1, <1>2, <1>3, <1>4, <1>5, <1>6 DEF Next

(* A Boolean-valued variable is a matter of first-order reasoning alone. *)
FlagTyped == running \in BOOLEAN

LEMMA NextFlagTyped == FlagTyped /\ [Next]_vars => FlagTyped'
<1> SUFFICES ASSUME FlagTyped, [Next]_vars
             PROVE  running' \in BOOLEAN
  BY Zenon DEF FlagTyped
<1>1. CASE Tick \/ TriggerReset \/ Restart \/ UNCHANGED vars
  BY <1>1, Zenon DEF Tick, TriggerReset, Restart, vars, FlagTyped
<1>2. ASSUME NEW r \in Runs, NEW twist \in BOOLEAN, Trigger(r, twist)
      PROVE  running' \in BOOLEAN
  BY <1>2, Zenon DEF Trigger
<1>3. ASSUME NEW r \in Runs, RunPipeline(r)
      PROVE  running' \in BOOLEAN
  BY <1>3, Zenon DEF RunPipeline, Scan, Begin, Reset, ReadFeed, NextClient,
       SkipWhitelisted, Check, Checked, EndClient, BeginTwist, TwistLegit,
       EndTwist, Complete, Fail, Close, FlagTyped
<1>4. QED
  BY <1>1, <1>2, <1>3, Zenon DEF Next

(* The flag, the ages, the progress shown and the runs are well typed. *)
THEOREM TypeCorrect == Spec => []TypeOK
<1>1. Init => FlagTyped
  BY DEF Init, FlagTyped
<1>2. TInv /\ FlagTyped => TypeOK
  BY Zenon DEF TInv, RunsTyped, AgesTyped, ShownTyped, FlagTyped, TypeOK
<1>3. QED
  BY InitTInv, NextTInv, NextFlagTyped, <1>1, <1>2, PTL DEF Spec

-----------------------------------------------------------------------------
(* Mutual exclusion and cleanup.  Where a run is matters only as far as it  *)
(* is absent, at work (between _progress_reset and its final report) or     *)
(* neither.                                                                 *)

AtWork == {"feed", "clients", "domains", "checking", "twist"}

Working == {r \in Runs : run[r].at \in AtWork}

Final == {"idle", "done", "error"}

(* Exclusion by itself is not inductive: a second trigger is only refused   *)
(* because the live run still holds the flag.                               *)
Held == forced = {} => /\ \A r, s \in Live : r = s
                       /\ Live # {} => running

(* What is shown as going on, some run will clean up. *)
CleanedUp == /\ running => Live # {}
             /\ progress.running => Working # {}
             /\ progress.phase \notin Final => Working # {}

IInv == TInv /\ Held /\ CleanedUp

LEMMA InitIInv == Init => IInv
  BY InitTInv DEF Init, IInv, Held, CleanedUp, Live, Working, AtWork, Final,
                  Absent, NoProgress

(* A step of run r that leads it to one of these places. *)
Moves(r, places) == /\ run'[r].at \in places
                    /\ \A s \in Runs \ {r} : run'[s] = run[s]

LEMMA ScanMoves ==
  ASSUME TInv, NEW r \in Runs, Scan(r)
  PROVE  /\ run[r].at \in AtWork
         /\ Moves(r, AtWork)
         /\ running' = running
<1> USE DEF TInv, RunsTyped, Run, Moves, AtWork
<1>1. CASE ReadFeed(r)
  BY <1>1 DEF ReadFeed
<1>2. CASE NextClient(r)
  BY <1>2 DEF NextClient
<1>3. CASE SkipWhitelisted(r) \/ Checked(r) \/ TwistLegit(r)
  BY <1>3 DEF SkipWhitelisted, Checked, TwistLegit
<1>4. CASE Check(r) \/ EndClient(r) \/ EndTwist(r)
  BY <1>4 DEF Check, EndClient, EndTwist, Go
<1>5. CASE BeginTwist(r)
  BY <1>5 DEF BeginTwist
<1>6. QED
  BY <1>1, <1>2, <1>3, <1>4, <1>5 DEF Scan

(* A run that stays live changes nothing of who is live. *)
LEMMA MovesKeepLive ==
  ASSUME NEW r \in Live, NEW places, Moves(r, places), "absent" \notin places
  PROVE  Live' = Live
  BY DEF Moves, Live

LEMMA ScanKeepsIInv ==
  ASSUME IInv, NEW r \in Runs, Scan(r)
  PROVE  Held' /\ CleanedUp'
<1>1. /\ run[r].at \in AtWork /\ Moves(r, AtWork)
      /\ running' = running /\ forced' = forced
  BY ScanMoves, RunSetsClocks DEF IInv, RunPipeline
<1>2. r \in Live /\ r \in Working'
  BY <1>1 DEF Live, Working, AtWork, Moves
<1>3. Live' = Live
  BY <1>1, <1>2, MovesKeepLive DEF AtWork
<1>4. QED
  BY <1>1, <1>2, <1>3 DEF IInv, Held, CleanedUp

LEMMA RunKeepsIInv ==
  ASSUME IInv, NEW r \in Runs, RunPipeline(r)
  PROVE  Held' /\ CleanedUp'
<1>1. CASE Begin(r)
  <2>1. Moves(r, {"starting"}) /\ r \in Live /\ r \notin Working
    BY <1>1 DEF Begin, Go, IInv, TInv, RunsTyped, Run, Moves, Live, Working, AtWork
  <2>2. Live' = Live
    BY <2>1, MovesKeepLive
  <2>3. Working' = Working
    BY <2>1 DEF Moves, Working, AtWork
  <2>4. QED
    BY <1>1, <2>1, <2>2, <2>3 DEF Begin, Advance, IInv, Held, CleanedUp
<1>2. CASE Reset(r)
  <2>1. Moves(r, {"feed"}) /\ r \in Live /\ r \in Working'
    BY <1>2 DEF Reset, Go, IInv, TInv, RunsTyped, Run, Moves, Live, Working, AtWork
  <2>2. Live' = Live
    BY <2>1, MovesKeepLive
  <2>3. QED
    BY <1>2, <2>1, <2>2 DEF Reset, Advance, IInv, Held, CleanedUp
<1>3. CASE Scan(r)
  BY <1>3, ScanKeepsIInv
<1>4. CASE Complete(r) \/ Fail(r)
  <2>1. Moves(r, {"closing"}) /\ r \in Live
    BY <1>4 DEF Complete, Fail, Go, IInv, TInv, RunsTyped, Run, Moves, Live
  <2>2. Live' = Live
    BY <2>1, MovesKeepLive
  <2>3. ~progress'.running /\ progress'.phase \in Final
    BY <1>4 DEF Complete, Fail, Report, IInv, TInv, ShownTyped, Progress, Final
  <2>4. QED
    BY <1>4, <2>2, <2>3 DEF Complete, Fail, Advance, IInv, Held, CleanedUp
<1>5. CASE Close(r)
  <2>1. /\ Moves(r, {"absent"}) /\ r \in Live /\ r \notin Working
        /\ ~running' /\ progress' = progress /\ forced' = forced
    BY <1>5 DEF Close, Absent, Advance, IInv, TInv, RunsTyped, Run, Moves, Live,
                Working, AtWork
  <2>2. Working' = Working /\ Live' = Live \ {r}
    BY <2>1 DEF Moves, Working, AtWork, Live
  <2>3. QED
    BY <2>1, <2>2 DEF IInv, Held, CleanedUp
<1>6. QED
  BY <1>1, <1>2, <1>3, <1>4, <1>5 DEF RunPipeline

LEMMA NextIInv == IInv /\ [Next]_vars => IInv'
<1> SUFFICES ASSUME IInv, [Next]_vars
             PROVE  Held' /\ CleanedUp'
  BY NextTInv DEF IInv
<1>1. CASE Tick \/ UNCHANGED vars
  BY <1>1 DEF Tick, vars, IInv, Held, CleanedUp, Live, Working
<1>2. CASE TriggerReset
  <2>1. Live' = Live /\ Working' = Working
    BY <1>2 DEF TriggerReset, Live, Working
  <2>2. ~progress'.running /\ progress'.phase \in Final /\ ~running'
    BY <1>2 DEF TriggerReset, IInv, TInv, ShownTyped, Progress, Final
  <2>3. Held'
    BY <1>2, <2>1, <2>2 DEF TriggerReset, IInv, Held
  <2>4. QED
    BY <2>2, <2>3 DEF CleanedUp
<1>3. CASE Restart
  BY <1>3 DEF Restart, Held, CleanedUp, Live, Absent, NoProgress, Final
<1>4. ASSUME NEW r \in Runs, NEW twist \in BOOLEAN, Trigger(r, twist)
      PROVE  Held' /\ CleanedUp'
  <2>1. Live' = Live \cup {r} /\ r \notin Working /\ Working' = Working
    BY <1>4 DEF Trigger, IInv, TInv, RunsTyped, Run, Absent, Live, Working, AtWork
  <2>2. running' /\ progress' = progress
    BY <1>4 DEF Trigger
  <2>3. forced' = {} => forced = {} /\ Live = {}
    BY <1>4 DEF Trigger, IInv, Held
  <2>4. QED
    BY <2>1, <2>2, <2>3 DEF IInv, Held, CleanedUp
<1>5. ASSUME NEW r \in Runs, RunPipeline(r)
      PROVE  Held' /\ CleanedUp'
  BY <1>5, RunKeepsIInv
<1>6. QED
  BY <1>1, <1>2, <1>3, <1>4, <1>5 DEF Next

(* As long as no live run is declared dead or reset, no two pipelines run   *)
(* at once, however many triggers come and however long a run takes.        *)
THEOREM PipelinesExclude == Spec => []ExclusiveUnlessForced
<1>1. IInv => ExclusiveUnlessForced
  BY DEF IInv, Held, ExclusiveUnlessForced
<1>2. QED
  BY InitIInv, NextIInv, <1>1, PTL DEF Spec

(* When the last run is gone the flag is clear and the progress shown is    *)
(* final, whatever takeovers and resets there were.                         *)
THEOREM RunsCleanUp == Spec => []IdleWhenNoRun
<1>1. Working \subseteq Live
  BY DEF Working, Live, AtWork
<1>2. IInv => IdleWhenNoRun
  BY <1>1 DEF IInv, CleanedUp, IdleWhenNoRun, Final
<1>3. QED
  BY InitIInv, NextIInv, <1>2, PTL DEF Spec

-----------------------------------------------------------------------------
(* Recovery.  Every report is progress, so the heartbeat is at least as old *)
(* as the last progress, and stale once the runs have been silent for long. *)

BeatIsOlder == beatAge >= silence

LEMMA NextBeatIsOlder == TInv /\ BeatIsOlder /\ [Next]_vars => BeatIsOlder'
<1> SUFFICES ASSUME TInv, BeatIsOlder, [Next]_vars
             PROVE  BeatIsOlder'
  OBVIOUS
<1>1. beatAge \in Nat /\ silence \in 0..(StaleTicks + 1)
  BY Limits DEF TInv, AgesTyped
<1>2. CASE Tick
  BY <1>1, <1>2, Limits DEF Tick, Age, BeatIsOlder
<1>3. CASE TriggerReset \/ Restart \/ UNCHANGED vars
  BY <1>3, Limits DEF TriggerReset, Restart, vars, BeatIsOlder
<1>4. ASSUME NEW r \in Runs, NEW twist \in BOOLEAN, Trigger(r, twist)
      PROVE  BeatIsOlder'
  BY <1>4 DEF Trigger, BeatIsOlder
<1>5. ASSUME NEW r \in Runs, RunPipeline(r)
      PROVE  BeatIsOlder'
  BY <1>1, <1>5, RunSetsClocks DEF BeatIsOlder
<1>6. QED
  BY <1>2, <1>3, <1>4, <1>5 DEF Next

(* A run that made no progress for HEARTBEAT_STALE_SEC no longer blocks the *)
(* next trigger, whatever it died of and whichever limits are configured.   *)
THEOREM SilenceEndsTheLock == Spec => []SilentRunDoesNotBlock
<1>1. Init => BeatIsOlder
  BY Limits DEF Init, BeatIsOlder
<1>2. TInv /\ BeatIsOlder => SilentRunDoesNotBlock
  BY Limits DEF TInv, AgesTyped, BeatIsOlder, SilentRunDoesNotBlock, Accepts, Expired
<1>3. QED
  BY InitTInv, NextTInv, NextBeatIsOlder, <1>1, <1>2, PTL DEF Spec
-----------------------------------------------------------------------------
(* The counters.  They add up because, as long as no live run is forced     *)
(* out, the total is always what is done and what the one run has left.     *)

LEMMA DomainIsPair ==
  ASSUME NEW feed \in Seq(Nat), NEW p
  PROVE  p \in DomainsOf(feed) <=>
            \E i \in 1..Len(feed) : \E n \in 1..feed[i] : p = <<i, n>>
  BY DEF DomainsOf

LEMMA EmptyFeed == Cardinality(DomainsOf(<<>>)) = 0
<1>1. DomainsOf(<<>>) = {}
  BY DEF DomainsOf
<1>2. QED
  BY <1>1, FS_EmptySet

(* The domains of a feed are those of its first client and, numbered one    *)
(* higher, those of the rest.                                               *)
LEMMA FeedShrinks ==
  ASSUME NEW feed \in Seq(Nat), feed # <<>>
  PROVE  Cardinality(DomainsOf(feed)) = Head(feed) + Cardinality(DomainsOf(Tail(feed)))
<1> DEFINE first == {p \in DomainsOf(feed) : p[1] = 1}
           rest  == {p \in DomainsOf(feed) : p[1] # 1}
           tail  == Tail(feed)
<1>0. /\ tail \in Seq(Nat) /\ Len(feed) \in Nat \ {0}
      /\ Len(tail) = Len(feed) - 1
      /\ \A i \in 1..Len(tail) : tail[i] = feed[i + 1]
      /\ Head(feed) = feed[1] /\ feed[1] \in Nat
  OBVIOUS
<1>1. Cardinality(first) = feed[1] /\ IsFiniteSet(first)
  <2> DEFINE f == [n \in 1..feed[1] |-> <<1, n>>]
  <2>1. f \in [1..feed[1] -> first]
    BY <1>0, DomainIsPair
  <2>2. \A m, n \in 1..feed[1] : f[m] = f[n] => m = n
    OBVIOUS
  <2>3. \A p \in first : \E n \in 1..feed[1] : f[n] = p
    BY <1>0, DomainIsPair
  <2>4. feed[1] \in Nat /\ feed[1] \in Int /\ 1 \in Int
    BY <1>0
  <2>5. IsFiniteSet(1..feed[1]) /\ Cardinality(1..feed[1]) = feed[1]
    <3>1. /\ IsFiniteSet(1..feed[1])
          /\ Cardinality(1..feed[1]) = IF 1 > feed[1] THEN 0 ELSE feed[1] - 1 + 1
      BY <2>4, FS_Interval, Zenon
    <3>2. QED
      BY <2>4, <3>1
  <2> HIDE DEF first, f
  <2>6. f \in Bijection(1..feed[1], first)
    BY <2>1, <2>2, <2>3 DEF Bijection, Injection, Surjection, IsInjective
  <2>7. QED
    BY <2>5, <2>6, FS_Bijection DEF ExistsBijection
<1>2. Cardinality(rest) = Cardinality(DomainsOf(tail)) /\ IsFiniteSet(rest)
  <2> DEFINE f == [p \in DomainsOf(tail) |-> <<p[1] + 1, p[2]>>]
  <2>0. \A p \in DomainsOf(tail) : \E i \in 1..Len(tail) : \E n \in 1..tail[i] : p = <<i, n>>
    <3>1. tail \in Seq(Nat)
      BY <1>0
    <3> HIDE DEF tail
    <3>2. QED
      BY <3>1, DomainIsPair
  <2>1. ASSUME NEW p \in DomainsOf(tail)
        PROVE  <<p[1] + 1, p[2]>> \in rest
    <3>1. PICK i \in 1..Len(tail) : \E n \in 1..tail[i] : p = <<i, n>>
      BY <2>0
    <3>1a. PICK n \in 1..tail[i] : p = <<i, n>>
      BY <3>1
    <3>2. i + 1 \in 1..Len(feed) /\ n \in 1..feed[i + 1] /\ i + 1 # 1
      BY <1>0
    <3>3. <<i + 1, n>> \in DomainsOf(feed)
      BY <3>2, DomainIsPair
    <3>4. QED
      BY <3>1a, <3>2, <3>3
  <2>2. \A p, q \in DomainsOf(tail) : f[p] = f[q] => p = q
    BY <2>0, <1>0
  <2>3. ASSUME NEW q \in rest
        PROVE  \E p \in DomainsOf(tail) : f[p] = q
    <3>1. PICK i \in 1..Len(feed) : \E n \in 1..feed[i] : q = <<i, n>>
      BY DomainIsPair
    <3>1a. PICK n \in 1..feed[i] : q = <<i, n>>
      BY <3>1
    <3>2. i # 1
      BY <3>1a
    <3>3. i - 1 \in 1..Len(tail) /\ n \in 1..tail[i - 1]
      BY <1>0, <3>2
    <3>4. <<i - 1, n>> \in DomainsOf(tail)
      BY <1>0, <3>3, DomainIsPair
    <3>5. f[<<i - 1, n>>] = q
      BY <1>0, <3>1a, <3>4
    <3>6. QED
      BY <3>4, <3>5
  <2>4. f \in [DomainsOf(tail) -> rest]
    BY <2>1
  <2> HIDE DEF rest, f, tail
  <2>5. f \in Bijection(DomainsOf(tail), rest)
    BY <2>2, <2>3, <2>4 DEF Bijection, Injection, Surjection, IsInjective
  <2>6. IsFiniteSet(DomainsOf(tail))
    BY <1>0, FeedSizes
  <2>7. QED
    BY <2>5, <2>6, FS_Bijection DEF ExistsBijection
<1>3. first \cup rest = DomainsOf(feed) /\ first \cap rest = {}
  OBVIOUS
<1>4. Cardinality(DomainsOf(tail)) \in Nat
  BY <1>0, FeedSizes
<1> HIDE DEF first, rest, tail
<1>5. Cardinality(first \cup rest) = Cardinality(first) + Cardinality(rest) - 0
  BY <1>1, <1>2, <1>3, FS_Union, FS_EmptySet
<1>6. Cardinality(DomainsOf(feed)) = feed[1] + Cardinality(DomainsOf(tail))
  <2>1. feed[1] \in Nat
    BY <1>0
  <2>2. Cardinality(DomainsOf(feed)) = Cardinality(first) + Cardinality(rest) - 0
    BY <1>3, <1>5
  <2>3. QED
    BY <1>1, <1>2, <1>4, <2>1, <2>2
<1>7. QED
  BY <1>0, <1>6 DEF tail

(* What run r has left to do of the feed it read, at the places where it    *)
(* has one.                                                                 *)
Left(r) == (IF run[r].at \in {"domains", "checking"} THEN run[r].left ELSE 0)
           + Cardinality(DomainsOf(run[r].todo))

(* One run's part of the sum: it starts from nothing and keeps the total.   *)
Balanced(r) ==
    /\ run[r].at = "feed" => progress.done = 0 /\ progress.total = 0
    /\ run[r].at \in {"clients", "domains", "checking", "twist"} =>
          progress.total = progress.done + Left(r)
    /\ run[r].at \in AtWork => progress.phase # "done"

Sums == forced = {} => /\ progress.done <= progress.total
                       /\ progress.phase = "done" => progress.done = progress.total
                       /\ \A r \in Runs : Balanced(r)

CInv == IInv /\ Sums

LEMMA LeftIsNat ==
  ASSUME TInv, NEW r \in Runs
  PROVE  Left(r) \in Nat /\ Cardinality(DomainsOf(run[r].todo)) \in Nat
<1>1. run[r].todo \in Seq(Nat) /\ run[r].left \in Nat
  BY DEF TInv, RunsTyped, Run
<1>2. Cardinality(DomainsOf(run[r].todo)) \in Nat
  BY <1>1, FeedSizes
<1>3. QED
  BY <1>1, <1>2 DEF Left

(* A step of the one live run keeps the sum.                                *)
LEMMA ScanBalances ==
  ASSUME TInv, NEW r \in Runs, Scan(r), progress.phase # "done",
         progress.done <= progress.total, Balanced(r)
  PROVE  progress'.done <= progress'.total /\ Balanced(r)'
<1> USE DEF AtWork
<1>0. /\ run[r] \in Run /\ run \in [Runs -> Run] /\ progress \in Progress
      /\ progress.done \in Nat /\ progress.total \in Nat
      /\ run[r].left \in Nat /\ run[r].todo \in Seq(Nat)
  BY DEF TInv, RunsTyped, ShownTyped, Run, Progress
<1>1. CASE ReadFeed(r)
  <2>1. PICK feed \in Feeds :
          /\ run' = [run EXCEPT ![r].at = "clients", ![r].todo = feed]
          /\ progress' = [progress EXCEPT !.total = Cardinality(DomainsOf(feed)),
                                          !.phase = "scanning"]
    BY <1>1 DEF ReadFeed, Report
  <2>2. Cardinality(DomainsOf(feed)) \in Nat
    BY FeedSizes, PipelineAssumption DEF PipelineAssumption
  <2>3. run'[r].at = "clients" /\ run'[r].todo = feed
    BY <1>0, <2>1 DEF Run
  <2>4. /\ progress'.total = Cardinality(DomainsOf(feed))
        /\ progress'.phase = "scanning" /\ progress'.done = 0
    BY <1>0, <1>1, <2>1 DEF ReadFeed, Balanced, Progress
  <2>5. QED
    BY <2>2, <2>3, <2>4 DEF Balanced, Left
<1>2. CASE NextClient(r)
  <2>1. /\ run[r].at = "clients" /\ run[r].todo # <<>>
        /\ run'[r].at = "domains" /\ run'[r].todo = Tail(run[r].todo)
        /\ run'[r].left = Head(run[r].todo) /\ progress' = progress
    BY <1>0, <1>2 DEF NextClient, Report, Run
  <2>2. Cardinality(DomainsOf(run[r].todo)) =
          Head(run[r].todo) + Cardinality(DomainsOf(Tail(run[r].todo)))
    BY <1>0, <2>1, FeedShrinks
  <2>3. Left(r)' = Left(r)
    <3>1. Cardinality(DomainsOf(run[r].todo)) \in Nat
      BY <1>0, FeedSizes
    <3>2. QED
      BY <2>1, <2>2, <3>1 DEF Left
  <2>4. QED
    BY <2>1, <2>3 DEF Balanced
<1>3. CASE SkipWhitelisted(r) \/ Checked(r)
  <2>1. /\ run[r].at \in {"domains", "checking"} /\ run[r].left > 0
        /\ run'[r].at = "domains" /\ run'[r].left = run[r].left - 1
        /\ run'[r].todo = run[r].todo
    BY <1>0, <1>3 DEF SkipWhitelisted, Checked, Run, TInv, RunsTyped
  <2>2. /\ progress'.done = progress.done + 1 /\ progress'.total = progress.total
        /\ progress'.phase = progress.phase
    BY <1>0, <1>3 DEF SkipWhitelisted, Checked, Progress
  <2>3. Left(r)' = Left(r) - 1 /\ Left(r) > 0
    BY <1>0, <2>1, LeftIsNat DEF Left
  <2>4. QED
    BY <1>0, <2>1, <2>2, <2>3, LeftIsNat DEF Balanced
<1>4. CASE Check(r)
  <2>1. /\ run[r].at = "domains" /\ run'[r].at = "checking"
        /\ run'[r].left = run[r].left /\ run'[r].todo = run[r].todo
        /\ progress' = progress
    BY <1>0, <1>4 DEF Check, Go, Report, Run
  <2>2. QED
    BY <2>1 DEF Balanced, Left
<1>5. CASE EndClient(r) \/ EndTwist(r)
  <2>1. /\ run[r].at \in {"domains", "twist"} /\ run'[r].at = "clients"
        /\ run[r].left = 0 /\ run'[r].todo = run[r].todo
        /\ progress' = progress
    BY <1>0, <1>5 DEF EndClient, EndTwist, Go, Run
  <2>2. QED
    BY <2>1 DEF Balanced, Left
<1>6. CASE BeginTwist(r)
  <2>1. /\ run[r].at = "domains" /\ run'[r].at = "twist" /\ run[r].left = 0
        /\ run'[r].todo = run[r].todo
    BY <1>0, <1>6 DEF BeginTwist, Run
  <2>2. /\ progress'.done = progress.done /\ progress'.total = progress.total
        /\ progress'.phase = "dnstwist"
    BY <1>0, <1>6 DEF BeginTwist, Report, Progress
  <2>3. QED
    BY <2>1, <2>2 DEF Balanced, Left
<1>7. CASE TwistLegit(r)
  <2>1. /\ run[r].at = "twist" /\ run'[r].at = "twist"
        /\ run'[r].todo = run[r].todo /\ progress' = progress
    BY <1>0, <1>7 DEF TwistLegit, Run
  <2>2. QED
    BY <2>1 DEF Balanced, Left
<1>8. QED
  BY <1>1, <1>2, <1>3, <1>4, <1>5, <1>6, <1>7 DEF Scan

(* A balanced state with nothing left to do is one in which all is done.    *)
LEMMA RunBalances ==
  ASSUME TInv, NEW r \in Runs, RunPipeline(r), Balanced(r),
         progress.done <= progress.total,
         progress.phase = "done" => progress.done = progress.total
  PROVE  /\ progress'.done <= progress'.total
         /\ progress'.phase = "done" => progress'.done = progress'.total
         /\ Balanced(r)'
<1>0. /\ run[r] \in Run /\ run \in [Runs -> Run] /\ progress \in Progress
      /\ progress.done \in Nat /\ progress.total \in Nat
  BY DEF TInv, RunsTyped, ShownTyped, Run, Progress
<1>1. CASE Begin(r)
  <2>1. run'[r].at = "starting" /\ progress' = progress
    BY <1>0, <1>1 DEF Begin, Go
  <2>2. QED
    BY <2>1 DEF Balanced, AtWork
<1>2. CASE Reset(r)
  <2>1. /\ run'[r].at = "feed" /\ progress'.done = 0 /\ progress'.total = 0
        /\ progress'.phase = "starting"
    BY <1>0, <1>2 DEF Reset, Go, Report
  <2>2. QED
    BY <2>1 DEF Balanced
<1>3. CASE Scan(r)
  <2>1. progress.phase # "done"
    BY <1>3, ScanMoves DEF Balanced
  <2>2. progress'.done <= progress'.total /\ Balanced(r)'
    BY <1>3, <2>1, ScanBalances
  <2>3. run'[r].at \in AtWork
    BY <1>3, ScanMoves DEF Moves
  <2>4. QED
    BY <2>2, <2>3 DEF Balanced
<1>4. CASE Complete(r)
  <2>1. /\ run[r].at = "clients" /\ run[r].todo = <<>> /\ run'[r].at = "closing"
        /\ progress'.done = progress.done /\ progress'.total = progress.total
    BY <1>0, <1>4 DEF Complete, Go, Report, Progress
  <2>2. Left(r) = 0
    BY <2>1, EmptyFeed DEF Left
  <2>3. progress.done = progress.total
    BY <1>0, <2>1, <2>2 DEF Balanced
  <2>4. QED
    BY <1>0, <2>1, <2>3 DEF Balanced, AtWork
<1>5. CASE Fail(r)
  <2>1. /\ run'[r].at = "closing" /\ progress'.phase = "error"
        /\ progress'.done = progress.done /\ progress'.total = progress.total
    BY <1>0, <1>5 DEF Fail, Report, Progress
  <2>2. QED
    BY <2>1 DEF Balanced, AtWork
<1>6. CASE Close(r)
  <2>1. run'[r].at = "absent" /\ progress' = progress
    BY <1>0, <1>6 DEF Close, Absent
  <2>2. QED
    BY <2>1 DEF Balanced, AtWork
<1>7. QED
  BY <1>1, <1>2, <1>3, <1>4, <1>5, <1>6 DEF RunPipeline

LEMMA NextSums == CInv /\ [Next]_vars => Sums'
<1> SUFFICES ASSUME CInv, [Next]_vars
             PROVE  Sums'
  OBVIOUS
<1> USE DEF CInv
<1>0. TInv /\ run \in [Runs -> Run] /\ progress \in Progress
  BY DEF IInv, TInv, RunsTyped, ShownTyped
<1>1. CASE Tick \/ UNCHANGED vars
  BY <1>1 DEF Tick, vars, Sums, Balanced, Left
<1>2. CASE TriggerReset
  <2>1. forced' = {} => forced = {} /\ Live = {}
    BY <1>2 DEF TriggerReset, IInv, Held
  <2>2. /\ progress'.done = progress.done /\ progress'.total = progress.total
        /\ progress'.phase = "idle" /\ run' = run
    BY <1>0, <1>2 DEF TriggerReset, Progress
  <2>3. QED
    BY <2>1, <2>2 DEF Sums, Balanced, Live, AtWork
<1>3. CASE Restart
  BY <1>3 DEF Restart, Sums, Balanced, Absent, NoProgress, AtWork
<1>4. ASSUME NEW r \in Runs, NEW twist \in BOOLEAN, Trigger(r, twist)
      PROVE  Sums'
  <2>1. forced' = {} => forced = {} /\ Live = {}
    BY <1>4 DEF Trigger, IInv, Held
  <2>2. /\ progress' = progress /\ run'[r].at = "queued"
        /\ \A s \in Runs \ {r} : run'[s] = run[s]
    BY <1>0, <1>4 DEF Trigger, Run
  <2>3. QED
    BY <2>1, <2>2 DEF Sums, Balanced, Live, AtWork
<1>5. ASSUME NEW r \in Runs, RunPipeline(r)
      PROVE  Sums'
  <2>1. SUFFICES ASSUME forced = {}
                 PROVE  /\ progress'.done <= progress'.total
                        /\ progress'.phase = "done" => progress'.done = progress'.total
                        /\ \A s \in Runs : Balanced(s)'
    BY <1>5, RunSetsClocks DEF Sums
  <2>2. /\ progress'.done <= progress'.total
        /\ progress'.phase = "done" => progress'.done = progress'.total
        /\ Balanced(r)'
    BY <1>0, <1>5, <2>1, RunBalances DEF Sums
  <2>3. ASSUME NEW s \in Runs \ {r}
        PROVE  Balanced(s)'
    <3>1. r \in Live
      BY <1>0, <1>5, Zenon DEF RunPipeline, Scan, Begin, Reset, ReadFeed,
         NextClient, SkipWhitelisted, Check, Checked, EndClient, BeginTwist,
         TwistLegit, EndTwist, Complete, Fail, Close, Go, Live, Places
    <3>2. run[s].at = "absent"
      BY <2>1, <3>1 DEF IInv, Held, Live
    <3>3. run'[s] = run[s]
      BY <1>0, <1>5, Zenon DEF RunPipeline, Scan, Begin, Reset, ReadFeed,
         NextClient, SkipWhitelisted, Check, Checked, EndClient, BeginTwist,
         TwistLegit, EndTwist, Complete, Fail, Close, Go
    <3>4. QED
      BY <3>2, <3>3 DEF Balanced, AtWork
  <2>4. QED
    BY <2>2, <2>3
<1>6. QED
  BY <1>1, <1>2, <1>3, <1>4, <1>5 DEF Next

(* As long as no live run is declared dead or reset, /progress never shows  *)
(* more domains done than there are, and all of them done when a run ends   *)
(* well, whatever the feed.                                                 *)
THEOREM ProgressAddsUp == Spec => []CountsAddUp
<1>1. Init => CInv
  <2>1. Init => Sums
    BY DEF Init, Sums, Balanced, Absent, NoProgress, AtWork
  <2>2. QED
    BY <2>1, InitIInv DEF CInv
<1>2. CInv /\ [Next]_vars => CInv'
  BY NextIInv, NextSums DEF CInv
<1>3. CInv => CountsAddUp
  BY DEF CInv, Sums, CountsAddUp
<1>4. QED
  BY <1>1, <1>2, <1>3, PTL DEF Spec
=============================================================================
