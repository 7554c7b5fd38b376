---------------------------- MODULE PipelineLock ----------------------------
(***************************************************************************)
(* The run lock, the heartbeat and the progress state of                   *)
(* services/orchestrator.py.  POST /trigger takes the flag _running and    *)
(* queues a background run; the run reports its progress, which bumps the  *)
(* heartbeat, and clears the flag when it ends.  A trigger that finds the  *)
(* flag set takes it over if the run is older than PIPELINE_MAX_DURATION   *)
(* or the heartbeat older than HEARTBEAT_STALE_SEC, so that a run that     *)
(* died without cleanup does not block scans for good.                     *)
(*                                                                         *)
(* Clocks are modelled as ages that count the ticks since an event and     *)
(* stop one past the limit the code compares them with.  A run takes any   *)
(* time for any step, and may take no further step at all.                 *)
(***************************************************************************)
EXTENDS Integers, Sequences, FiniteSets

CONSTANTS Runs,          \* the background runs that may exist at once
          Feeds,         \* the feeds: per client, how many domains it has
          Legits,        \* distinct legitimate domains dnstwist expands
          StaleTicks,    \* HEARTBEAT_STALE_SEC
          MaxTicks       \* PIPELINE_MAX_DURATION

ASSUME PipelineAssumption == /\ Feeds \subseteq Seq(Nat)
                             /\ Legits \in Nat
                             /\ StaleTicks \in Nat
                             /\ MaxTicks \in Nat

VARIABLES running,       \* _running
          startAge,      \* ticks since _run_started
          beatAge,       \* ticks since _last_heartbeat
          progress,      \* _progress
          run,           \* run[r]: where a background run is, and its work
          silence,       \* history: ticks since a run made progress
          forced         \* history: runs that lost the lock while alive

vars == <<running, startAge, beatAge, progress, run, silence, forced>>

Phases == {"idle", "starting", "scanning", "dnstwist", "done", "error"}

Progress == [running : BOOLEAN, phase : Phases, done : Nat, total : Nat]

(* Where a run is: not there; added to background_tasks; after _running was *)
(* set again; reading the feed; between clients; in the domain loop; in the *)
(* middle of a domain; in the dnstwist loop; before the finally clause.     *)
Places == {"absent", "queued", "starting", "feed", "clients", "domains",
           "checking", "twist", "closing"}

Run == [at : Places, twist : BOOLEAN, todo : Seq(Nat), left : Nat]

Absent == [at |-> "absent", twist |-> FALSE, todo |-> <<>>, left |-> 0]

NoProgress == [running |-> FALSE, phase |-> "idle", done |-> 0, total |-> 0]

Live == {r \in Runs : run[r].at # "absent"}

(* The domains of a feed, as (client, number) pairs. *)
DomainsOf(feed) == UNION {{i} \X (1..feed[i]) : i \in 1..Len(feed)}

(* The process has just started: no heartbeat was ever recorded (0.0). *)
Init == /\ running = FALSE
        /\ startAge = MaxTicks + 1
        /\ beatAge = StaleTicks + 1
        /\ progress = NoProgress
        /\ run = [r \in Runs |-> Absent]
        /\ silence = StaleTicks + 1
        /\ forced = {}

-----------------------------------------------------------------------------
Age(age, limit) == IF age > limit THEN age ELSE age + 1

Tick == /\ startAge' = Age(startAge, MaxTicks)
        /\ beatAge' = Age(beatAge, StaleTicks)
        /\ silence' = Age(silence, StaleTicks)
        /\ UNCHANGED <<running, progress, run, forced>>

ExpiredNever == FALSE      \* mutant of Expired

ExpiredByDuration == startAge > MaxTicks      \* mutant of Expired

(* The two conditions under which trigger declares a run dead. *)
Expired == startAge > MaxTicks \/ beatAge > StaleTicks

Accepts == ~running \/ Expired

TriggerRegardless(r, twist) ==      \* mutant of Trigger
    /\ run[r] = Absent
    /\ running' = TRUE
    /\ startAge' = 0
    /\ run' = [run EXCEPT ![r].at = "queued", ![r].twist = twist]
    /\ forced' = IF running /\ Expired THEN forced \cup Live ELSE forced
    /\ UNCHANGED <<beatAge, progress, silence>>

(* trigger, accepted: the lock is taken and the run queued.  The heartbeat  *)
(* is the one of the last run.  A refused trigger (409) changes nothing.    *)
Trigger(r, twist) ==
    /\ run[r] = Absent
    /\ Accepts
    /\ running' = TRUE
    /\ startAge' = 0
    /\ run' = [run EXCEPT ![r].at = "queued", ![r].twist = twist]
    /\ forced' = IF running THEN forced \cup Live ELSE forced
    /\ UNCHANGED <<beatAge, progress, silence>>

TriggerReset ==
    /\ running' = FALSE
    /\ progress' = [progress EXCEPT !.running = FALSE, !.phase = "idle"]
    /\ forced' = IF running THEN forced \cup Live ELSE forced
    /\ UNCHANGED <<startAge, beatAge, run, silence>>

(* The process is restarted: everything here is in memory. *)
Restart == /\ running' = FALSE
           /\ startAge' = MaxTicks + 1
           /\ beatAge' = StaleTicks + 1
           /\ progress' = NoProgress
           /\ run' = [r \in Runs |-> Absent]
           /\ silence' = StaleTicks + 1
           /\ forced' = {}

-----------------------------------------------------------------------------
(* The steps of _run_pipeline.  _progress_set and _progress_reset bump the  *)
(* heartbeat; counting a finished domain and logging do not.                *)

Go(r, from, to) == /\ run[r].at = from
                   /\ run' = [run EXCEPT ![r].at = to]

Report(change) == /\ progress' = change
                  /\ beatAge' = 0

(* Every step of a run is progress, whether the run reports it or not. *)
Advance == /\ silence' = 0
           /\ UNCHANGED <<startAge, forced>>

Begin(r) == /\ Go(r, "queued", "starting")
            /\ running' = TRUE
            /\ Advance
            /\ UNCHANGED <<beatAge, progress>>

Reset(r) == /\ Go(r, "starting", "feed")
            /\ Report([running |-> TRUE, phase |-> "starting",
                       done |-> 0, total |-> 0])
            /\ Advance
            /\ UNCHANGED running

ReadFeed(r) ==
    /\ run[r].at = "feed"
    /\ \E feed \in Feeds :
          /\ run' = [run EXCEPT ![r].at = "clients", ![r].todo = feed]
          /\ Report([progress EXCEPT !.total = Cardinality(DomainsOf(feed)),
                                     !.phase = "scanning"])
    /\ Advance
    /\ UNCHANGED running

NextClient(r) ==
    /\ run[r].at = "clients"
    /\ run[r].todo # <<>>
    /\ run' = [run EXCEPT ![r].at = "domains", ![r].todo = Tail(@),
                          ![r].left = Head(run[r].todo)]
    /\ Report(progress)
    /\ Advance
    /\ UNCHANGED running

SkipWhitelistedUncounted(r) ==      \* mutant of SkipWhitelisted
    /\ run[r].at = "domains"
    /\ run[r].left > 0
    /\ run' = [run EXCEPT ![r].left = @ - 1]
    /\ Advance
    /\ UNCHANGED <<running, beatAge, progress>>

SkipWhitelisted(r) ==
    /\ run[r].at = "domains"
    /\ run[r].left > 0
    /\ run' = [run EXCEPT ![r].left = @ - 1]
    /\ progress' = [progress EXCEPT !.done = @ + 1]
    /\ Advance
    /\ UNCHANGED <<running, beatAge>>

CheckPastEnd(r) ==      \* mutant of Check
    /\ Go(r, "domains", "checking")
    /\ Report(progress)
    /\ Advance
    /\ UNCHANGED running

Check(r) == /\ run[r].left > 0
            /\ Go(r, "domains", "checking")
            /\ Report(progress)
            /\ Advance
            /\ UNCHANGED running

Checked(r) == /\ run[r].at = "checking"
              /\ run' = [run EXCEPT ![r].at = "domains", ![r].left = @ - 1]
              /\ progress' = [progress EXCEPT !.done = @ + 1]
              /\ Advance
              /\ UNCHANGED <<running, beatAge>>

EndClient(r) == /\ ~run[r].twist
                /\ run[r].left = 0
                /\ Go(r, "domains", "clients")
                /\ Advance
                /\ UNCHANGED <<running, beatAge, progress>>

(* The dnstwist pass over a client's distinct legitimate domains. *)
BeginTwist(r) ==
    /\ run[r].at = "domains"
    /\ run[r].twist
    /\ run[r].left = 0
    /\ \E legits \in 0..Legits :
          run' = [run EXCEPT ![r].at = "twist", ![r].left = legits]
    /\ Report([progress EXCEPT !.phase = "dnstwist"])
    /\ Advance
    /\ UNCHANGED running

TwistLegit(r) == /\ run[r].at = "twist"
                 /\ run[r].left > 0
                 /\ run' = [run EXCEPT ![r].left = @ - 1]
                 /\ Advance
                 /\ UNCHANGED <<running, beatAge, progress>>

EndTwist(r) == /\ run[r].left = 0
               /\ Go(r, "twist", "clients")
               /\ Advance
               /\ UNCHANGED <<running, beatAge, progress>>

(* The events are published and ingested, and the run is over. *)
Complete(r) == /\ run[r].todo = <<>>
               /\ Go(r, "clients", "closing")
               /\ Report([progress EXCEPT !.phase = "done", !.running = FALSE])
               /\ Advance
               /\ UNCHANGED running

FailWithoutCleanup(r) ==      \* mutant of Fail
    /\ run[r].at \in Places \ {"absent", "queued", "starting", "closing"}
    /\ run' = [run EXCEPT ![r] = Absent]
    /\ Report([progress EXCEPT !.phase = "error", !.running = FALSE])
    /\ Advance
    /\ UNCHANGED running

(* An exception no inner handler caught: the feed, or a malformed entry. *)
Fail(r) == /\ run[r].at \in Places \ {"absent", "queued", "starting", "closing"}
           /\ run' = [run EXCEPT ![r].at = "closing"]
           /\ Report([progress EXCEPT !.phase = "error", !.running = FALSE])
           /\ Advance
           /\ UNCHANGED running

(* The finally clause clears the flag, whoever holds it. *)
Close(r) == /\ run[r].at = "closing"
            /\ run' = [run EXCEPT ![r] = Absent]
            /\ running' = FALSE
            /\ Advance
            /\ UNCHANGED <<beatAge, progress>>

-----------------------------------------------------------------------------
Scan(r) == \/ ReadFeed(r) \/ NextClient(r)
           \/ SkipWhitelisted(r) \/ Check(r) \/ Checked(r) \/ EndClient(r)
           \/ BeginTwist(r) \/ TwistLegit(r) \/ EndTwist(r)

RunPipeline(r) == Begin(r) \/ Reset(r) \/ Scan(r) \/ Complete(r) \/ Fail(r) \/ Close(r)

Next == \/ Tick \/ TriggerReset \/ Restart
        \/ \E r \in Runs : \/ \E twist \in BOOLEAN : Trigger(r, twist)
                           \/ RunPipeline(r)

Spec == Init /\ [][Next]_vars

(* Time passes; nothing else is certain, not even that a run goes on. *)
FairSpec == Spec /\ WF_vars(Tick)

-----------------------------------------------------------------------------
(* The type of the state. *)
TypeOK == /\ running \in BOOLEAN
          /\ startAge \in 0..(MaxTicks + 1)
          /\ beatAge \in 0..(StaleTicks + 1)
          /\ silence \in 0..(StaleTicks + 1)
          /\ progress \in Progress
          /\ run \in [Runs -> Run]
          /\ forced \subseteq Runs

(* The flag is a lock as long as no live run is declared dead or reset: two *)
(* pipelines never run at once (trigger tests and sets it under _lock, the  *)
(* run keeps it to its finally clause).                                     *)
ExclusiveUnlessForced ==
    forced = {} => \A r, s \in Live : r = s

(* Whatever takeovers and resets happened, once no run is left the lock is  *)
(* free and /progress shows a finished state: every path of _run_pipeline   *)
(* cleans up what it or another run set.                                    *)
IdleWhenNoRun ==
    Live = {} => /\ ~running
                 /\ ~progress.running
                 /\ progress.phase \in {"idle", "done", "error"}

(* While no run is forced out the counters add up: no more domains are done *)
(* than there are, and all of them when the run completes.                  *)
CountsAddUp ==
    forced = {} => /\ progress.done <= progress.total
                   /\ progress.phase = "done" => progress.done = progress.total

(* A run that made no progress for HEARTBEAT_STALE_SEC no longer blocks a   *)
(* trigger, long before PIPELINE_MAX_DURATION (the recovery of 4.18.3).     *)
SilentRunDoesNotBlock == silence > StaleTicks => Accepts

(* No run blocks scans for good, not even one that reports progress for     *)
(* ever (test class TestPipelineLockRecovery).                              *)
LockComesFree == []<>Accepts

-----------------------------------------------------------------------------
(* What the code's comments and documentation say, and overlapping runs     *)
(* refute.                                                                  *)

(* "A pipeline is considered STALE" when it has run for too long or "its    *)
(* heartbeat has not advanced" (comment in trigger): not one that was       *)
(* accepted a moment ago.                                                   *)
FreshRunBlocks ==
    [][forced' # forced /\ running' => startAge > StaleTicks]_vars
=============================================================================
