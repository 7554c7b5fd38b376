# DomainSentry: models, model checking and proofs

DomainSentry watches for look-alike domains. A run of its orchestrator reads
the monitored domains from the feed-manager, collects intelligence about each,
has the classifier rate it, and publishes the results as events and, if
configured, as cases that analysts work on. This directory specifies the parts
of it that keep state that several threads change, checks them with TLC and
proves their main properties with TLAPS.

## 1. Inventory

Each service is a FastAPI application. Its handlers are plain functions, which
FastAPI runs in a thread pool, so every handler of a service may overlap every
other, and itself. The services call one another by HTTP, whether each has a
process of its own (`run_service.py`) or all share one (`unified.py`); they
share no variables.

| Component | State | Operations | Correct when |
|---|---|---|---|
| case-manager: cases (`services/case_manager.py`) | tables `cases`, `case_notes`, `case_history` in SQLite | `ingest_case` (called by a run), `update_status`, `update_severity`, `assign_case`, `resolve_severity_proposal`, `whitelist_case` (calls the feed-manager), notes and listings | an analyst's judgement survives re-scans; an escalation reaches the analyst; history and row agree |
| case-manager: accounts (`services/case_manager.py`, `shared/auth.py`) | tables `users`, `sessions`; failed-login counters in memory | `login`, `logout`, `create_user`, `update_user`, `reset_password` | an active admin remains; a disabled account has no session; an update changes what it was asked to |
| orchestrator: run lock (`services/orchestrator.py`) | `_running`, `_run_started`, `_last_heartbeat`, `_progress` | `trigger`, `trigger_reset`, `_run_pipeline`, `progress` | one run at a time; a dead run does not block the next; progress is true |
| orchestrator: scan flow | the events of a run; nothing shared | `_gather_intelligence`, `_persist_intel`, `_ingest_cases`, the loops of `_run_pipeline` | a domain is checked once, never when whitelisted; a failed step loses only its own result |
| feed-manager (`services/feed_manager.py`) | `feed.json` (by way of `feed.tmp`), per client `<client>.json` and `.txt` whitelists | add, remove, promote and onboard domains; add and remove whitelist entries | no change is lost; the files can be read after a crash |
| classifier (`services/classifier.py`) | none | `classify_variant` (ordered rules), `baseline_diff` | every rule has the precedence its comments give it; every change yields its alert |
| intel store (`shared/intel_store.py`) | per domain a snapshot and a history file | `save_snapshot`, `append_history`, `load_*` | no change between snapshots goes unrecorded |
| whois-intel (`services/whois_intel.py`) | `_cache`, `_cache_order`, `_last_query_time` | `whois_check` | the cache is bounded and coherent, turns to query are spaced |
| event-publisher (`services/event_publisher.py`) | `soc_events.ndjson`, `soc_events_latest.json` | `publish`, `get_events` | every line is one event; the latest snapshot is the latest |
| reputation, dns-intel, cert-intel, http-fingerprint, dnstwist-engine | none | one look-up each | a source that fails degrades the answer only |
| `shared/utils.py` | none | `http_get_with_retry`, `detect_hidden_elements`, helpers | bounded attempts and redirects |
| dashboard, deployment, request middleware, constants | none | | |

How they interact: a trigger queues `_run_pipeline` as a background task; the
run reads the feed and, once per client, the whitelist, calls the collectors
and the classifier per domain, stores the intelligence, and at its end posts
the events to the event-publisher and, one by one, to `/cases/ingest`. The
case-manager calls the feed-manager from `whitelist_case`, and the
feed-manager asks the case-manager who a token belongs to. The dashboard polls
`/progress` and uses the case-manager's handlers.

What is hard:

- **Reads outside transactions.** Python's `sqlite3` opens a transaction at the
  first `INSERT`, `UPDATE` or `DELETE`, not at a `SELECT`, and `get_db` commits
  at the end of the handler. Each handler that decides by what it read can be
  overtaken between its read and its write. The feed-manager has the same
  shape with files.
- **A lock that is taken over.** The flag of a run is given up for dead by age
  and by a heartbeat, while the run may be alive and later write the state of
  its successor.
- **Two services, no transaction.** `whitelist_case` and the end of a run
  change two services one after the other.
- **Partial failure.** Nearly every call has an `except` that goes on without
  its result, and a source that failed reads like one that found nothing.
- **Files rewritten step by step.** A file is emptied, written and perhaps
  renamed in separate steps, any of which may fail or be the last before the
  service dies, while another thread is in the middle of the same.
- **Rules whose order decides.** The classifier's rules overlap; which of two
  descriptions of a domain looks worse depends on where each of them stops.

The hazards of the code are listed, line by line, in `PROJECT.json`, each with
the properties that would fail if it went wrong.

## 2. What is modelled

| Module | Models | Composed with |
|---|---|---|
| `Severity` | ranks and comparison of severities | used by the next four |
| `CaseTriage` | the promise of the case store | |
| `CaseManager` | the case store, with overlapping requests | implements `CaseTriage` |
| `ScanFlow` | a run from the feed to the case store, with analysts and the whitelist beside it | has an instance of `CaseTriage` for the case store |
| `Classifier` | the decision list, over a domain that changes | |
| `PipelineLock` | run flag, heartbeat, progress | |
| `Accounts` | users and sessions | |
| `Files` | what emptying and writing a file leaves in it | used by `FeedStore` and `WhitelistStore` |
| `FeedList` | the promise of the feed | |
| `FeedStore` | `feed.json` and `feed.tmp` | implements `FeedList` |
| `Whitelist` | the promise of a whitelist | |
| `WhitelistStore` | the two files of a whitelist | implements `Whitelist` |
| `IntelHistory` | snapshot and history of a domain | |
| `WhoisCache` | cache and rate limit of whois-intel | |

`<module>Proofs` holds the theorems about a module, `MC<module>` what its runs
need besides (`MCDomain` those of `Classifier` and `IntelHistory`, `MCRetriage`
a further one of `ScanFlow`); `ScanProofs` holds those about `ScanFlow` and `Classifier`, and
the one about both. `ScanFlow` builds on what the others establish: its case store is
the promise that `CaseManager` implements, its whitelist the
one `WhitelistStore` implements where changes do not overlap, and one run goes
at a time, as `PipelineLock` shows until one is forced out.

### Cases: `Severity`, `CaseTriage`, `CaseManager`

`CaseManager` is the case store. `row[c]` is the row of a (domain, client)
pair: status, severity, lock, pending proposal, and `scanned`, which stands for
the columns written together from a report (classification, confidence,
rationale). `audit[c]` is the action of the newest history line. A handler
whose write depends on what it read is two actions, with `request[r]` holding
what it carries: `ingest_case` (`BeginIngest` picks the branch, then one action
per branch writes it), `resolve_severity_proposal` (`BeginResolve`, then
`ApproveProposal` or `RejectProposal`) and `whitelist_case` (`PostWhitelist`,
`CloseWhitelisted`, with `PostWhitelistUnanswered` for an answer that is lost).
`Abandon` ends a handler whose commit fails. The other handlers only read that
the case exists, which nothing ever undoes, and are one action. `posted` is the
feed-manager's list, as `whitelist_case` sees it.

Two history variables exist for the properties only: `judged[c]` is the
severity an analyst last settled, `raced` the cases on which some write relied
on a read that another commit had overtaken. What the handlers guarantee is
stated for cases outside `raced`; what the documents claim without that
condition does not hold when requests overlap: `raced` covers a re-scan that
overwrites a manual severity set since it read the case, a proposal filed after
the severity was released, a case in progress that is reopened as new, and an
escalation recorded in a case that has just been closed, which no later report
then outranks.

`CaseTriage` is the promise, without handlers or requests: a case is absent,
open or closed, its severity belongs to the classifier or to an analyst, and
each request takes effect at once. `CaseManager` implements it
(`ImplementsTriage`), its instance mapping a row to a promised entry (`View`)
and `raced` to `lost`, the cases about which nothing is promised.

`Severity` holds the ranks and the comparison both use, with the defaults the
code gives a severity without a rank (2 if recorded, 0 if reported).

### Run lock: `PipelineLock`

The flag, the two clocks and the progress state of the orchestrator, and the
background runs. `run[r].at` is where run `r` is in `_run_pipeline`, `todo` the
domain counts of the clients ahead, `left` what is left of the present one.
One action per step that touches the shared state: `Begin`, `Reset`
(`_progress_reset`), `ReadFeed`, `NextClient`, `SkipWhitelisted`, `Check`,
`Checked`, `EndClient`, `BeginTwist`, `TwistLegit`, `EndTwist`, `Complete`,
`Fail` (the outer `except`) and `Close` (the `finally`). `Trigger` and
`TriggerReset` are the handlers, `Restart` a restart of the process.

Clocks are ages in ticks since the event, one past the limit meaning any age
above it; `Tick` lets time pass, between any two steps and as often as it likes, so a run may
take any time for anything. A run has no fairness: it may hang at any step.
The history variable `silence` counts the ticks since a run last made progress,
reported or not, and `forced` holds the runs from which the flag was taken
while they were alive.

### Accounts: `Accounts`

The users, the sessions and the handlers that change them. Of a user's
permissions only `manage_users` decides anything about accounts. `update_user`
is four actions: `BeginUpdate` (authorised), `LoadUpdate` (reads the row),
`GuardUpdate` (counts the other admins) and `WriteUpdate`, which writes all
three columns from what was read and asked, and revokes the sessions of a
disabled account. `login` reads and verifies in one action and inserts the
session in another; `reset_password` is authorised in one and writes in
another. Authorisation and effect of `create_user` and `logout` are one action:
nothing they write depends on a row another handler changes. History variables:
`late`, the tokens of logins that had verified an account before its sessions
were revoked; `raced`, that an update relied on rows that had changed.

Not modelled here: expiry of sessions (an expired session is one nobody uses)
and the counters of failed logins.

### Scans: `ScanFlow`

One client's part of a run, from `BeginRun` to `EndRun`. `run.todo` are the
domains ahead, in any order; `ReadWhitelist` reads the list once, and a list
that cannot be read counts as empty (`run.blind`). `Skip`, `Check` and
`CheckUnanswered` are the three ways a domain goes through the loop,
`BeginTwist` and `Discover` the dnstwist pass, whose variants are compared with
neither the feed nor the whitelist. `Ingest` hands the events to the case
store one by one (`Reported`), `IngestFails` is an event that cannot be
delivered or a token that is refused, `Die` an error or a kill that loses all
events. `AddWhitelist`, `RemoveWhitelist`, `PostWhitelist`, `CloseWhitelisted`
and `Judge` are the people, between any two steps. History variables: `verdict`, the
severity of the last event of this run on a domain that nothing has superseded;
`late`, the domains whitelisted since the run read the list. `MCRetriage` adds
one, `resolved`, for a claim about cases that stay closed from one run to the next.

### Files of the feed-manager: `Files`, `FeedStore`, `WhitelistStore`

`Files` says what a file holds: `open(path, "w")` empties it, and a text put
into a file that is not empty may leave the end of a longer one standing.

In `FeedStore` a handler loads (`AddDomain`, `RemoveDomain`, `PromoteDomain`,
`OnboardClient`; a file that does not parse is an error), then saves in three
steps, `OpenTmp`, `WriteOut` and `Rename`. A handle stays on its file when that is
renamed, so `change[h].on` follows it to `feed.json` or to a file without name.
`Fail` is an `OSError` of any step, or the rename that finds no `feed.tmp`;
`Crash` ends all handlers and leaves the files. History variables: `mixed`, two
saves were under way at once; `stale`, a list was saved that was loaded before
another change. `FeedList` is the promise: a list changed by one atomic action
per request.

`WhitelistStore` is one client's whitelist: `Load` takes the json or, without
one, the txt; `OpenJson`, `WriteJson`, `OpenTxt` and `WriteTxt` are the save,
in place. Its history variables say what a client of the API was told: `acked`,
the list by the acknowledged changes; `doubt`, the domains whose last change
was cut short; `good`, the list last written out; `cuts`, the saves cut short
since the last complete one. `Whitelist` is the promise: a list that every
request changes at once. What implements it (`Shown`) is what `get_whitelist`
answers at any moment; while it can only answer with an error, the list is
the one last written.

### Classifier: `Classifier`

`seen` is what the sources report of a domain: the classes of nameserver,
address, mail and page that the rules tell apart, the hidden elements found,
and what WHOIS says of age and last update. `Category` is `classify_variant`,
the first rule that applies, `Risk` the capped score of
`detect_hidden_elements`, `SeverityOf` the orchestrator's table. The actions
are what happens to a domain between two scans. So a property of the rules is
an action property: what a change of one fact may do to the severity. Its
specification is `SeenSpec` (`FirstSeen`, `SeenNext`), named apart from that of
`ScanFlow` so that `ScanProofs` can speak of both.
The model follows the code where `src/README.md:334` is behind it: that hidden
elements override the page's content holds of domains that are not aged, while on
an aged one they make it `needs_review`, as `CHANGELOG.md` (4.21.0) says.

### Intel store: `IntelHistory`

`_persist_intel`, step by step: `Gather` (the readings, and the comparison with
the snapshot, `Alert` being `baseline_diff`), `Diff` or `DiffLost`,
`AppendPart` and `AppendRest` or `AppendCut`, `Save` or `SaveFails`, and `Crash` between any
two. What is compared is cut into six kinds of facets, each with its own rule.
`told` is the value of a facet the history ends with. `astray` and `gaps`
say on which facets the history is excused.

### WHOIS: `WhoisCache`

`whois_check`, one action per step that other threads can come between. The
rate limit has a lock (`holder`), which the sleeper keeps: `Acquire` computes
the sleep, `Wake` ends it. The cache has none: `CheckFull`, `PopOldest`,
`Drop`, `Insert`, `Find`, `RemoveKey` and `AppendKey` change the dictionary
(`cache`) and the list of its keys (`order`) one at a time; `PopNothing` and
`RemoveGone` are the exceptions another thread's steps can bring about. `Tick`
is time, `Expire` the end of an entry's life. `overlapped` says that two
threads were storing at once.

What reading the code for this model showed, beyond the properties: eviction
goes by the order of storing, not of use, though the comment says LRU; an
answer that is an error is cached as long as any other; and when two threads
store at once the list may hold a key twice, after which an eviction can remove
nothing and the cache stays over `CACHE_MAX_SIZE`. This is why `CacheIsTheList`
is conditional; what is unconditional, `Evictable`, is that no entry gets
stuck.

Nor is the rate limit what is said of it. The comment at its declaration
(`whois_intel.py:29`) calls it non-blocking between distinct domains, and
`CHANGELOG.md:536` speaks of non-blocking rate limiting; but there is one lock and
one time of the last turn for all domains, and the sleep is inside the lock, so
look-ups of distinct domains wait for one another. `TurnsSpaced` states what the
code does: any two turns are the delay apart, whatever the domains. A turn
is the end of the critical section; the query itself follows outside the lock
and may start any time later, so two queries can come closer than their turns.

Definitions marked `mutant of X` are plausible slips in the code that X
models. They are used by no specification; replacing X by one of them must
break the property named with it under `mutants` in `PROJECT.json`, which shows
that the property depends on the code.

## 3. Runs

Each MC module adds symmetry and instance values, and two add more: `MCDomain`
runs two modules side by side, `MCRetriage` has a history variable. A `.cfg` gives the
constants their values. Deadlock is checked except where noted.

| Run | Instance | Shows |
|---|---|---|
| `cases` | 1 case, 2 overlapping requests, reports unrated/MEDIUM/HIGH, the rating MEDIUM | on a case no request has overtaken: `JudgementStands`, `ProposalOutranks`, `SeverityMatchesScan`, `TriageUndoneOnlyByEscalation`; however requests overlap: `HistoryMatchesRow`, `WhitelistedOnlyAfterPost`, `OverrideEndsOnlyByRelease`; `ImplementsTriage`, and the type |
| `pipeline` | 2 runs, feeds of 0 to 2 clients with 1 or 2 domains, 1 legitimate domain, heartbeat limit 1 tick, duration limit 3 | `ExclusiveUnlessForced`, `IdleWhenNoRun`, `CountsAddUp`, `SilentRunDoesNotBlock`, the type, and under fairness of time `LockComesFree` |
| `accounts_safety` | 2 users, 2 roles, 2 requests, 2 tokens, four updates (demote keeping `manage_users`, promote, disable, enable) | `AdminRemains`, `DisabledHasNoSession`, `NothingChangesUnasked`, and the type |
| `feed` | 2 domains, 1 client, 2 overlapping handlers | without overlapping saves: `FeedParses`, `FeedReplacedWhole`; without overlapping changes: `ImplementsList` |
| `whitelist` | 2 domains, 2 overlapping handlers | `ListRecoverable`, `AcknowledgedInEffect`, `TxtInSync`, after any number of errors and kills their conditions allow; without overlapping changes: `ImplementsWhitelist` |
| `scan` | a target and a watched domain, which dnstwist finds too; verdict HIGH, rating MEDIUM | `WhitelistRespected`, `VerdictsReachCases` |
| `whois` | 2 threads, 3 domains, a cache of 2, a delay of 2 ticks | `Evictable`, `TurnsSpaced` however threads overlap; `CacheIsTheList` if no two store at once; `TurnsGoOn` |
| `domain` | `Classifier`: ages on each side of 540 and 730 days, 540 itself, five kinds of hidden elements; `IntelHistory`: any one or two kinds of facets, values 0 to 3, alarm from 2 | `ArmedIsNotExonerated`, `HidingNeverCalms`, `AgeingNeverAlarms`, `SilentWhoisCalmsOnlyFronts`; `HistoryAccounts`, `NoAlertTwice`, `SavedAfterTold` |

Why the bounds are enough to be interesting. The handlers of one case touch no
other case, so one case suffices; two requests overtake each other in every
order, and the reports and the rating are below, equal to and above one
another and the default rank of a case without severity (a second, lower
rating multiplies the states without a new branch). Two runs are enough for a
takeover and a late ending. The heartbeat limit is below the duration limit, as
in the code (600 s and 7200 s), so each condition fires on its own. Two users
are enough for two admins and for an update of oneself and of another; roles
below admin do not differ in `manage_users`. Two handlers meet in a file in
every way the conditions `mixed` and `stale` tell apart, and two domains show
an entry of one lost by the save of the other; the entries of several clients
differ in name only. In `ScanFlow` the second domain is the one that can reach
the case store twice in a run, checked and discovered, which needs the order of
events. Three domains overfill a cache of two, and a delay of two ticks is one
that a second thread can enter half-way; `OrderBound` = 4 keeps the list, which
overlapping stores can lengthen without end, finite: no request begins while it
is that long. The five findings of `domain` have the
weights 30, 25, 10, 10 and 25 (a hidden `div` with a form in it, which replaces
the 10 of a plain one), so their sums lie on both sides of the limits 15 and
30; all ten kinds, and the cap at 100, are in the theorems. The facets of a domain
are compared independently, and only `astray` and the single save tie them together,
for which two suffice (`MaxWatched`). The two modules of `domain` share no variable,
and each property is about one of them; so one moves while the other rests at
one initial state, which explores every behaviour of each.

`CHECK_DEADLOCK FALSE` is set where the system really may come to a stop:
`accounts_safety` (every account is disabled and no session is left: the state
the finding on the last admin leads to), `feed` (a `feed.json` that does not
parse answers every request with an error) and `whitelist` (the same of a json
that a save left empty).

The symmetry of requests, handlers, tokens and domains is sound for safety;
the runs with liveness properties use none.

Runs that refute what a document or comment of the repository says:

| Run | Claim | What happens |
|---|---|---|
| `pipeline_fresh_run_taken` | stale means old, or without heartbeat for the limit | a trigger does not record a heartbeat, so the run just accepted may be declared dead by the next trigger |
| `accounts_last_admin` | the last active admin cannot be demoted or disabled | two updates that retire one admin each count the other |
| `feed_corruption` | temporary file and rename prevent corruption | two saves share the one name `feed.tmp`, and what the second writes goes into `feed.json` in place |
| `scan_retriage` | whitelisting a case from the queue means "verify once, never re-triage" | dnstwist's variants are compared with no whitelist: a variant whitelisted at MEDIUM is found again by a later run, which has read the list, is classified HIGH, and its case is set to new |

In `scan_retriage` no analyst rates a case (`Chosen` is empty), so only the
whitelisting and the scans take part. What the code does guarantee of a
whitelisted domain, beside this, is `WhitelistRespected`. One comment is refuted by a property that holds:
`TurnsSpaced` in `whois`, as section 2 explains.

Fairness. `LockComesFree` assumes weak fairness of `Tick`: time passes. It
assumes nothing of the runs, since a thread that waits for a service may hang
and a process may be killed, and nothing of the triggers, which are requests.
The property is that a trigger would be accepted again and again, even if a run
reports progress for ever. `TurnsGoOn` assumes that time passes, that a free
lock is taken by some thread that waits for it, and that a thread whose sleep
is over is scheduled (`time.sleep` and `threading.Lock` promise both). It
assumes nothing of WHOIS, whose query is outside the lock, and not that a given
thread gets the lock, so that what it promises is a turn for somebody.

## 4. Proofs

Every theorem holds for all values of the constants, under the assumption the
module declares (`SeverityAssumption`, `ScanFlowAssumption`, `PipelineAssumption`,
`AccountsAssumption`, `WhoisAssumption`, `ClassifierAssumption`,
`IntelAssumption`): the reports are severities, feeds are sequences of numbers,
limits are numbers, and so on. TLC evaluates them in the passing runs.

**`CaseManagerProofs`.** `TypeCorrect` needs, beside the type, that a proposal
under resolution is rated. `JudgementIsKept`, `ProposalsAreSound` and
`SeveritiesMatchScans` are not inductive by themselves: a proposal outranks a
rating only because the rating is the one the analyst settled. `SoundRow` joins
them as one statement about a row, and each handler is shown to be a
`SafeWrite`: it leaves its case sound or raced, and every other case as it was.
`TriageStands` follows from it: a closed case holds the severity it was settled
at, so a report that outranks the one outranks the other.
`StoreImplementsTriage` shows, action by action, that a timely write is a
promised action of `CaseTriage`, an overtaken one `Lose`, and a read a stutter.
`HistoryTellsTheRow`, `PostComesFirst` and `OnlyReleaseUnlocks` hold of raced
cases too. Their invariant `HInv` says what a handler relies on without reading
it again (`CasesAreThere`), and each write is a `RecordedWrite`: the row and
the line it leaves agree, and no lock is released without a line that says so.

**`PipelineLockProofs`.** `TypeCorrect` needs that a run in the middle of a
domain still has it to count (the counter never drops below zero).
`PipelinesExclude` and `RunsCleanUp` rest on `Held` (as long as none was forced
out, a live run holds the flag) and `CleanedUp` (what the flag and the progress
state show as going on, some run will still clean up); exclusion alone is not
inductive, since only the flag makes the next trigger refuse.
`ProgressAddsUp` adds `Sums`: the total is what is done and what the one live
run has left. That a feed's size is its first client's and the rest's
(`FeedShrinks`) is shown by two bijections, since induction over the sequence
is not to be had. `SilenceEndsTheLock` follows from `BeatIsOlder`: every report
is progress, so the heartbeat is never younger than the last progress.

**`AccountsProofs`.** `AnAdminRemains` rests on `GuardHolds` (an update about to
retire an admin saw another one) and on the write having relied on what still
stands. `SessionsEndWithTheAccount` rests on `LoginsKnown`: a login under way
for a disabled account is one whose token is known to be late.
`UpdatesDoAsAsked` needs only the types, and that a write that raced nothing
wrote over the row it was computed from.

**`FeedStoreProofs`.** The invariant says that what a handler carries is one of
the API's changes made for the list it loaded (`OfTheApi`), and that without
overlapping saves one handler owns `feed.tmp`, which is empty and then its list
(`OneSaver`). From it `SavesKeepFeed`, `FeedChangesWhole`, and the refinement
`FeedIsTheList`: the rename is the one step that is not a stutter, and an
`Add`, `Remove` or `Onboard` of the list as it is.

**`WhitelistStoreProofs`.** `Stages` says what the two files hold at each stage
of the one save under way, `Kept` which of them is whole after none or one save
cut short, `Agreed` that the list last written tells what was acknowledged, but
for the domains in doubt. `ListSurvives` and `TxtFollowsJson` read off the
first two, `AcknowledgedCounts` all three. `ListIsTheWhitelist` is the
refinement: at every stage, and after every cut, what is shown is the list last
written (`ShownIsGood`), which only `WriteJson` replaces; it carries one of the
API's changes (`Asked`), and if it was computed from the list as it is, the
write is an `Add` or a `Remove` of the promise.

**`IntelHistoryProofs`.** `HistoryTellsAll` is only true between scans, so the
invariant follows one: the alerts under way are those of the snapshot, as far
as not lost (`Compared`), a facet not recorded in this scan is accounted for
all along (`Steady`), and outside `gaps` the snapshot has a value (`NoGap`).
`SaveComesLast` and `NothingTwice` are read off `Compared`.

**`WhoisCacheProofs`.** `RateLimitHolds` rests on `SleepsLongEnough`: whoever
sleeps holds the lock, and what is left of the sleep and what has passed make
up the delay. `EntriesStayEvictable` is inductive with the types once it is
known that a thread that drops an entry has taken its key off the list
(`Asked`); that removing the first place of a key keeps the others is shown for
lists of any length by the least such place. `CacheStaysTheList` holds only at
rest, so its invariant (`Alone`) says for each step of the one storing thread
(`Stage`) which key the list and the cache differ by, that the list has no
duplicate, and from which step on there is room. Steps take list and cache
apart only for the thread's own key; a list without duplicates is as long as
its set of keys is large (`DistinctCounts`, by a bijection), so the size of the
cache, which `CheckFull` compares, is that of the list.

**`ScanProofs`.** The properties of `Classifier` follow from no history, only
from the rules, so each becomes a lemma about two descriptions that differ in
one respect: the score is monotone in what is hidden, the rules' order lets a
higher score only move a domain up, and so on through the decision list.

For `ScanFlow`, `WhitelistIsRespected` rests on
`Listings`: in the loop, whatever is on the whitelist was read by the run or
is `late`, unless the run is `blind` (`ReadInTime`), and events are rated by
the rules (`RatedByRules`). `WhitelistRespected` alone is not inductive, since
it does not say what the run has read when it comes to check a domain. `LastWordIsKept` follows the last event
on a domain from the loop to the case store (`OnTheWay`): as long as an event
on it is ahead, `verdict` is what the last of them says (`Pending`), and when
none is, what the store shows. Two events on one domain, checked and discovered, are
the case a test would miss: the first may be handed over while the second is
ahead, and only the second decides. `CasesAsPromised` is the refinement: an event handed
over is an `Open`, `Rate` or `Propose` of the promise or nothing, what an
analyst does is a promised step too, and all else is a stutter. `WhitelistAsPromised` is the same of the whitelist.
With `StoreImplementsTriage` and `ListIsTheWhitelist` they say that what is
proved here of cases and whitelist holds of those the handlers keep, where no
request overtakes another. `ClosedAtHighIsFinal` joins run
and rules: its hypothesis, that the verdicts are severities of the decision
list, is what `_run_pipeline` sees to, and under it no report outranks a case
closed at HIGH. It is stated in the proof module, and not a property of a run,
as no run has both modules; the instance of `scan`, whose verdict is HIGH,
satisfies the hypothesis.

The types of `FeedStore`, `WhitelistStore`, `IntelHistory`, `WhoisCache`,
`ScanFlow` and `Classifier` (`SeenOK`) are theorems and not properties of a run.

Only model-checked: the two liveness properties, `LockComesFree` and
`TurnsGoOn`, which are out of the prover's reach. Every invariant and every
action property of a passing run is a theorem.

## 5. What could follow

Session expiry and the counters of failed logins beside `Accounts`, which
would make that component complete; and an `EventLog` for overlapping publishes,
if something comes to depend on what the event-publisher stores.

## 6. Not modelled, and why

- The collectors (dns, cert, http, reputation, dnstwist) are one request each
  without state of their own; what they may answer appears in the models as a
  choice, failures included. Attempts and fallbacks of one HTTP request are a
  bounded loop whose outcome is part of that choice.
- The HTML analysis is regular expressions over text, beyond what TLC checks
  usefully; `Classifier` takes its result, the kinds of elements found.
- The event-publisher appends to a file and rewrites a snapshot that nothing
  reads back into a decision; overlapping publishes are listed as a hazard
  without a property for that reason.
- The dashboard is a static page. Middleware, constants and start-up wiring
  have no behaviour to specify; from the wiring the models take only that
  handlers run in threads.
- In modelled parts: expiry of sessions and the counters of failed logins; the
  notes of cases and of clients; the wording and severity of diff alerts, and
  that on a client's own domain a generic alert is not repeated for several
  pages of one scan; the batch end points, which call the modelled ones in a
  loop; and a snapshot that exists and cannot be read.
- A run that is forced out and lives on counts into its successor's counters
  and releases its successor's flag. The models contain it (`forced`), and
  the properties of `PipelineLock` say what holds regardless; that a run in the
  dnstwist loop advances without a heartbeat, and may so be declared dead while
  it works, is visible in `TwistLegit`.
