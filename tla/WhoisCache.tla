----------------------------- MODULE WhoisCache -----------------------------
(***************************************************************************)
(* whois_check of services/whois_intel.py: threads that miss the cache,    *)
(* wait for their turn to query WHOIS, and store the answer.  The rate     *)
(* limit has a lock, which its sleeper keeps; the cache has none: the      *)
(* dictionary and the list of its keys in order of arrival are changed by  *)
(* one bytecode-sized step at a time, and threads overlap between any two. *)
(***************************************************************************)
EXTENDS FiniteSets, SequencesExt, Integers

CONSTANTS Threads, Domains,
          MaxSize,    \* CACHE_MAX_SIZE
          Delay,      \* WHOIS_DELAY, in ticks
          OrderBound  \* bound of the model: no request begins while the list
                      \* is this long

ASSUME WhoisAssumption == /\ MaxSize \in Nat \ {0}
                          /\ Delay \in Nat \ {0}
                          /\ OrderBound \in Nat

VARIABLES cache,      \* the keys of _cache
          fresh,      \* the domains whose entry is younger than CACHE_TTL
          order,      \* _cache_order
          since,      \* ticks since _last_query_time, Delay meaning any more
          holder,     \* the threads in the block of _rate_lock
          thread,     \* thread[t]: where thread t is in whois_check
          overlapped  \* history: two threads were storing at once

vars == <<cache, fresh, order, since, holder, thread, overlapped>>

NoDomain == "none"

(* `domain' is what was asked for, `oldest' the key taken off the list,     *)
(* `left' what is left of the sleep.                                        *)
Thread == [at     : {"idle", "waiting", "sleeping", "query", "check", "pop",
                     "drop", "insert", "find", "remove", "append"},
           domain : Domains \cup {NoDomain},
           oldest : Domains \cup {NoDomain},
           left   : 0 .. Delay]

Idle == [at |-> "idle", domain |-> NoDomain, oldest |-> NoDomain, left |-> 0]

At(t, place)   == thread[t].at = place
GoTo(t, place) == thread' = [thread EXCEPT ![t].at = place]
Return(t)      == thread' = [thread EXCEPT ![t] = Idle]

Storing(t) == thread[t].at \in {"check", "pop", "drop", "insert", "find",
                                "remove", "append"}

Init == /\ cache = {}
        /\ fresh = {}
        /\ order = <<>>
        /\ since = Delay
        /\ holder = {}
        /\ thread = [t \in Threads |-> Idle]
        /\ overlapped = FALSE

-----------------------------------------------------------------------------
(* A request that hits the cache is answered at once and changes nothing;   *)
(* in particular it does not move the domain to the end of the list.        *)
Ask(t, d) ==
    /\ At(t, "idle")
    /\ d \notin fresh
    /\ Len(order) < OrderBound
    /\ thread' = [thread EXCEPT ![t] = [Idle EXCEPT !.at = "waiting", !.domain = d]]
    /\ UNCHANGED <<cache, fresh, order, since, holder, overlapped>>

(* The rate limit: the sleep is computed once, and slept inside the lock.   *)

AcquireSleepingOutside(t) ==      \* mutant of Acquire
    /\ At(t, "waiting")
    /\ holder = {}
    /\ thread' = [thread EXCEPT ![t].at = "sleeping", ![t].left = Delay - since]
    /\ UNCHANGED <<cache, fresh, order, since, holder, overlapped>>

Acquire(t) ==
    /\ At(t, "waiting")
    /\ holder = {}
    /\ holder' = {t}
    /\ thread' = [thread EXCEPT ![t].at = "sleeping", ![t].left = Delay - since]
    /\ UNCHANGED <<cache, fresh, order, since, overlapped>>

WakeWithoutRelease(t) ==      \* mutant of Wake
    /\ At(t, "sleeping")
    /\ thread[t].left = 0
    /\ since' = 0
    /\ GoTo(t, "query")
    /\ UNCHANGED <<cache, fresh, order, holder, overlapped>>

Wake(t) ==
    /\ At(t, "sleeping")
    /\ thread[t].left = 0
    /\ since' = 0
    /\ holder' = holder \ {t}
    /\ GoTo(t, "query")
    /\ UNCHANGED <<cache, fresh, order, overlapped>>

(* WHOIS answers, or not: an error is stored like an answer. *)
Query(t) ==
    /\ At(t, "query")
    /\ GoTo(t, "check")
    /\ overlapped' = (overlapped \/ \E u \in Threads : Storing(u))
    /\ UNCHANGED <<cache, fresh, order, since, holder>>

-----------------------------------------------------------------------------
(* "Cache store with LRU eviction". *)

CheckFullLate(t) ==      \* mutant of CheckFull
    /\ At(t, "check")
    /\ GoTo(t, IF Cardinality(cache) > MaxSize THEN "pop" ELSE "insert")
    /\ UNCHANGED <<cache, fresh, order, since, holder, overlapped>>

CheckFull(t) ==
    /\ At(t, "check")
    /\ GoTo(t, IF Cardinality(cache) >= MaxSize THEN "pop" ELSE "insert")
    /\ UNCHANGED <<cache, fresh, order, since, holder, overlapped>>

PopOldest(t) ==
    /\ At(t, "pop")
    /\ order # <<>>
    /\ thread' = [thread EXCEPT ![t].at = "drop", ![t].oldest = Head(order)]
    /\ order' = Tail(order)
    /\ UNCHANGED <<cache, fresh, since, holder, overlapped>>

(* pop(0) of an empty list: IndexError, and the request is answered 500. *)
PopNothing(t) ==
    /\ At(t, "pop")
    /\ order = <<>>
    /\ Return(t)
    /\ UNCHANGED <<cache, fresh, order, since, holder, overlapped>>

Drop(t) ==
    /\ At(t, "drop")
    /\ cache' = cache \ {thread[t].oldest}
    /\ fresh' = fresh \ {thread[t].oldest}
    /\ thread' = [thread EXCEPT ![t].at = "insert", ![t].oldest = NoDomain]
    /\ UNCHANGED <<order, since, holder, overlapped>>

Insert(t) ==
    /\ At(t, "insert")
    /\ cache' = cache \cup {thread[t].domain}
    /\ fresh' = fresh \cup {thread[t].domain}
    /\ GoTo(t, "find")
    /\ UNCHANGED <<order, since, holder, overlapped>>

Find(t) ==
    /\ At(t, "find")
    /\ GoTo(t, IF Contains(order, thread[t].domain) THEN "remove" ELSE "append")
    /\ UNCHANGED <<cache, fresh, order, since, holder, overlapped>>

RemoveForgettingToAppend(t) ==      \* mutant of RemoveKey
    /\ At(t, "remove")
    /\ Contains(order, thread[t].domain)
    /\ order' = RemoveFirst(order, thread[t].domain)
    /\ Return(t)
    /\ UNCHANGED <<cache, fresh, since, holder, overlapped>>

RemoveKey(t) ==
    /\ At(t, "remove")
    /\ Contains(order, thread[t].domain)
    /\ order' = RemoveFirst(order, thread[t].domain)
    /\ GoTo(t, "append")
    /\ UNCHANGED <<cache, fresh, since, holder, overlapped>>

(* The key has gone since it was found: ValueError, answered 500. *)
RemoveGone(t) ==
    /\ At(t, "remove")
    /\ ~Contains(order, thread[t].domain)
    /\ Return(t)
    /\ UNCHANGED <<cache, fresh, order, since, holder, overlapped>>

AppendKey(t) ==
    /\ At(t, "append")
    /\ order' = Append(order, thread[t].domain)
    /\ Return(t)
    /\ UNCHANGED <<cache, fresh, since, holder, overlapped>>

-----------------------------------------------------------------------------
(* Time: ticks for the rate limit, and the end of an entry's CACHE_TTL. *)
Tick ==
    /\ since' = IF since < Delay THEN since + 1 ELSE since
    /\ thread' = [t \in Threads |->
                     [thread[t] EXCEPT !.left = IF @ > 0 THEN @ - 1 ELSE @]]
    /\ UNCHANGED <<cache, fresh, order, holder, overlapped>>

Expire(d) ==
    /\ d \in fresh
    /\ fresh' = fresh \ {d}
    /\ UNCHANGED <<cache, order, since, holder, thread, overlapped>>

-----------------------------------------------------------------------------
Store(t) == \/ CheckFull(t) \/ PopOldest(t) \/ PopNothing(t) \/ Drop(t)
            \/ Insert(t) \/ Find(t) \/ RemoveKey(t) \/ RemoveGone(t) \/ AppendKey(t)

Next == \/ \E t \in Threads, d \in Domains : Ask(t, d)
        \/ \E t \in Threads : Acquire(t) \/ Wake(t) \/ Query(t) \/ Store(t)
        \/ Tick
        \/ \E d \in Domains : Expire(d)

(* Time passes, and a thread that can take or leave the lock is scheduled;  *)
(* nothing is assumed of WHOIS, nor of which waiting thread gets the lock.  *)
Fairness == /\ WF_vars(Tick)
            /\ WF_vars(\E t \in Threads : Acquire(t))
            /\ WF_vars(\E t \in Threads : Wake(t))

Spec == Init /\ [][Next]_vars /\ Fairness

-----------------------------------------------------------------------------
(* The type of the state. *)
TypeOK == /\ cache \subseteq Domains
          /\ fresh \subseteq cache
          /\ order \in Seq(Domains)
          /\ since \in 0 .. Delay
          /\ holder \subseteq Threads
          /\ thread \in [Threads -> Thread]
          /\ overlapped \in BOOLEAN

(* No entry of the cache is there for ever: however threads overlap, its    *)
(* key is on the list that evictions go by, or a thread is about to put it  *)
(* there or to drop the entry.                                              *)
Evictable ==
    \A d \in cache :
        \/ Contains(order, d)
        \/ \E t \in Threads : \/ thread[t].domain = d /\ thread[t].at \in {"find", "append"}
                              \/ thread[t].oldest = d /\ At(t, "drop")

(* As long as no two threads were storing at once, the cache keeps to its   *)
(* size and the list holds its keys, each once.                             *)
CacheIsTheList ==
    ~overlapped /\ (\A t \in Threads : ~Storing(t)) =>
        /\ Cardinality(cache) <= MaxSize
        /\ ToSet(order) = cache
        /\ Len(order) = Cardinality(cache)

(* Two threads get their turn to query at least the delay apart, however    *)
(* many wait and whatever they were asked for: the limit is one for all     *)
(* domains ("Delay between WHOIS queries", README.md), so that look-ups of  *)
(* distinct domains do block each other, which the comment at the lock      *)
(* denies ("non-blocking between distinct domains").  Only turns are        *)
(* spaced, at the end of the sleep: the query follows outside the lock, and *)
(* may be late enough to meet the next one.                                 *)
TurnsSpaced ==
    [][\A t \in Threads : At(t, "sleeping") /\ At(t, "query")' => since = Delay]_vars

(* Once the delay is over and somebody waits, somebody gets to query: the   *)
(* lock is left by whoever took it, also when its sleep was long.           *)
TurnsGoOn == (since = Delay /\ \E t \in Threads : At(t, "waiting")) ~> (since = 0)
=============================================================================
