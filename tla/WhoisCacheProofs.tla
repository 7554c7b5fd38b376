-------------------------- MODULE WhoisCacheProofs --------------------------
(***************************************************************************)
(* The rate limit and the cache of the WHOIS service, for every number of  *)
(* threads and domains, every delay and every size of the cache.           *)
(***************************************************************************)
EXTENDS WhoisCache, TLAPS, WellFoundedInduction, SequenceTheorems,
        FiniteSetTheorems

(* A thread that is at work was asked for a domain, and one that drops an   *)
(* entry has taken its key off the list.                                    *)
Asked == \A t \in Threads : /\ ~At(t, "idle") => thread[t].domain \in Domains
                            /\ At(t, "drop") => thread[t].oldest \in Domains

(* Whoever sleeps has the lock, and sleeps until the delay is over.         *)
SleepsLongEnough ==
    \A t \in Threads : At(t, "sleeping") => /\ holder = {t}
                                            /\ thread[t].left + since >= Delay

Inv == TypeOK /\ Asked /\ SleepsLongEnough /\ Evictable

-----------------------------------------------------------------------------
(* What the operations on the list do to its keys.                          *)

LEMMA LeastExists ==
  ASSUME NEW I \in SUBSET Nat, I # {}
  PROVE  Min(I) \in I
<1> DEFINE R == OpToRel(<, Nat)
<1>1. IsWellFoundedOn(R, Nat)
  BY NatLessThanWellFounded
<1>2. \A x, y \in Nat : <<y, x>> \in R <=> y < x
  BY DEF OpToRel
<1> HIDE DEF R
<1>3. PICK x \in I : \A y \in I : ~(<<y, x>> \in R)
  BY <1>1, WFMin
<1>4. ASSUME NEW y \in I PROVE x <= y
  <2>1. x \in Nat /\ y \in Nat
    OBVIOUS
  <2>2. ~(<<y, x>> \in R)
    BY <1>3
  <2>3. ~(y < x)
    BY <1>2, <2>1, <2>2
  <2>4. QED
    BY <2>1, <2>3
<1>5. QED
  BY <1>4 DEF Min

LEMMA TailContains ==
  ASSUME NEW S, NEW s \in Seq(S), s # <<>>, NEW d, Contains(s, d), d # Head(s)
  PROVE  Contains(Tail(s), d)
<1> PICK i \in 1 .. Len(s) : s[i] = d
  BY DEF Contains
<1>1. i # 1
  OBVIOUS
<1>2. i - 1 \in 1 .. Len(Tail(s)) /\ Tail(s)[i - 1] = d
  BY <1>1
<1>3. QED
  BY <1>2 DEF Contains

LEMMA AppendContains ==
  ASSUME NEW S, NEW s \in Seq(S), NEW e \in S, NEW d, Contains(s, d) \/ d = e
  PROVE  Contains(Append(s, e), d)
<1>1. CASE d = e
  <2>1. /\ Len(s) + 1 \in 1 .. Len(Append(s, e))
        /\ Append(s, e)[Len(s) + 1] = e
    OBVIOUS
  <2>2. QED
    BY <1>1, <2>1 DEF Contains
<1>2. CASE Contains(s, d)
  <2> PICK i \in 1 .. Len(s) : s[i] = d
    BY <1>2 DEF Contains
  <2>1. i \in 1 .. Len(Append(s, e)) /\ Append(s, e)[i] = d
    OBVIOUS
  <2>2. QED
    BY <2>1 DEF Contains
<1>3. QED
  BY <1>1, <1>2

(* Removing a key's first place leaves every other place, closed up.        *)
LEMMA RemoveFirstIs ==
  ASSUME NEW S, NEW s \in Seq(S), NEW e, Contains(s, e)
  PROVE  /\ RemoveFirst(s, e) \in Seq(S)
         /\ Len(RemoveFirst(s, e)) = Len(s) - 1
         /\ \E n \in 1 .. Len(s) :
              /\ s[n] = e
              /\ \A i \in 1 .. Len(s) - 1 :
                    RemoveFirst(s, e)[i] = IF i < n THEN s[i] ELSE s[i + 1]
<1> DEFINE I == {i \in 1 .. Len(s) : s[i] = e}
           n == Min(I)
<1>1. n \in I
  <2>1. I \in SUBSET Nat /\ I # {}
    BY DEF Contains
  <2> HIDE DEF I
  <2>2. QED
    BY <2>1, LeastExists
<1>2. SelectInSeq(s, LAMBDA v : v = e) = n
  BY <1>1 DEF SelectInSeq
<1>3. RemoveFirst(s, e) = RemoveAt(s, n)
  BY <1>2 DEF RemoveFirst, Contains
<1>4. n \in 1 .. Len(s) /\ s[n] = e
  BY <1>1
<1> HIDE DEF n
<1> DEFINE a == SubSeq(s, 1, n - 1)
           b == SubSeq(s, n + 1, Len(s))
<1>5. /\ a \in Seq(S) /\ Len(a) = n - 1
      /\ \A i \in 1 .. n - 1 : a[i] = s[i]
  BY <1>4
<1>6. /\ b \in Seq(S) /\ Len(b) = Len(s) - n
      /\ \A i \in 1 .. Len(s) - n : b[i] = s[n + i]
  BY <1>4
<1>7. RemoveFirst(s, e) = a \o b
  BY <1>3 DEF RemoveAt
<1> HIDE DEF a, b
<1>8. a \o b \in Seq(S) /\ Len(a \o b) = Len(s) - 1
  <2>1. a \o b \in Seq(S) /\ Len(a \o b) = Len(a) + Len(b)
    BY <1>5, <1>6, ConcatProperties
  <2>2. QED
    BY <1>4, <1>5, <1>6, <2>1
<1>9. ASSUME NEW i \in 1 .. Len(s) - 1
      PROVE  (a \o b)[i] = IF i < n THEN s[i] ELSE s[i + 1]
  <2>1. i \in 1 .. Len(a) + Len(b)
    BY <1>4, <1>5, <1>6
  <2>2. CASE i < n
    <3>1. i <= Len(a) /\ i \in 1 .. n - 1
      BY <1>4, <1>5, <2>2
    <3>2. (a \o b)[i] = a[i]
      BY <1>5, <1>6, <2>1, <3>1, ConcatProperties
    <3>3. QED
      BY <1>5, <2>2, <3>1, <3>2
  <2>3. CASE ~(i < n)
    <3>1. /\ i > Len(a) /\ i - Len(a) = i - n + 1
          /\ i - n + 1 \in 1 .. Len(s) - n /\ n + (i - n + 1) = i + 1
      BY <1>4, <1>5, <2>3
    <3>2. (a \o b)[i] = b[i - Len(a)]
      BY <1>5, <1>6, <2>1, <3>1, ConcatProperties
    <3>3. b[i - n + 1] = s[n + (i - n + 1)]
      BY <1>6, <3>1
    <3>4. QED
      BY <2>3, <3>1, <3>2, <3>3
  <2>4. QED
    BY <2>2, <2>3
<1>10. QED
  BY <1>4, <1>7, <1>8, <1>9

(* So it keeps the other keys, and brings none.                             *)
LEMMA RemoveFirstContains ==
  ASSUME NEW S, NEW s \in Seq(S), NEW e, Contains(s, e)
  PROVE  /\ RemoveFirst(s, e) \in Seq(S)
         /\ \A d : Contains(s, d) /\ d # e => Contains(RemoveFirst(s, e), d)
         /\ \A d : Contains(RemoveFirst(s, e), d) => Contains(s, d)
<1> DEFINE r == RemoveFirst(s, e)
<1>1. r \in Seq(S) /\ Len(r) = Len(s) - 1 /\ Len(s) \in Nat
  BY RemoveFirstIs
<1>2. PICK n \in 1 .. Len(s) :
         /\ s[n] = e
         /\ \A i \in 1 .. Len(s) - 1 : r[i] = IF i < n THEN s[i] ELSE s[i + 1]
  BY RemoveFirstIs
<1> HIDE DEF r
<1>3. ASSUME NEW d, Contains(s, d), d # e PROVE Contains(r, d)
  <2> PICK i \in 1 .. Len(s) : s[i] = d
    BY <1>3 DEF Contains
  <2>1. i # n
    BY <1>2, <1>3
  <2>2. CASE i < n
    <3>1. i \in 1 .. Len(r) /\ r[i] = d
      BY <1>1, <1>2, <2>2
    <3>2. QED
      BY <3>1 DEF Contains
  <2>3. CASE i > n
    <3>1. i - 1 \in 1 .. Len(s) - 1 /\ ~(i - 1 < n) /\ (i - 1) + 1 = i
      BY <1>1, <2>3
    <3>2. r[i - 1] = s[(i - 1) + 1]
      BY <1>2, <3>1
    <3>3. i - 1 \in 1 .. Len(r) /\ r[i - 1] = d
      BY <1>1, <3>1, <3>2
    <3>4. QED
      BY <3>3 DEF Contains
  <2>4. QED
    BY <2>1, <2>2, <2>3
<1>4. ASSUME NEW d, Contains(r, d) PROVE Contains(s, d)
  <2> PICK i \in 1 .. Len(r) : r[i] = d
    BY <1>4 DEF Contains
  <2>1. i \in 1 .. Len(s) /\ i + 1 \in 1 .. Len(s) /\ (s[i] = d \/ s[i + 1] = d)
    BY <1>1, <1>2
  <2>2. QED
    BY <2>1 DEF Contains
<1>5. QED
  BY <1>1, <1>3, <1>4 DEF r

-----------------------------------------------------------------------------
LEMMA IdleIsAThread == Idle \in Thread /\ Idle.at = "idle"
BY WhoisAssumption DEF Idle, Thread, WhoisAssumption

Places == {"idle", "waiting", "sleeping", "query", "check", "pop", "drop",
           "insert", "find", "remove", "append"}

LEMMA WentTo ==
  ASSUME TypeOK, NEW t \in Threads, NEW place \in Places, GoTo(t, place)
  PROVE  /\ thread' \in [Threads -> Thread]
         /\ thread'[t].at = place
         /\ thread'[t].domain = thread[t].domain
         /\ thread'[t].oldest = thread[t].oldest
         /\ thread'[t].left = thread[t].left
         /\ \A u \in Threads : u # t => thread'[u] = thread[u]
<1>1. thread[t] \in Thread
  BY DEF TypeOK
<1> DEFINE q == [thread[t] EXCEPT !.at = place]
<1>2. /\ q \in Thread /\ q.at = place /\ q.domain = thread[t].domain
      /\ q.oldest = thread[t].oldest /\ q.left = thread[t].left
  BY <1>1 DEF Thread, Places
<1>3. thread' = [thread EXCEPT ![t] = q]
  BY DEF GoTo, TypeOK
<1> HIDE DEF q
<1>4. QED
  BY <1>2, <1>3 DEF TypeOK

LEMMA Returned ==
  ASSUME TypeOK, NEW t \in Threads, Return(t)
  PROVE  /\ thread' \in [Threads -> Thread]
         /\ thread'[t] = Idle
         /\ \A u \in Threads : u # t => thread'[u] = thread[u]
BY IdleIsAThread DEF Return, TypeOK

(* What keeps the lock's part of the invariant: no other thread moves, and  *)
(* the one that moves neither falls asleep nor wakes.                       *)
LEMMA SleepKept ==
  ASSUME Inv, NEW t \in Threads,
         \A u \in Threads : u # t => thread'[u] = thread[u],
         ~At(t, "sleeping"), thread'[t].at # "sleeping",
         UNCHANGED <<since, holder>>
  PROVE  SleepsLongEnough'
BY DEF Inv, SleepsLongEnough, At

LEMMA AskedKept ==
  ASSUME Inv, NEW t \in Threads,
         \A u \in Threads : u # t => thread'[u] = thread[u],
         thread'[t].at # "idle" => thread'[t].domain \in Domains,
         thread'[t].at = "drop" => thread'[t].oldest \in Domains
  PROVE  Asked'
BY DEF Inv, Asked, At

(* An entry stays evictable over a step of a thread that is no witness.     *)
LEMMA EvictableKept ==
  ASSUME Inv, NEW t \in Threads,
         \A u \in Threads : u # t => thread'[u] = thread[u],
         thread[t].at \notin {"find", "append", "drop"},
         UNCHANGED <<cache, order>>
  PROVE  Evictable'
<1> SUFFICES ASSUME NEW d \in cache, ~Contains(order, d)
             PROVE  \E u \in Threads :
                       \/ thread'[u].domain = d /\ thread'[u].at \in {"find", "append"}
                       \/ thread'[u].oldest = d /\ thread'[u].at = "drop"
  BY DEF Evictable, At
<1>1. PICK u \in Threads : \/ thread[u].domain = d /\ thread[u].at \in {"find", "append"}
                           \/ thread[u].oldest = d /\ thread[u].at = "drop"
  BY DEF Inv, Evictable, At
<1>2. u # t
  BY <1>1
<1>3. QED
  BY <1>1, <1>2

(* What keeps Inv when a thread only goes somewhere else.                   *)
LEMMA GoingKeepsInv ==
  ASSUME Inv, NEW t \in Threads, NEW place \in Places, GoTo(t, place),
         ~At(t, "idle"), ~At(t, "sleeping"), ~At(t, "drop"),
         place \notin {"sleeping", "drop"},
         cache' \subseteq Domains, fresh' \subseteq cache', order' \in Seq(Domains),
         UNCHANGED <<since, holder>>, overlapped' \in BOOLEAN
  PROVE  TypeOK' /\ Asked' /\ SleepsLongEnough'
<1>1. /\ thread' \in [Threads -> Thread]
      /\ thread'[t].at = place
      /\ thread'[t].domain = thread[t].domain
      /\ \A u \in Threads : u # t => thread'[u] = thread[u]
  BY WentTo DEF Inv
<1>2. TypeOK'
  BY <1>1 DEF Inv, TypeOK
<1>3. thread[t].domain \in Domains
  BY DEF Inv, Asked
<1>4. QED
  BY <1>1, <1>2, <1>3, SleepKept, AskedKept

LEMMA ReturningKeepsInv ==
  ASSUME Inv, NEW t \in Threads, Return(t), ~At(t, "sleeping"),
         UNCHANGED <<cache, fresh, since, holder, overlapped>>,
         order' \in Seq(Domains)
  PROVE  TypeOK' /\ Asked' /\ SleepsLongEnough'
<1>1. /\ thread' \in [Threads -> Thread] /\ thread'[t] = Idle
      /\ \A u \in Threads : u # t => thread'[u] = thread[u]
  BY Returned DEF Inv
<1>2. TypeOK'
  BY <1>1 DEF Inv, TypeOK
<1>3. QED
  BY <1>1, <1>2, IdleIsAThread, SleepKept, AskedKept

LEMMA InitInv == Init => Inv
<1> SUFFICES ASSUME Init PROVE Inv
  OBVIOUS
<1>1. Delay \in 0 .. Delay
  BY WhoisAssumption DEF WhoisAssumption
<1>2. \A t \in Threads : thread[t].at = "idle"
  BY IdleIsAThread DEF Init
<1>3. TypeOK
  <2>1. thread \in [Threads -> Thread]
    BY IdleIsAThread DEF Init
  <2>2. since \in 0 .. Delay
    BY <1>1 DEF Init
  <2>3. overlapped \in BOOLEAN
    BY DEF Init
  <2>4. order \in Seq(Domains)
    BY DEF Init
  <2>5. cache \subseteq Domains /\ fresh \subseteq cache /\ holder \subseteq Threads
    BY DEF Init
  <2>6. QED
    BY <2>1, <2>2, <2>3, <2>4, <2>5 DEF TypeOK
<1>4. Asked /\ SleepsLongEnough /\ Evictable
  BY <1>2 DEF Init, Asked, SleepsLongEnough, Evictable, At
<1>5. QED
  BY <1>3, <1>4 DEF Inv

LEMMA AskKeepsInv ==
  ASSUME Inv, NEW t \in Threads, NEW d \in Domains, Ask(t, d)
  PROVE  Inv'
<1> DEFINE q == [Idle EXCEPT !.at = "waiting", !.domain = d]
<1>1. q \in Thread /\ q.at = "waiting" /\ q.domain = d
  BY IdleIsAThread DEF Thread
<1>2. thread' = [thread EXCEPT ![t] = q]
  BY DEF Ask
<1> HIDE DEF q
<1>3. /\ thread' \in [Threads -> Thread] /\ thread'[t] = q
      /\ \A u \in Threads : u # t => thread'[u] = thread[u]
  BY <1>1, <1>2 DEF Inv, TypeOK
<1>4. UNCHANGED <<cache, fresh, order, since, holder, overlapped>> /\ At(t, "idle")
  BY DEF Ask
<1>5. TypeOK'
  BY <1>3, <1>4 DEF Inv, TypeOK
<1>6. Asked' /\ SleepsLongEnough'
  BY <1>1, <1>3, <1>4, AskedKept, SleepKept DEF At
<1>7. Evictable'
  BY <1>3, <1>4, EvictableKept DEF At
<1>8. QED
  BY <1>5, <1>6, <1>7 DEF Inv

(* The sleep is what is left of the delay, and nobody else sleeps.          *)
LEMMA AcquireKeepsInv ==
  ASSUME Inv, NEW t \in Threads, Acquire(t)
  PROVE  Inv'
<1> DEFINE q == [thread[t] EXCEPT !.at = "sleeping", !.left = Delay - since]
<1>0. thread[t] \in Thread /\ since \in Nat /\ since <= Delay /\ Delay \in Nat
  BY WhoisAssumption DEF Inv, TypeOK, WhoisAssumption
<1>1. Delay - since \in 0 .. Delay
  BY <1>0
<1>2. /\ q \in Thread /\ q.at = "sleeping" /\ q.left = Delay - since
      /\ q.domain = thread[t].domain
  BY <1>0, <1>1 DEF Thread
<1>3. thread' = [thread EXCEPT ![t] = q]
  BY DEF Acquire, Inv, TypeOK
<1> HIDE DEF q
<1>4. /\ thread' \in [Threads -> Thread] /\ thread'[t] = q
      /\ \A u \in Threads : u # t => thread'[u] = thread[u]
  BY <1>2, <1>3 DEF Inv, TypeOK
<1>5. /\ UNCHANGED <<cache, fresh, order, since, overlapped>>
      /\ thread[t].at = "waiting" /\ holder = {} /\ holder' = {t}
  BY DEF Acquire, At
<1>6. TypeOK'
  BY <1>4, <1>5 DEF Inv, TypeOK
<1>7. Asked'
  BY <1>2, <1>4, <1>5, AskedKept DEF Inv, Asked, At
<1>8. \A u \in Threads : thread[u].at # "sleeping"
  BY <1>5 DEF Inv, SleepsLongEnough, At
<1>9. q.left + since >= Delay
  BY <1>0, <1>2
<1>10. SleepsLongEnough'
  <2>1. \A u \in Threads : thread'[u].at = "sleeping" => u = t
    BY <1>4, <1>8
  <2>2. QED
    BY <1>4, <1>5, <1>9, <2>1 DEF SleepsLongEnough, At
<1>11. Evictable'
  BY <1>4, <1>5, EvictableKept
<1>12. QED
  BY <1>6, <1>7, <1>10, <1>11 DEF Inv

LEMMA WakeKeepsInv ==
  ASSUME Inv, NEW t \in Threads, Wake(t)
  PROVE  Inv' /\ since = Delay
<1>1. /\ thread' \in [Threads -> Thread]
      /\ thread'[t].at = "query"
      /\ thread'[t].domain = thread[t].domain
      /\ \A u \in Threads : u # t => thread'[u] = thread[u]
  BY WentTo DEF Wake, Inv, Places
<1>2. /\ UNCHANGED <<cache, fresh, order, overlapped>>
      /\ since' = 0 /\ holder' = holder \ {t}
      /\ thread[t].at = "sleeping" /\ thread[t].left = 0
  BY DEF Wake, At
<1>3. Delay \in Nat /\ since \in 0 .. Delay /\ 0 \in 0 .. Delay
  BY WhoisAssumption DEF Inv, TypeOK, WhoisAssumption
<1>4. TypeOK'
  BY <1>1, <1>2, <1>3 DEF Inv, TypeOK
<1>5. Asked'
  BY <1>1, <1>2, AskedKept DEF Inv, Asked, At
<1>6. holder = {t} /\ thread[t].left + since >= Delay
  BY <1>2 DEF Inv, SleepsLongEnough, At
<1>7. since = Delay
  BY <1>2, <1>3, <1>6
<1>8. \A u \in Threads : u # t => thread[u].at # "sleeping"
  BY <1>6 DEF Inv, SleepsLongEnough, At
<1>9. SleepsLongEnough'
  BY <1>1, <1>8 DEF SleepsLongEnough, At
<1>10. Evictable'
  BY <1>1, <1>2, EvictableKept
<1>11. QED
  BY <1>4, <1>5, <1>7, <1>9, <1>10 DEF Inv

LEMMA QueryKeepsInv ==
  ASSUME Inv, NEW t \in Threads, Query(t)
  PROVE  Inv'
<1>1. /\ thread[t].at = "query" /\ GoTo(t, "check") /\ overlapped' \in BOOLEAN
      /\ UNCHANGED <<cache, fresh, order, since, holder>>
  BY DEF Query, At, Inv, TypeOK
<1>2. TypeOK' /\ Asked' /\ SleepsLongEnough'
  BY <1>1, GoingKeepsInv DEF At, Places, Inv, TypeOK
<1>3. Evictable'
  <2>1. \A u \in Threads : u # t => thread'[u] = thread[u]
    BY <1>1, WentTo DEF Inv, Places
  <2>2. QED
    BY <1>1, <2>1, EvictableKept
<1>4. QED
  BY <1>2, <1>3 DEF Inv

LEMMA CheckFullKeepsInv ==
  ASSUME Inv, NEW t \in Threads, CheckFull(t)
  PROVE  Inv'
<1>1. PICK place \in {"pop", "insert"} :
         /\ thread[t].at = "check" /\ GoTo(t, place)
         /\ UNCHANGED <<cache, fresh, order, since, holder, overlapped>>
  BY DEF CheckFull, At
<1>2. TypeOK' /\ Asked' /\ SleepsLongEnough'
  BY <1>1, GoingKeepsInv DEF At, Places, Inv, TypeOK
<1>3. Evictable'
  <2>1. \A u \in Threads : u # t => thread'[u] = thread[u]
    BY <1>1, WentTo DEF Inv, Places
  <2>2. QED
    BY <1>1, <2>1, EvictableKept
<1>4. QED
  BY <1>2, <1>3 DEF Inv

(* The key taken off the list stays with the thread, which drops its entry. *)
LEMMA PopOldestKeepsInv ==
  ASSUME Inv, NEW t \in Threads, PopOldest(t)
  PROVE  Inv'
<1> DEFINE q == [thread[t] EXCEPT !.at = "drop", !.oldest = Head(order)]
<1>0. thread[t] \in Thread /\ order \in Seq(Domains) /\ order # <<>>
  BY DEF PopOldest, Inv, TypeOK
<1>1. Head(order) \in Domains /\ Tail(order) \in Seq(Domains)
  BY <1>0
<1>2. /\ q \in Thread /\ q.at = "drop" /\ q.oldest = Head(order)
      /\ q.domain = thread[t].domain
  BY <1>0, <1>1 DEF Thread
<1>3. thread' = [thread EXCEPT ![t] = q]
  BY DEF PopOldest, Inv, TypeOK
<1> HIDE DEF q
<1>4. /\ thread' \in [Threads -> Thread] /\ thread'[t] = q
      /\ \A u \in Threads : u # t => thread'[u] = thread[u]
  BY <1>2, <1>3 DEF Inv, TypeOK
<1>5. /\ UNCHANGED <<cache, fresh, since, holder, overlapped>>
      /\ thread[t].at = "pop" /\ order' = Tail(order)
  BY DEF PopOldest, At
<1>6. TypeOK'
  BY <1>1, <1>4, <1>5 DEF Inv, TypeOK
<1>7. Asked'
  BY <1>1, <1>2, <1>4, <1>5, AskedKept DEF Inv, Asked, At
<1>8. SleepsLongEnough'
  BY <1>2, <1>4, <1>5, SleepKept DEF At
<1>9. Evictable'
  <2> SUFFICES ASSUME NEW d \in cache, ~Contains(order', d)
               PROVE  \E u \in Threads :
                         \/ thread'[u].domain = d /\ thread'[u].at \in {"find", "append"}
                         \/ thread'[u].oldest = d /\ thread'[u].at = "drop"
    BY <1>5 DEF Evictable, At
  <2>1. CASE d = Head(order)
    BY <1>2, <1>4, <2>1
  <2>2. CASE d # Head(order)
    <3>1. ~Contains(order, d)
      BY <1>0, <1>5, <2>2, TailContains
    <3>2. PICK u \in Threads :
             \/ thread[u].domain = d /\ thread[u].at \in {"find", "append"}
             \/ thread[u].oldest = d /\ thread[u].at = "drop"
      BY <3>1 DEF Inv, Evictable, At
    <3>3. QED
      BY <1>4, <1>5, <3>2
  <2>3. QED
    BY <2>1, <2>2
<1>10. QED
  BY <1>6, <1>7, <1>8, <1>9 DEF Inv

LEMMA PopNothingKeepsInv ==
  ASSUME Inv, NEW t \in Threads, PopNothing(t)
  PROVE  Inv'
<1>1. /\ thread[t].at = "pop" /\ Return(t)
      /\ UNCHANGED <<cache, fresh, order, since, holder, overlapped>>
  BY DEF PopNothing, At
<1>2. TypeOK' /\ Asked' /\ SleepsLongEnough'
  BY <1>1, ReturningKeepsInv DEF At, Inv, TypeOK
<1>3. Evictable'
  <2>1. \A u \in Threads : u # t => thread'[u] = thread[u]
    BY <1>1, Returned DEF Inv
  <2>2. QED
    BY <1>1, <2>1, EvictableKept
<1>4. QED
  BY <1>2, <1>3 DEF Inv

LEMMA DropKeepsInv ==
  ASSUME Inv, NEW t \in Threads, Drop(t)
  PROVE  Inv'
<1> DEFINE q == [thread[t] EXCEPT !.at = "insert", !.oldest = NoDomain]
<1>0. thread[t] \in Thread
  BY DEF Inv, TypeOK
<1>1. /\ q \in Thread /\ q.at = "insert" /\ q.domain = thread[t].domain
  BY <1>0 DEF Thread
<1>2. thread' = [thread EXCEPT ![t] = q]
  BY DEF Drop, Inv, TypeOK
<1> HIDE DEF q
<1>3. /\ thread' \in [Threads -> Thread] /\ thread'[t] = q
      /\ \A u \in Threads : u # t => thread'[u] = thread[u]
  BY <1>1, <1>2 DEF Inv, TypeOK
<1>4. /\ UNCHANGED <<order, since, holder, overlapped>> /\ thread[t].at = "drop"
      /\ cache' = cache \ {thread[t].oldest}
      /\ fresh' = fresh \ {thread[t].oldest}
  BY DEF Drop, At
<1>5. TypeOK'
  BY <1>3, <1>4 DEF Inv, TypeOK
<1>6. Asked'
  BY <1>1, <1>3, <1>4, AskedKept DEF Inv, Asked, At
<1>7. SleepsLongEnough'
  BY <1>1, <1>3, <1>4, SleepKept DEF At
<1>8. Evictable'
  <2> SUFFICES ASSUME NEW d \in cache', ~Contains(order, d)
               PROVE  \E u \in Threads :
                         \/ thread'[u].domain = d /\ thread'[u].at \in {"find", "append"}
                         \/ thread'[u].oldest = d /\ thread'[u].at = "drop"
    BY <1>4 DEF Evictable, At
  <2>1. PICK u \in Threads :
           \/ thread[u].domain = d /\ thread[u].at \in {"find", "append"}
           \/ thread[u].oldest = d /\ thread[u].at = "drop"
    BY <1>4 DEF Inv, Evictable, At
  <2>2. QED
    BY <1>3, <1>4, <2>1
<1>9. QED
  BY <1>5, <1>6, <1>7, <1>8 DEF Inv

(* The steps that store an entry: it has its thread as witness until its    *)
(* key is on the list.                                                      *)
LEMMA InsertKeepsInv ==
  ASSUME Inv, NEW t \in Threads, Insert(t)
  PROVE  Inv'
<1>1. /\ thread[t].at = "insert" /\ GoTo(t, "find")
      /\ UNCHANGED <<order, since, holder, overlapped>>
      /\ cache' = cache \cup {thread[t].domain}
      /\ fresh' = fresh \cup {thread[t].domain}
  BY DEF Insert, At
<1>2. thread[t].domain \in Domains
  BY <1>1 DEF Inv, Asked, At
<1>3. TypeOK' /\ Asked' /\ SleepsLongEnough'
  BY <1>1, <1>2, GoingKeepsInv DEF At, Places, Inv, TypeOK
<1>4. /\ thread'[t].at = "find" /\ thread'[t].domain = thread[t].domain
      /\ \A u \in Threads : u # t => thread'[u] = thread[u]
  BY <1>1, WentTo DEF Inv, Places
<1>5. Evictable'
  <2> SUFFICES ASSUME NEW d \in cache', ~Contains(order, d)
               PROVE  \E u \in Threads :
                         \/ thread'[u].domain = d /\ thread'[u].at \in {"find", "append"}
                         \/ thread'[u].oldest = d /\ thread'[u].at = "drop"
    BY <1>1 DEF Evictable, At
  <2>1. CASE d = thread[t].domain
    BY <1>4, <2>1
  <2>2. CASE d # thread[t].domain
    <3>1. PICK u \in Threads :
             \/ thread[u].domain = d /\ thread[u].at \in {"find", "append"}
             \/ thread[u].oldest = d /\ thread[u].at = "drop"
      BY <1>1, <2>2 DEF Inv, Evictable, At
    <3>2. QED
      BY <1>1, <1>4, <3>1
  <2>3. QED
    BY <2>1, <2>2
<1>6. QED
  BY <1>3, <1>5 DEF Inv

LEMMA FindKeepsInv ==
  ASSUME Inv, NEW t \in Threads, Find(t)
  PROVE  Inv'
<1> DEFINE place == IF Contains(order, thread[t].domain) THEN "remove" ELSE "append"
<1>1. /\ thread[t].at = "find" /\ GoTo(t, place) /\ place \in {"remove", "append"}
      /\ UNCHANGED <<cache, fresh, order, since, holder, overlapped>>
  BY DEF Find, At
<1>2. Contains(order, thread[t].domain) \/ place = "append"
  OBVIOUS
<1> HIDE DEF place
<1>3. TypeOK' /\ Asked' /\ SleepsLongEnough'
  BY <1>1, GoingKeepsInv DEF At, Places, Inv, TypeOK
<1>4. /\ thread'[t].at = place /\ thread'[t].domain = thread[t].domain
      /\ \A u \in Threads : u # t => thread'[u] = thread[u]
  BY <1>1, WentTo DEF Inv, Places
<1>5. Evictable'
  <2> SUFFICES ASSUME NEW d \in cache, ~Contains(order, d)
               PROVE  \E u \in Threads :
                         \/ thread'[u].domain = d /\ thread'[u].at \in {"find", "append"}
                         \/ thread'[u].oldest = d /\ thread'[u].at = "drop"
    BY <1>1 DEF Evictable, At
  <2>1. PICK u \in Threads :
           \/ thread[u].domain = d /\ thread[u].at \in {"find", "append"}
           \/ thread[u].oldest = d /\ thread[u].at = "drop"
    BY DEF Inv, Evictable, At
  <2>2. QED
    BY <1>1, <1>2, <1>4, <2>1
<1>6. QED
  BY <1>3, <1>5 DEF Inv

LEMMA RemoveKeyKeepsInv ==
  ASSUME Inv, NEW t \in Threads, RemoveKey(t)
  PROVE  Inv'
<1>1. /\ thread[t].at = "remove" /\ GoTo(t, "append")
      /\ UNCHANGED <<cache, fresh, since, holder, overlapped>>
      /\ Contains(order, thread[t].domain)
      /\ order' = RemoveFirst(order, thread[t].domain)
  BY DEF RemoveKey, At
<1>2. /\ order' \in Seq(Domains)
      /\ \A d : Contains(order, d) /\ d # thread[t].domain => Contains(order', d)
  BY <1>1, RemoveFirstContains DEF Inv, TypeOK
<1>3. TypeOK' /\ Asked' /\ SleepsLongEnough'
  BY <1>1, <1>2, GoingKeepsInv DEF At, Places, Inv, TypeOK
<1>4. /\ thread'[t].at = "append" /\ thread'[t].domain = thread[t].domain
      /\ \A u \in Threads : u # t => thread'[u] = thread[u]
  BY <1>1, WentTo DEF Inv, Places
<1>5. Evictable'
  <2> SUFFICES ASSUME NEW d \in cache, ~Contains(order', d)
               PROVE  \E u \in Threads :
                         \/ thread'[u].domain = d /\ thread'[u].at \in {"find", "append"}
                         \/ thread'[u].oldest = d /\ thread'[u].at = "drop"
    BY <1>1 DEF Evictable, At
  <2>1. CASE d = thread[t].domain
    BY <1>4, <2>1
  <2>2. CASE d # thread[t].domain
    <3>1. PICK u \in Threads :
             \/ thread[u].domain = d /\ thread[u].at \in {"find", "append"}
             \/ thread[u].oldest = d /\ thread[u].at = "drop"
      BY <1>2, <2>2 DEF Inv, Evictable, At
    <3>2. QED
      BY <1>1, <1>4, <3>1
  <2>3. QED
    BY <2>1, <2>2
<1>6. QED
  BY <1>3, <1>5 DEF Inv

LEMMA RemoveGoneKeepsInv ==
  ASSUME Inv, NEW t \in Threads, RemoveGone(t)
  PROVE  Inv'
<1>1. /\ thread[t].at = "remove" /\ Return(t)
      /\ UNCHANGED <<cache, fresh, order, since, holder, overlapped>>
  BY DEF RemoveGone, At
<1>2. TypeOK' /\ Asked' /\ SleepsLongEnough'
  BY <1>1, ReturningKeepsInv DEF At, Inv, TypeOK
<1>3. Evictable'
  <2>1. \A u \in Threads : u # t => thread'[u] = thread[u]
    BY <1>1, Returned DEF Inv
  <2>2. QED
    BY <1>1, <2>1, EvictableKept
<1>4. QED
  BY <1>2, <1>3 DEF Inv

LEMMA AppendKeyKeepsInv ==
  ASSUME Inv, NEW t \in Threads, AppendKey(t)
  PROVE  Inv'
<1>1. /\ thread[t].at = "append" /\ Return(t)
      /\ UNCHANGED <<cache, fresh, since, holder, overlapped>>
      /\ order' = Append(order, thread[t].domain)
  BY DEF AppendKey, At
<1>2. thread[t].domain \in Domains /\ order \in Seq(Domains)
  BY <1>1 DEF Inv, Asked, At, TypeOK
<1>3. TypeOK' /\ Asked' /\ SleepsLongEnough'
  BY <1>1, <1>2, ReturningKeepsInv DEF At
<1>4. \A u \in Threads : u # t => thread'[u] = thread[u]
  BY <1>1, Returned DEF Inv
<1>5. Evictable'
  <2> SUFFICES ASSUME NEW d \in cache, ~Contains(order', d)
               PROVE  \E u \in Threads :
                         \/ thread'[u].domain = d /\ thread'[u].at \in {"find", "append"}
                         \/ thread'[u].oldest = d /\ thread'[u].at = "drop"
    BY <1>1 DEF Evictable, At
  <2>1. ~Contains(order, d) /\ d # thread[t].domain
    BY <1>1, <1>2, AppendContains
  <2>2. PICK u \in Threads :
           \/ thread[u].domain = d /\ thread[u].at \in {"find", "append"}
           \/ thread[u].oldest = d /\ thread[u].at = "drop"
    BY <2>1 DEF Inv, Evictable, At
  <2>3. QED
    BY <1>1, <1>4, <2>1, <2>2
<1>6. QED
  BY <1>3, <1>5 DEF Inv

(* Time shortens a sleep as much as it lengthens what has passed.           *)
LEMMA TickKeepsInv ==
  ASSUME Inv, Tick
  PROVE  Inv'
<1> DEFINE q(t) == [thread[t] EXCEPT !.left = IF @ > 0 THEN @ - 1 ELSE @]
<1>0. Delay \in Nat /\ since \in 0 .. Delay
  BY WhoisAssumption DEF Inv, TypeOK, WhoisAssumption
<1>1. ASSUME NEW t \in Threads
      PROVE  /\ q(t) \in Thread /\ q(t).at = thread[t].at
             /\ q(t).domain = thread[t].domain /\ q(t).oldest = thread[t].oldest
             /\ q(t).left = IF thread[t].left > 0 THEN thread[t].left - 1
                            ELSE thread[t].left
             /\ thread[t].left \in 0 .. Delay
  <2>1. thread[t] \in Thread
    BY DEF Inv, TypeOK
  <2>2. thread[t].left \in 0 .. Delay
    BY <2>1 DEF Thread
  <2>3. (IF thread[t].left > 0 THEN thread[t].left - 1 ELSE thread[t].left) \in 0 .. Delay
    BY <1>0, <2>2
  <2>4. QED
    BY <2>1, <2>2, <2>3 DEF Thread
<1>2. /\ UNCHANGED <<cache, fresh, order, holder, overlapped>>
      /\ since' = IF since < Delay THEN since + 1 ELSE since
      /\ thread' = [t \in Threads |-> q(t)]
  BY DEF Tick
<1> HIDE DEF q
<1>3. since' \in 0 .. Delay
  BY <1>0, <1>2
<1>4. TypeOK'
  BY <1>1, <1>2, <1>3 DEF Inv, TypeOK
<1>5. \A t \in Threads : /\ thread'[t].at = thread[t].at
                         /\ thread'[t].domain = thread[t].domain
                         /\ thread'[t].oldest = thread[t].oldest
  BY <1>1, <1>2
<1>6. Asked' /\ Evictable'
  BY <1>2, <1>5 DEF Inv, Asked, Evictable, At
<1>7. ASSUME NEW t \in Threads, thread[t].left + since >= Delay
      PROVE  thread'[t].left + since' >= Delay
  <2>1. thread'[t].left = IF thread[t].left > 0 THEN thread[t].left - 1
                          ELSE thread[t].left
    BY <1>1, <1>2
  <2>2. thread[t].left \in 0 .. Delay
    BY <1>1
  <2>3. QED
    BY <1>0, <1>2, <1>7, <2>1, <2>2
<1>8. SleepsLongEnough'
  BY <1>2, <1>5, <1>7 DEF Inv, SleepsLongEnough, At
<1>9. QED
  BY <1>4, <1>6, <1>8 DEF Inv

LEMMA StepKeepsInv == Inv /\ [Next]_vars => Inv'
<1> SUFFICES ASSUME Inv, [Next]_vars PROVE Inv'
  OBVIOUS
<1>1. ASSUME NEW t \in Threads, Store(t) PROVE Inv'
  BY <1>1, CheckFullKeepsInv, PopOldestKeepsInv, PopNothingKeepsInv, DropKeepsInv,
     InsertKeepsInv, FindKeepsInv, RemoveKeyKeepsInv, RemoveGoneKeepsInv,
     AppendKeyKeepsInv DEF Store
<1>2. ASSUME NEW d \in Domains, Expire(d) PROVE Inv'
  BY <1>2 DEF Expire, Inv, TypeOK, Asked, SleepsLongEnough, Evictable, At
<1>3. CASE UNCHANGED vars
  BY <1>3 DEF vars, Inv, TypeOK, Asked, SleepsLongEnough, Evictable, At
<1>4. QED
  BY <1>1, <1>2, <1>3, AskKeepsInv, AcquireKeepsInv, WakeKeepsInv, QueryKeepsInv,
     TickKeepsInv DEF Next

LEMMA Invariance == Spec => []Inv
BY InitInv, StepKeepsInv, PTL DEF Spec

(* The state keeps its type.                                                *)
THEOREM TypeCorrect == Spec => []TypeOK
<1>1. Inv => TypeOK
  BY DEF Inv
<1>2. QED
  BY <1>1, Invariance, PTL

(* For every number of threads and every size: no entry is there for ever.  *)
THEOREM EntriesStayEvictable == Spec => []Evictable
<1>1. Inv => Evictable
  BY DEF Inv
<1>2. QED
  BY <1>1, Invariance, PTL

-----------------------------------------------------------------------------
(* A thread that leaves its sleep for the query has woken.                  *)
LEMMA OnlyWakeQueries ==
  ASSUME Inv, [Next]_vars, NEW t \in Threads,
         thread[t].at = "sleeping", thread'[t].at = "query"
  PROVE  Wake(t)
<1>0. thread \in [Threads -> Thread]
  BY DEF Inv, TypeOK
<1>1. ASSUME NEW u \in Threads, u # t, thread'[t] = thread[t] PROVE FALSE
  BY <1>1
<1>2. ASSUME NEW u \in Threads, NEW d \in Domains, Ask(u, d) PROVE FALSE
  BY <1>0, <1>2 DEF Ask, At
<1>3. ASSUME NEW u \in Threads, Acquire(u) PROVE FALSE
  BY <1>0, <1>3 DEF Acquire, At
<1>4. ASSUME NEW u \in Threads, Query(u) PROVE FALSE
  BY <1>0, <1>4 DEF Query, At, GoTo
<1>5. ASSUME NEW u \in Threads, Store(u) PROVE FALSE
  BY <1>0, <1>5 DEF Store, CheckFull, PopOldest, PopNothing, Drop, Insert, Find,
                    RemoveKey, RemoveGone, AppendKey, At, GoTo, Return
<1>6. CASE Tick
  <2>1. thread'[t] = [thread[t] EXCEPT !.left = IF @ > 0 THEN @ - 1 ELSE @]
    BY <1>6 DEF Tick
  <2>2. thread[t] \in Thread
    BY <1>0
  <2>3. thread'[t].at = thread[t].at
    BY <2>1, <2>2 DEF Thread
  <2>4. QED
    BY <2>3
<1>7. ASSUME NEW u \in Threads, Wake(u) PROVE u = t
  BY <1>0, <1>7 DEF Wake, GoTo, At
<1>8. QED
  BY <1>2, <1>3, <1>4, <1>5, <1>6, <1>7 DEF Next, Expire, vars

(* However many threads wait, and whatever they were asked for, at least    *)
(* the delay lies between two turns.                                        *)
THEOREM RateLimitHolds == Spec => TurnsSpaced
<1> DEFINE Goes == \A t \in Threads :
                      At(t, "sleeping") /\ At(t, "query")' => since = Delay
<1>1. Inv /\ [Next]_vars => [Goes]_vars
  <2> SUFFICES ASSUME Inv, [Next]_vars, NEW t \in Threads,
                      thread[t].at = "sleeping", thread'[t].at = "query"
               PROVE  since = Delay
    BY DEF At
  <2>1. QED
    BY OnlyWakeQueries, WakeKeepsInv
<1>2. QED
  BY <1>1, Invariance, PTL DEF Spec, TurnsSpaced

-----------------------------------------------------------------------------
(* The list and the cache.  What a list of keys without duplicates becomes. *)

Distinct(s) == \A i, j \in 1 .. Len(s) : s[i] = s[j] => i = j

LEMMA DistinctCounts ==
  ASSUME NEW S, NEW s \in Seq(S), Distinct(s)
  PROVE  Cardinality(ToSet(s)) = Len(s)
<1> DEFINE n == Len(s)
           f == [i \in 1 .. n |-> s[i]]
<1>1. n \in Nat /\ ToSet(s) = {s[i] : i \in 1 .. n}
  BY DEF ToSet
<1>2. f \in Bijection(1 .. n, ToSet(s))
  BY <1>1 DEF Distinct, Bijection, Injection, Surjection, IsInjective
<1>3. ExistsBijection(1 .. n, ToSet(s))
  BY <1>2 DEF ExistsBijection
<1>4. IsFiniteSet(1 .. n) /\ Cardinality(1 .. n) = n
  <2>1. 1 \in Int /\ n \in Int /\ (1 > n => n = 0) /\ n - 1 + 1 = n
    BY <1>1
  <2>2. QED
    BY <2>1, FS_Interval
<1> HIDE DEF n
<1>5. QED
  BY <1>3, <1>4, FS_Bijection, Zenon DEF n

LEMMA TailDistinct ==
  ASSUME NEW S, NEW s \in Seq(S), s # <<>>, Distinct(s)
  PROVE  /\ Distinct(Tail(s)) /\ Len(Tail(s)) = Len(s) - 1
         /\ \A d : Contains(Tail(s), d) <=> Contains(s, d) /\ d # Head(s)
<1> DEFINE r == Tail(s)
<1>1. /\ Len(s) \in Nat \ {0} /\ Len(r) = Len(s) - 1 /\ Head(s) = s[1]
      /\ \A i \in 1 .. Len(s) - 1 : r[i] = s[i + 1]
  OBVIOUS
<1> HIDE DEF r
<1>2. Distinct(r)
  <2> SUFFICES ASSUME NEW i \in 1 .. Len(r), NEW j \in 1 .. Len(r), r[i] = r[j]
               PROVE  i = j
    BY DEF Distinct
  <2>1. i + 1 \in 1 .. Len(s) /\ j + 1 \in 1 .. Len(s) /\ s[i + 1] = s[j + 1]
    BY <1>1
  <2>2. i + 1 = j + 1
    BY <2>1 DEF Distinct
  <2>3. QED
    BY <1>1, <2>2
<1>3. ASSUME NEW d, Contains(r, d) PROVE Contains(s, d) /\ d # Head(s)
  <2> PICK i \in 1 .. Len(r) : r[i] = d
    BY <1>3 DEF Contains
  <2>1. i + 1 \in 1 .. Len(s) /\ s[i + 1] = d /\ i + 1 # 1 /\ 1 \in 1 .. Len(s)
    BY <1>1
  <2>2. s[i + 1] # s[1]
    BY <2>1 DEF Distinct
  <2>3. QED
    BY <1>1, <2>1, <2>2 DEF Contains
<1>4. QED
  BY <1>1, <1>2, <1>3, TailContains DEF r

LEMMA RemoveDistinct ==
  ASSUME NEW S, NEW s \in Seq(S), NEW e, Contains(s, e), Distinct(s)
  PROVE  /\ Distinct(RemoveFirst(s, e)) /\ Len(RemoveFirst(s, e)) = Len(s) - 1
         /\ ~Contains(RemoveFirst(s, e), e)
<1> DEFINE r == RemoveFirst(s, e)
<1>1. Len(r) = Len(s) - 1 /\ Len(s) \in Nat
  BY RemoveFirstIs
<1>2. PICK n \in 1 .. Len(s) :
         /\ s[n] = e
         /\ \A i \in 1 .. Len(s) - 1 : r[i] = IF i < n THEN s[i] ELSE s[i + 1]
  BY RemoveFirstIs
<1> HIDE DEF r
<1> DEFINE from(i) == IF i < n THEN i ELSE i + 1
<1>3. ASSUME NEW i \in 1 .. Len(r)
      PROVE  from(i) \in 1 .. Len(s) /\ from(i) # n /\ r[i] = s[from(i)]
  BY <1>1, <1>2
<1>4. ASSUME NEW i \in 1 .. Len(r), NEW j \in 1 .. Len(r), from(i) = from(j)
      PROVE  i = j
  BY <1>1, <1>4
<1> HIDE DEF from
<1>5. Distinct(r)
  BY <1>3, <1>4 DEF Distinct
<1>6. ASSUME Contains(r, e) PROVE FALSE
  <2> PICK i \in 1 .. Len(r) : r[i] = e
    BY <1>6 DEF Contains
  <2>1. s[from(i)] = s[n] /\ from(i) # n /\ from(i) \in 1 .. Len(s)
    BY <1>2, <1>3
  <2>2. QED
    BY <2>1 DEF Distinct
<1>7. QED
  BY <1>1, <1>5, <1>6 DEF r

LEMMA AppendDistinct ==
  ASSUME NEW S, NEW s \in Seq(S), NEW e \in S, ~Contains(s, e), Distinct(s)
  PROVE  /\ Distinct(Append(s, e)) /\ Len(Append(s, e)) = Len(s) + 1
         /\ \A d : Contains(Append(s, e), d) <=> Contains(s, d) \/ d = e
<1> DEFINE r == Append(s, e)
<1>1. /\ Len(s) \in Nat /\ Len(r) = Len(s) + 1 /\ r[Len(s) + 1] = e
      /\ \A i \in 1 .. Len(s) : r[i] = s[i]
  OBVIOUS
<1> HIDE DEF r
<1>2. \A i \in 1 .. Len(r) : i \in 1 .. Len(s) \/ i = Len(s) + 1
  BY <1>1
<1>3. \A i \in 1 .. Len(s) : s[i] # e
  BY DEF Contains
<1>4. Distinct(r)
  BY <1>1, <1>2, <1>3 DEF Distinct
<1>5. ASSUME NEW d, Contains(r, d) PROVE Contains(s, d) \/ d = e
  BY <1>1, <1>2, <1>5 DEF Contains
<1>6. QED
  BY <1>1, <1>4, <1>5, AppendContains DEF r

-----------------------------------------------------------------------------
(* As long as no two threads store at once, the list holds the keys of the  *)
(* cache, but for the one key the storing thread has in hand.               *)

StoringPlaces == {"check", "pop", "drop", "insert", "find", "remove", "append"}

Lists(s, keys) == \A d \in Domains : d \in keys <=> Contains(s, d)

(* What holds while thread t stores: the key it drops is off the list, the  *)
(* key it inserts may not be on it, and there is room for it.               *)
Stage(t) ==
    /\ thread[t].at \in {"check", "pop", "insert", "remove"} => Lists(order, cache)
    /\ At(t, "drop") => Lists(order, cache \ {thread[t].oldest})
    /\ thread[t].at \in {"find", "append"} =>
          /\ thread[t].domain \in cache
          /\ \A d \in Domains : d # thread[t].domain => (d \in cache <=> Contains(order, d))
    /\ At(t, "append") => ~Contains(order, thread[t].domain)
    /\ thread[t].at \in {"drop", "insert", "find", "remove", "append"} =>
          Len(order) < MaxSize

Coherent ==
    /\ \A t, u \in Threads : Storing(t) /\ Storing(u) => t = u
    /\ \A t \in Threads : Storing(t) => Stage(t)
    /\ (\A t \in Threads : ~Storing(t)) => Lists(order, cache)
    /\ Distinct(order)
    /\ Len(order) <= MaxSize

Alone == ~overlapped => Coherent

LEMMA ListsCounts ==
  ASSUME TypeOK, Lists(order, cache), Distinct(order)
  PROVE  ToSet(order) = cache /\ Cardinality(cache) = Len(order)
<1>1. order \in Seq(Domains) /\ cache \subseteq Domains
  BY DEF TypeOK
<1>2. \A d : d \in ToSet(order) <=> Contains(order, d)
  BY <1>1 DEF ToSet, Contains
<1>3. \A d : Contains(order, d) => d \in Domains
  BY <1>1 DEF Contains
<1>4. ToSet(order) = cache
  BY <1>1, <1>2, <1>3 DEF Lists
<1>5. QED
  BY <1>1, <1>4, DistinctCounts

LEMMA AloneBegins == Init => Alone
<1> SUFFICES ASSUME Init PROVE Coherent
  BY DEF Alone
<1>1. \A t \in Threads : ~Storing(t)
  BY IdleIsAThread DEF Init, Storing
<1>2. cache = {} /\ order = <<>>
  BY DEF Init
<1>3. Len(order) = 0 /\ 0 <= MaxSize
  BY <1>2, WhoisAssumption DEF WhoisAssumption
<1>4. Lists(order, cache) /\ Distinct(order)
  BY <1>2, <1>3 DEF Lists, Distinct, Contains
<1>5. QED
  BY <1>1, <1>3, <1>4 DEF Coherent

(* A step that touches neither the cache nor the list, nor a storing thread *)
(* but for its clock, brings no thread to store.                            *)
LEMMA AloneKept ==
  ASSUME Alone, UNCHANGED <<cache, order, overlapped>>,
         \A u \in Threads : \/ /\ thread'[u].at = thread[u].at
                                /\ thread'[u].domain = thread[u].domain
                                /\ thread'[u].oldest = thread[u].oldest
                             \/ /\ thread[u].at \notin StoringPlaces
                                /\ thread'[u].at \notin StoringPlaces
  PROVE  Alone'
<1> SUFFICES ASSUME ~overlapped PROVE Coherent'
  BY DEF Alone
<1>1. Coherent
  BY DEF Alone
<1>2. \A u \in Threads : Storing(u)' <=> Storing(u)
  BY DEF Storing, StoringPlaces
<1>3. ASSUME NEW u \in Threads, Storing(u) PROVE Stage(u)'
  <2>1. /\ thread'[u].at = thread[u].at /\ thread'[u].domain = thread[u].domain
        /\ thread'[u].oldest = thread[u].oldest
    BY <1>3 DEF Storing, StoringPlaces
  <2>2. Stage(u)
    BY <1>1, <1>3 DEF Coherent
  <2>3. QED
    BY <2>1, <2>2 DEF Stage, At, Lists
<1>4. QED
  BY <1>1, <1>2, <1>3 DEF Coherent, Lists, Distinct

(* A step of the one thread that stores. *)
LEMMA StoresAlone ==
  ASSUME Alone, UNCHANGED overlapped, NEW t \in Threads, Storing(t),
         \A u \in Threads : u # t => thread'[u] = thread[u],
         Coherent => /\ Distinct(order') /\ Len(order') <= MaxSize
                     /\ IF Storing(t)' THEN Stage(t)' ELSE Lists(order', cache')
  PROVE  Alone'
<1> SUFFICES ASSUME ~overlapped PROVE Coherent'
  BY DEF Alone
<1>1. Coherent
  BY DEF Alone
<1>2. \A u \in Threads : Storing(u)' => u = t
  BY <1>1 DEF Coherent, Storing
<1>3. QED
  BY <1>1, <1>2 DEF Coherent, Lists, Distinct

(* A thread begins to store only when no other does, or they overlap.       *)
LEMMA QueryKeepsAlone ==
  ASSUME Inv, Alone, NEW t \in Threads, Query(t)
  PROVE  Alone'
<1> SUFFICES ASSUME ~overlapped' PROVE Coherent'
  BY DEF Alone
<1>1. ~overlapped /\ \A u \in Threads : ~Storing(u)
  BY DEF Query
<1>2. Coherent /\ Lists(order, cache)
  BY <1>1 DEF Alone, Coherent
<1>3. GoTo(t, "check") /\ UNCHANGED <<cache, order>>
  BY DEF Query
<1>4. /\ thread'[t].at = "check"
      /\ \A u \in Threads : u # t => thread'[u] = thread[u]
  BY <1>3, WentTo DEF Inv, Places
<1>5. \A u \in Threads : Storing(u)' <=> u = t
  BY <1>1, <1>4 DEF Storing
<1>6. Stage(t)'
  BY <1>2, <1>3, <1>4 DEF Stage, At, Lists
<1>7. QED
  BY <1>2, <1>3, <1>5, <1>6 DEF Coherent, Distinct

LEMMA CheckFullKeepsAlone ==
  ASSUME Inv, Alone, NEW t \in Threads, CheckFull(t)
  PROVE  Alone'
<1> DEFINE place == IF Cardinality(cache) >= MaxSize THEN "pop" ELSE "insert"
<1>1. /\ thread[t].at = "check" /\ GoTo(t, place) /\ place \in {"pop", "insert"}
      /\ UNCHANGED <<cache, order, overlapped>>
  BY DEF CheckFull, At
<1>2. place = "insert" => ~(Cardinality(cache) >= MaxSize)
  OBVIOUS
<1> HIDE DEF place
<1>3. /\ thread'[t].at = place
      /\ \A u \in Threads : u # t => thread'[u] = thread[u]
  BY <1>1, WentTo DEF Inv, Places
<1>4. Storing(t)
  BY <1>1 DEF Storing
<1>5. ASSUME Coherent
      PROVE  Distinct(order') /\ Len(order') <= MaxSize /\ Stage(t)'
  <2>1. Lists(order, cache) /\ Distinct(order) /\ Len(order) <= MaxSize
    BY <1>1, <1>4, <1>5 DEF Coherent, Stage
  <2>2. Cardinality(cache) = Len(order) /\ Len(order) \in Nat /\ MaxSize \in Nat
    BY <2>1, ListsCounts, WhoisAssumption DEF Inv, TypeOK, WhoisAssumption
  <2>3. place = "insert" => Len(order) < MaxSize
    BY <1>2, <2>2
  <2>4. QED
    BY <1>1, <1>3, <2>1, <2>3 DEF Stage, At, Lists, Distinct
<1>6. Storing(t)'
  BY <1>1, <1>3 DEF Storing
<1>7. QED
  BY <1>1, <1>3, <1>4, <1>5, <1>6, StoresAlone

LEMMA PopOldestKeepsAlone ==
  ASSUME Inv, Alone, NEW t \in Threads, PopOldest(t)
  PROVE  Alone'
<1> DEFINE q == [thread[t] EXCEPT !.at = "drop", !.oldest = Head(order)]
<1>0. thread[t] \in Thread /\ order \in Seq(Domains) /\ order # <<>>
  BY DEF PopOldest, Inv, TypeOK
<1>1. q.at = "drop" /\ q.oldest = Head(order)
  BY <1>0 DEF Thread
<1>2. /\ thread' = [thread EXCEPT ![t] = q] /\ thread[t].at = "pop"
      /\ order' = Tail(order) /\ UNCHANGED <<cache, overlapped>>
  BY DEF PopOldest, Inv, TypeOK, At
<1> HIDE DEF q
<1>3. /\ thread'[t] = q
      /\ \A u \in Threads : u # t => thread'[u] = thread[u]
  BY <1>2 DEF Inv, TypeOK
<1>4. Storing(t) /\ Storing(t)'
  BY <1>1, <1>2, <1>3 DEF Storing
<1>5. ASSUME Coherent
      PROVE  Distinct(order') /\ Len(order') <= MaxSize /\ Stage(t)'
  <2>1. Lists(order, cache) /\ Distinct(order) /\ Len(order) <= MaxSize
    BY <1>2, <1>4, <1>5 DEF Coherent, Stage
  <2>2. /\ Distinct(order') /\ Len(order') = Len(order) - 1
        /\ \A d : Contains(order', d) <=> Contains(order, d) /\ d # Head(order)
    BY <1>0, <1>2, <2>1, TailDistinct
  <2>3. Len(order) \in Nat /\ MaxSize \in Nat
    BY <1>0, WhoisAssumption DEF WhoisAssumption
  <2>4. Len(order') < MaxSize /\ Len(order') <= MaxSize
    BY <2>1, <2>2, <2>3
  <2>5. Lists(order', cache' \ {q.oldest})
    BY <1>1, <1>2, <2>1, <2>2 DEF Lists
  <2>6. QED
    BY <1>1, <1>3, <2>2, <2>4, <2>5 DEF Stage, At
<1>6. QED
  BY <1>2, <1>3, <1>4, <1>5, StoresAlone

LEMMA DropKeepsAlone ==
  ASSUME Inv, Alone, NEW t \in Threads, Drop(t)
  PROVE  Alone'
<1> DEFINE q == [thread[t] EXCEPT !.at = "insert", !.oldest = NoDomain]
<1>0. thread[t] \in Thread
  BY DEF Inv, TypeOK
<1>1. q.at = "insert"
  BY <1>0 DEF Thread
<1>2. /\ thread' = [thread EXCEPT ![t] = q] /\ thread[t].at = "drop"
      /\ cache' = cache \ {thread[t].oldest} /\ UNCHANGED <<order, overlapped>>
  BY DEF Drop, Inv, TypeOK, At
<1> HIDE DEF q
<1>3. /\ thread'[t] = q
      /\ \A u \in Threads : u # t => thread'[u] = thread[u]
  BY <1>2 DEF Inv, TypeOK
<1>4. Storing(t) /\ Storing(t)'
  BY <1>1, <1>2, <1>3 DEF Storing
<1>5. ASSUME Coherent
      PROVE  Distinct(order') /\ Len(order') <= MaxSize /\ Stage(t)'
  <2>1. /\ Lists(order, cache \ {thread[t].oldest}) /\ Len(order) < MaxSize
        /\ Distinct(order) /\ Len(order) <= MaxSize
    BY <1>2, <1>4, <1>5 DEF Coherent, Stage, At
  <2>2. QED
    BY <1>1, <1>2, <1>3, <2>1 DEF Stage, At, Lists, Distinct
<1>6. QED
  BY <1>2, <1>3, <1>4, <1>5, StoresAlone

(* The list is empty, so the cache is too: nothing is lost.                 *)
LEMMA PopNothingKeepsAlone ==
  ASSUME Inv, Alone, NEW t \in Threads, PopNothing(t)
  PROVE  Alone'
<1>1. /\ thread[t].at = "pop" /\ Return(t)
      /\ UNCHANGED <<cache, order, overlapped>>
  BY DEF PopNothing, At
<1>2. /\ thread'[t].at = "idle"
      /\ \A u \in Threads : u # t => thread'[u] = thread[u]
  BY <1>1, Returned, IdleIsAThread DEF Inv
<1>3. Storing(t) /\ ~Storing(t)'
  BY <1>1, <1>2 DEF Storing
<1>4. ASSUME Coherent
      PROVE  Distinct(order') /\ Len(order') <= MaxSize /\ Lists(order', cache')
  <2>1. Lists(order, cache) /\ Distinct(order) /\ Len(order) <= MaxSize
    BY <1>1, <1>3, <1>4 DEF Coherent, Stage
  <2>2. QED
    BY <1>1, <2>1
<1>5. QED
  BY <1>1, <1>2, <1>3, <1>4, StoresAlone

LEMMA InsertKeepsAlone ==
  ASSUME Inv, Alone, NEW t \in Threads, Insert(t)
  PROVE  Alone'
<1>1. /\ thread[t].at = "insert" /\ GoTo(t, "find")
      /\ cache' = cache \cup {thread[t].domain} /\ UNCHANGED <<order, overlapped>>
  BY DEF Insert, At
<1>2. /\ thread'[t].at = "find" /\ thread'[t].domain = thread[t].domain
      /\ \A u \in Threads : u # t => thread'[u] = thread[u]
  BY <1>1, WentTo DEF Inv, Places
<1>3. Storing(t) /\ Storing(t)'
  BY <1>1, <1>2 DEF Storing
<1>4. ASSUME Coherent
      PROVE  Distinct(order') /\ Len(order') <= MaxSize /\ Stage(t)'
  <2>1. /\ Lists(order, cache) /\ Len(order) < MaxSize
        /\ Distinct(order) /\ Len(order) <= MaxSize
    BY <1>1, <1>3, <1>4 DEF Coherent, Stage
  <2>2. \A d \in Domains : d # thread[t].domain => (d \in cache' <=> Contains(order', d))
    BY <1>1, <2>1 DEF Lists
  <2>3. Stage(t)'
    BY <1>1, <1>2, <2>1, <2>2 DEF Stage, At
  <2>4. QED
    BY <1>1, <2>1, <2>3
<1>5. QED
  BY <1>1, <1>2, <1>3, <1>4, StoresAlone

LEMMA FindKeepsAlone ==
  ASSUME Inv, Alone, NEW t \in Threads, Find(t)
  PROVE  Alone'
<1> DEFINE listed == Contains(order, thread[t].domain)
           place == IF listed THEN "remove" ELSE "append"
<1>1. /\ thread[t].at = "find" /\ GoTo(t, place)
      /\ UNCHANGED <<cache, order, overlapped>>
  BY DEF Find, At
<1>2. /\ place \in {"remove", "append"}
      /\ place = "remove" => listed
      /\ place = "append" => ~listed
  OBVIOUS
<1> HIDE DEF place
<1>3. /\ thread'[t].at = place /\ thread'[t].domain = thread[t].domain
      /\ \A u \in Threads : u # t => thread'[u] = thread[u]
  BY <1>1, <1>2, WentTo DEF Inv, Places
<1>4. Storing(t) /\ Storing(t)'
  BY <1>1, <1>2, <1>3 DEF Storing
<1>5. ASSUME Coherent
      PROVE  Distinct(order') /\ Len(order') <= MaxSize /\ Stage(t)'
  <2>1. /\ thread[t].domain \in cache /\ Len(order) < MaxSize
        /\ \A d \in Domains : d # thread[t].domain => (d \in cache <=> Contains(order, d))
        /\ Distinct(order) /\ Len(order) <= MaxSize
    BY <1>1, <1>4, <1>5 DEF Coherent, Stage
  <2>2. listed => Lists(order, cache)
    BY <2>1 DEF Lists
  <2>3. CASE place = "remove"
    BY <1>1, <1>2, <1>3, <2>1, <2>2, <2>3 DEF Stage, At
  <2>4. CASE place = "append"
    BY <1>1, <1>2, <1>3, <2>1, <2>4 DEF Stage, At
  <2>5. QED
    BY <1>1, <1>2, <2>1, <2>3, <2>4
<1>6. QED
  BY <1>1, <1>3, <1>4, <1>5, StoresAlone

LEMMA RemoveKeyKeepsAlone ==
  ASSUME Inv, Alone, NEW t \in Threads, RemoveKey(t)
  PROVE  Alone'
<1> DEFINE d == thread[t].domain
<1>1. /\ thread[t].at = "remove" /\ GoTo(t, "append") /\ Contains(order, d)
      /\ order' = RemoveFirst(order, d) /\ UNCHANGED <<cache, overlapped>>
  BY DEF RemoveKey, At
<1>2. /\ thread'[t].at = "append" /\ thread'[t].domain = d
      /\ \A u \in Threads : u # t => thread'[u] = thread[u]
  BY <1>1, WentTo DEF Inv, Places
<1>3. d \in Domains
  BY <1>1 DEF Inv, Asked, At
<1> HIDE DEF d
<1>4. Storing(t) /\ Storing(t)'
  BY <1>1, <1>2 DEF Storing
<1>5. ASSUME Coherent
      PROVE  Distinct(order') /\ Len(order') <= MaxSize /\ Stage(t)'
  <2>1. /\ Lists(order, cache) /\ Len(order) < MaxSize
        /\ Distinct(order)
    BY <1>1, <1>4, <1>5 DEF Coherent, Stage
  <2>2. order \in Seq(Domains) /\ Len(order) \in Nat /\ MaxSize \in Nat
    BY WhoisAssumption DEF Inv, TypeOK, WhoisAssumption
  <2>3. /\ Distinct(order') /\ Len(order') = Len(order) - 1
        /\ ~Contains(order', d)
    BY <1>1, <2>1, <2>2, RemoveDistinct
  <2>4. \A c : c # d => (Contains(order', c) <=> Contains(order, c))
    BY <1>1, <2>2, RemoveFirstContains
  <2>5. Len(order') < MaxSize /\ Len(order') <= MaxSize
    BY <2>1, <2>2, <2>3
  <2>6. d \in cache
    BY <1>1, <1>3, <2>1 DEF Lists
  <2>7. \A c \in Domains : c # d => (c \in cache' <=> Contains(order', c))
    BY <1>1, <2>1, <2>4 DEF Lists
  <2>8. Stage(t)'
    BY <1>1, <1>2, <2>3, <2>5, <2>6, <2>7 DEF Stage, At
  <2>9. QED
    BY <2>3, <2>5, <2>8
<1>6. QED
  BY <1>1, <1>2, <1>4, <1>5, StoresAlone

(* While no other thread stores, this does not happen; if it did, the list  *)
(* would be the one there was.                                              *)
LEMMA RemoveGoneKeepsAlone ==
  ASSUME Inv, Alone, NEW t \in Threads, RemoveGone(t)
  PROVE  Alone'
<1>1. /\ thread[t].at = "remove" /\ Return(t)
      /\ UNCHANGED <<cache, order, overlapped>>
  BY DEF RemoveGone, At
<1>2. /\ thread'[t].at = "idle"
      /\ \A u \in Threads : u # t => thread'[u] = thread[u]
  BY <1>1, Returned, IdleIsAThread DEF Inv
<1>3. Storing(t) /\ ~Storing(t)'
  BY <1>1, <1>2 DEF Storing
<1>4. ASSUME Coherent
      PROVE  Distinct(order') /\ Len(order') <= MaxSize /\ Lists(order', cache')
  <2>1. Lists(order, cache) /\ Distinct(order) /\ Len(order) <= MaxSize
    BY <1>1, <1>3, <1>4 DEF Coherent, Stage
  <2>2. QED
    BY <1>1, <2>1
<1>5. QED
  BY <1>1, <1>2, <1>3, <1>4, StoresAlone

LEMMA AppendKeyKeepsAlone ==
  ASSUME Inv, Alone, NEW t \in Threads, AppendKey(t)
  PROVE  Alone'
<1> DEFINE d == thread[t].domain
<1>1. /\ thread[t].at = "append" /\ Return(t)
      /\ order' = Append(order, d) /\ UNCHANGED <<cache, overlapped>>
  BY DEF AppendKey, At
<1>2. /\ thread'[t].at = "idle"
      /\ \A u \in Threads : u # t => thread'[u] = thread[u]
  BY <1>1, Returned, IdleIsAThread DEF Inv
<1>3. d \in Domains
  BY <1>1 DEF Inv, Asked, At
<1>4. Storing(t) /\ ~Storing(t)'
  BY <1>1, <1>2 DEF Storing
<1>5. ASSUME Coherent
      PROVE  Distinct(order') /\ Len(order') <= MaxSize /\ Lists(order', cache')
  <2>1. /\ d \in cache /\ Len(order) < MaxSize /\ ~Contains(order, d)
        /\ \A c \in Domains : c # d => (c \in cache <=> Contains(order, c))
        /\ Distinct(order)
    BY <1>1, <1>4, <1>5 DEF Coherent, Stage, At
  <2> HIDE DEF d
  <2>2. order \in Seq(Domains) /\ Len(order) \in Nat /\ MaxSize \in Nat
    BY WhoisAssumption DEF Inv, TypeOK, WhoisAssumption
  <2>3. /\ Distinct(order') /\ Len(order') = Len(order) + 1
        /\ \A c : Contains(order', c) <=> Contains(order, c) \/ c = d
    BY <1>1, <1>3, <2>1, <2>2, AppendDistinct
  <2>4. Len(order') <= MaxSize
    BY <2>1, <2>2, <2>3
  <2>5. Lists(order', cache')
    BY <1>1, <2>1, <2>3 DEF Lists
  <2>6. QED
    BY <2>3, <2>4, <2>5
<1>6. QED
  BY <1>1, <1>2, <1>4, <1>5, StoresAlone

(* The other steps are of threads that store neither before nor after.      *)
LEMMA StepKeepsAlone == Inv /\ Alone /\ [Next]_vars => Alone'
<1> SUFFICES ASSUME Inv, Alone, [Next]_vars PROVE Alone'
  OBVIOUS
<1>0. thread \in [Threads -> Thread]
  BY DEF Inv, TypeOK
<1>1. ASSUME NEW t \in Threads, NEW d \in Domains, Ask(t, d) PROVE Alone'
  <2> DEFINE q == [Idle EXCEPT !.at = "waiting", !.domain = d]
  <2>1. q.at = "waiting"
    BY IdleIsAThread DEF Thread
  <2>2. /\ thread' = [thread EXCEPT ![t] = q] /\ thread[t].at = "idle"
        /\ UNCHANGED <<cache, order, overlapped>>
    BY <1>1 DEF Ask, At
  <2> HIDE DEF q
  <2>3. thread'[t] = q /\ \A u \in Threads : u # t => thread'[u] = thread[u]
    BY <1>0, <2>2
  <2>4. thread[t].at \notin StoringPlaces /\ thread'[t].at \notin StoringPlaces
    BY <2>1, <2>2, <2>3 DEF StoringPlaces
  <2>5. QED
    BY <2>2, <2>3, <2>4, AloneKept
<1>2. ASSUME NEW t \in Threads, Acquire(t) PROVE Alone'
  <2> DEFINE q == [thread[t] EXCEPT !.at = "sleeping", !.left = Delay - since]
  <2>1. q.at = "sleeping"
    BY <1>0 DEF Thread
  <2>2. /\ thread' = [thread EXCEPT ![t] = q] /\ thread[t].at = "waiting"
        /\ UNCHANGED <<cache, order, overlapped>>
    BY <1>0, <1>2 DEF Acquire, At
  <2> HIDE DEF q
  <2>3. thread'[t] = q /\ \A u \in Threads : u # t => thread'[u] = thread[u]
    BY <1>0, <2>2
  <2>4. thread[t].at \notin StoringPlaces /\ thread'[t].at \notin StoringPlaces
    BY <2>1, <2>2, <2>3 DEF StoringPlaces
  <2>5. QED
    BY <2>2, <2>3, <2>4, AloneKept
<1>3. ASSUME NEW t \in Threads, Wake(t) PROVE Alone'
  <2>1. /\ thread[t].at = "sleeping" /\ GoTo(t, "query")
        /\ UNCHANGED <<cache, order, overlapped>>
    BY <1>3 DEF Wake, At
  <2>2. /\ thread'[t].at = "query"
        /\ \A u \in Threads : u # t => thread'[u] = thread[u]
    BY <2>1, WentTo DEF Inv, Places
  <2>3. thread[t].at \notin StoringPlaces /\ thread'[t].at \notin StoringPlaces
    BY <2>1, <2>2 DEF StoringPlaces
  <2>4. QED
    BY <2>1, <2>2, <2>3, AloneKept
<1>4. CASE Tick
  <2>1. ASSUME NEW u \in Threads
        PROVE  /\ thread'[u].at = thread[u].at
               /\ thread'[u].domain = thread[u].domain
               /\ thread'[u].oldest = thread[u].oldest
    <3>1. thread'[u] = [thread[u] EXCEPT !.left = IF @ > 0 THEN @ - 1 ELSE @]
      BY <1>4 DEF Tick
    <3>2. thread[u] \in Thread
      BY <1>0
    <3>3. QED
      BY <3>1, <3>2 DEF Thread
  <2>2. UNCHANGED <<cache, order, overlapped>>
    BY <1>4 DEF Tick
  <2>3. QED
    BY <2>1, <2>2, AloneKept
<1>5. ASSUME NEW d \in Domains, Expire(d) PROVE Alone'
  BY <1>5, AloneKept DEF Expire
<1>6. CASE UNCHANGED vars
  BY <1>6, AloneKept DEF vars
<1>7. ASSUME NEW t \in Threads, Store(t) PROVE Alone'
  BY <1>7, CheckFullKeepsAlone, PopOldestKeepsAlone, PopNothingKeepsAlone,
     DropKeepsAlone, InsertKeepsAlone, FindKeepsAlone, RemoveKeyKeepsAlone,
     RemoveGoneKeepsAlone, AppendKeyKeepsAlone DEF Store
<1>8. QED
  BY <1>1, <1>2, <1>3, <1>4, <1>5, <1>6, <1>7, QueryKeepsAlone DEF Next

(* As long as no two threads were storing at once, a cache at rest is       *)
(* within its size, and the list that evictions go by holds exactly its     *)
(* keys, each once: however many threads ask, and whatever expires.         *)
THEOREM CacheStaysTheList == Spec => []CacheIsTheList
<1>1. Inv /\ Alone => CacheIsTheList
  <2> SUFFICES ASSUME Inv, Alone, ~overlapped, \A t \in Threads : ~Storing(t)
               PROVE  /\ Cardinality(cache) <= MaxSize
                      /\ ToSet(order) = cache
                      /\ Len(order) = Cardinality(cache)
    BY DEF CacheIsTheList
  <2>1. Lists(order, cache) /\ Distinct(order) /\ Len(order) <= MaxSize
    BY DEF Alone, Coherent
  <2>2. ToSet(order) = cache /\ Cardinality(cache) = Len(order)
    BY <2>1, ListsCounts DEF Inv
  <2>3. QED
    BY <2>1, <2>2
<1>2. QED
  BY <1>1, Invariance, AloneBegins, StepKeepsAlone, PTL DEF Spec
=============================================================================
