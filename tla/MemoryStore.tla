----------------------------- MODULE MemoryStore -----------------------------
(***************************************************************************)
(* core/store.py, MemoryStore: the entries in a dict of the process.  An   *)
(* expired entry stays in the dict until it is touched or a write sweeps,  *)
(* at most once in PurgeInterval.  Every method holds the one lock from    *)
(* its reading of the clock to its end, so each is one step.               *)
(***************************************************************************)
EXTENDS Integers

CONSTANTS Texts, Counters, Values, Amounts, MaxTtl, MaxCount, MaxTime, NULL,
          PurgeInterval   \* PURGE_INTERVAL_SECONDS, in half seconds

VARIABLES
    data,        \* _data: the entries, expired ones included
    lastPurge,   \* _last_purge
    now, answer

svars == <<data, lastPurge, now, answer>>

ASSUME KeysAssumption == Texts \cap Counters = {} /\ NULL \notin Values
ASSUME TimesAssumption == MaxTtl \in Nat \ {0} /\ MaxTime \in Nat /\ PurgeInterval \in Nat \ {0}
ASSUME CountsAssumption == Amounts \subseteq Int /\ MaxCount \in Nat

Contract == INSTANCE TtlStore WITH
    live <- [k \in {j \in DOMAIN data : data[j].expires > now} |-> data[k]],
    FailsOpen <- FALSE

NoEntries == [k \in {} |-> NULL]

Entry(v, expires) == [value |-> v, expires |-> expires]

Stored(d, k, e) == [j \in DOMAIN d \cup {k} |-> IF j = k THEN e ELSE d[j]]

Removed(d, ks) == [j \in DOMAIN d \ ks |-> d[j]]

\* Mutant: an entry is one instant too long alive.
LivePastEnd(d, k) == Removed(d, {j \in DOMAIN d \cap {k} : d[j].expires < now})

\* _live: the dict without this key, if its entry has expired.
Live(d, k) == Removed(d, {j \in DOMAIN d \cap {k} : d[j].expires <= now})

PurgeDue == now - lastPurge >= PurgeInterval

\* Mutant: the sweep keeps what has expired.
PurgeNothing == data

\* _purge: the dict as a write finds it.
Purge == IF PurgeDue THEN Removed(data, {k \in DOMAIN data : data[k].expires <= now}) ELSE data

\* Mutant: the instant of the next sweep is noted instead of this one's.
MarkNextPurge == lastPurge' = IF PurgeDue THEN now + PurgeInterval ELSE lastPurge

MarkPurge == lastPurge' = IF PurgeDue THEN now ELSE lastPurge

\* max(1, round(left)): Python rounds a half to the even second.
RetrySeconds(left) ==
    LET q == left \div 2
        rounded == IF left % 2 = 0 \/ q % 2 = 0 THEN q ELSE q + 1
    IN  IF rounded < 1 THEN 1 ELSE rounded

MInit == data = NoEntries /\ lastPurge = 0 /\ now = 0 /\ answer = NULL

\* get, and exists, which is get compared with None.
MGet(k) ==
    /\ data' = Live(data, k)
    /\ answer' = IF k \in DOMAIN data' THEN data'[k].value ELSE NULL
    /\ UNCHANGED <<lastPurge, now>>

MSet(k, v, ttl) ==
    /\ MarkPurge
    /\ data' = Stored(Purge, k, Entry(v, now + 2 * ttl))
    /\ answer' = NULL
    /\ UNCHANGED now

MDelete(k) ==
    /\ data' = Removed(data, {k})
    /\ answer' = NULL
    /\ UNCHANGED <<lastPurge, now>>

\* Mutant: every addition starts the window anew.
CounterRestarted(d, k, ttl) ==
    Entry(IF k \in DOMAIN d THEN d[k].value ELSE 0, now + 2 * ttl)

\* The entry add works on: the one it finds alive, or a new one.
CounterIn(d, k, ttl) == IF k \in DOMAIN d THEN d[k] ELSE Entry(0, now + 2 * ttl)

MAdd(k, n, ttl) ==
    LET d == Live(Purge, k)
        counter == CounterIn(d, k, ttl)
        value == counter.value + n
    IN  /\ value \in -MaxCount..MaxCount
        /\ MarkPurge
        /\ data' = Stored(d, k, Entry(value, counter.expires))
        /\ answer' = <<value, RetrySeconds(counter.expires - now)>>
        /\ UNCHANGED now

MTick == now < MaxTime /\ now' = now + 1 /\ answer' = NULL /\ UNCHANGED <<data, lastPurge>>

\* The process ends and a new one builds its store.
MRestart == data' = NoEntries /\ lastPurge' = now /\ answer' = NULL /\ UNCHANGED now

MNext ==
    \/ \E k \in Texts : MGet(k)
    \/ \E k \in Texts, v \in Values, ttl \in 1..MaxTtl : MSet(k, v, ttl)
    \/ \E k \in Texts \cup Counters : MDelete(k)
    \/ \E k \in Counters, n \in Amounts, ttl \in 1..MaxTtl : MAdd(k, n, ttl)
    \/ MTick
    \/ MRestart

MSpec == MInit /\ [][MNext]_svars
-------------------------------------------------------------------------------
MTypeOK ==
    /\ now \in 0..MaxTime
    /\ lastPurge \in 0..now
    /\ DOMAIN data \subseteq Texts \cup Counters
    /\ data \in [DOMAIN data -> [value : Values \cup -MaxCount..MaxCount,
                                  expires : 1..(now + 2 * MaxTtl)]]
    /\ \A k \in DOMAIN data : data[k].value \in IF k \in Texts THEN Values ELSE -MaxCount..MaxCount

\* What a sweep guarantees: nothing that had expired by the last one is still held.
SweptClean == \A k \in DOMAIN data : data[k].expires > lastPurge

\* "Every value here expires on its own, so neither backend needs a cleanup job": whenever
\* something is written, nothing is left that expired a whole PurgeInterval ago or more,
\* although nothing but the writes themselves ever sweeps.
Written(k) == k \in DOMAIN data' /\ (k \notin DOMAIN data \/ data'[k] # data[k])

NoOldGarbage ==
    [][(\E k \in Texts \cup Counters : Written(k)) =>
          \A k \in DOMAIN data' : data'[k].expires > now - PurgeInterval]_svars

\* A counter's window is fixed when it is created: as long as the counter lives, no
\* addition, purge or reading moves the end of its window.
WindowFixed ==
    [][\A k \in Counters \cap DOMAIN data :
          data[k].expires > now /\ k \in DOMAIN data' => data'[k].expires = data[k].expires]_svars

\* The store keeps its contract.
ImplementsContract == Contract!TSpec
===============================================================================
