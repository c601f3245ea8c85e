------------------------------- MODULE TtlStore -------------------------------
(***************************************************************************)
(* What the rest of the program may rely on from the short-lived store     *)
(* (core/store.py): a map whose entries end by themselves, whichever       *)
(* backend holds it.  MemoryStore and RedisStore implement this module;    *)
(* LoginHistory and TokenRevocation are built on it.                       *)
(*                                                                         *)
(* Time is counted in half seconds, so that both sides of every rounding   *)
(* to seconds are reached.                                                 *)
(***************************************************************************)
EXTENDS Integers

CONSTANTS
    Texts,       \* keys that are set and read
    Counters,    \* keys that are counted with
    Values,      \* what may be stored under a text key
    Amounts,     \* what may be added to a counter
    MaxTtl,      \* the longest time to live, in seconds
    MaxCount,    \* bound: the highest count
    MaxTime,     \* bound: the last instant
    FailsOpen,   \* TRUE when the backend may be out of reach
    NULL

VARIABLES
    live,     \* the entries that have not expired
    now,      \* in half seconds
    answer    \* what the last operation returned, NULL if nothing

tvars == <<live, now, answer>>

Keys == Texts \cup Counters

ASSUME KeysAssumption == Texts \cap Counters = {} /\ NULL \notin Values
ASSUME TtlAssumption == MaxTtl \in Nat \ {0} /\ MaxTime \in Nat
ASSUME CountAssumption == Amounts \subseteq Int /\ MaxCount \in Nat /\ FailsOpen \in BOOLEAN

NoEntries == [k \in {} |-> NULL]

Without(entries, gone) == [k \in DOMAIN entries \ gone |-> entries[k]]

With(entries, k, e) == [j \in DOMAIN entries \cup {k} |-> IF j = k THEN e ELSE entries[j]]

\* An entry lives until its last instant, exclusive.
Expired(entries, t) == {k \in DOMAIN entries : entries[k].expires <= t}

\* The counter after adding n: its window starts when it is created, and never again.
Counted(entries, k, n, ttl, t) ==
    IF k \in DOMAIN entries THEN [entries[k] EXCEPT !.value = @ + n]
                            ELSE [value |-> n, expires |-> t + 2 * ttl]

\* The whole seconds, at least one, that a time left may be rounded to.
Seconds(left) == {s \in 1..MaxTtl : (2 * s <= left + 1 \/ s = 1) /\ 2 * s >= left - 1}

\* One operation: it is carried out and answered; or, when the backend fails, it is
\* answered as if nothing were stored and may or may not have been carried out.
Operate(effect, reply, lost) ==
    \/ live' = effect /\ answer' = reply
    \/ FailsOpen /\ live' \in {live, effect} /\ answer' = lost

TInit == live = NoEntries /\ now = 0 /\ answer = NULL

Get(k) == /\ Operate(live, IF k \in DOMAIN live THEN live[k].value ELSE NULL, NULL)
          /\ UNCHANGED now

Set(k, v, ttl) == /\ Operate(With(live, k, [value |-> v, expires |-> now + 2 * ttl]), NULL, NULL)
                  /\ UNCHANGED now

Delete(k) == /\ Operate(Without(live, {k}), NULL, NULL)
             /\ UNCHANGED now

Add(k, n, ttl) ==
    LET counter == Counted(live, k, n, ttl, now)
    IN  /\ counter.value \in -MaxCount..MaxCount
        /\ \E s \in Seconds(counter.expires - now) :
              Operate(With(live, k, counter), <<counter.value, s>>, <<0, 0>>)
        /\ UNCHANGED now

TTick == /\ now < MaxTime
         /\ now' = now + 1
         /\ live' = Without(live, Expired(live, now'))
         /\ answer' = NULL

\* The process that holds the entries, or Redis, starts again with none.
Restart == live' = NoEntries /\ answer' = NULL /\ UNCHANGED now

TNext ==
    \/ \E k \in Texts : Get(k)
    \/ \E k \in Texts, v \in Values, ttl \in 1..MaxTtl : Set(k, v, ttl)
    \/ \E k \in Keys : Delete(k)
    \/ \E k \in Counters, n \in Amounts, ttl \in 1..MaxTtl : Add(k, n, ttl)
    \/ TTick
    \/ Restart

TSpec == TInit /\ [][TNext]_tvars
===============================================================================
