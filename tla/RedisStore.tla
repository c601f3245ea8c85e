------------------------------ MODULE RedisStore ------------------------------
(***************************************************************************)
(* core/store.py, RedisStore: the same contract over a Redis shared by all *)
(* processes.  Each method is one command or one MULTI/EXEC transaction,   *)
(* which Redis (external) carries out in one step; when the connection     *)
(* fails, before Redis had the command or after, the method fails open.    *)
(***************************************************************************)
EXTENDS Integers

CONSTANTS Texts, Counters, Values, Amounts, MaxTtl, MaxCount, MaxTime, NULL

VARIABLES
    kv,       \* the keys of Redis: value and deadline
    now, answer

rvars == <<kv, now, answer>>

Contract == INSTANCE TtlStore WITH live <- kv, FailsOpen <- TRUE

NoKeys == [k \in {} |-> NULL]

Deadline(ttl) == now + 2 * ttl

\* SET key value EX ttl
SetEx(s, k, v, ttl) ==
    [j \in DOMAIN s \cup {k} |-> IF j = k THEN [value |-> v, expires |-> Deadline(ttl)] ELSE s[j]]

\* SET key value EX ttl NX
SetNxEx(s, k, v, ttl) == IF k \in DOMAIN s THEN s ELSE SetEx(s, k, v, ttl)

\* INCRBY key n, which keeps the deadline of a key that is there
IncrBy(s, k, n) == [s EXCEPT ![k].value = @ + n]

\* DEL key
Del(s, k) == [j \in DOMAIN s \ {k} |-> s[j]]

\* TTL key: the seconds left, a half rounded up
Ttl(s, k) == (s[k].expires - now + 1) \div 2

\* Mutant: add makes its counter without NX.
CountedAnew(k, n, ttl) == IncrBy(SetEx(kv, k, 0, ttl), k, n)

\* The transaction of add.
Counted(k, n, ttl) == IncrBy(SetNxEx(kv, k, 0, ttl), k, n)

AtLeastOne(s) == IF s < 1 THEN 1 ELSE s

\* The command is carried out and answered; or a RedisError is caught and lost answered.
Command(effect, reply, lost) ==
    /\ UNCHANGED now
    /\ \/ kv' = effect /\ answer' = reply
       \/ kv' \in {kv, effect} /\ answer' = lost

RInit == kv = NoKeys /\ now = 0 /\ answer = NULL

\* get, and exists.
RGet(k) == Command(kv, IF k \in DOMAIN kv THEN kv[k].value ELSE NULL, NULL)

RSet(k, v, ttl) == Command(SetEx(kv, k, v, ttl), NULL, NULL)

RDelete(k) == Command(Del(kv, k), NULL, NULL)

RAdd(k, n, ttl) ==
    LET s == Counted(k, n, ttl)
    IN  /\ s[k].value \in -MaxCount..MaxCount
        /\ Command(s, <<s[k].value, AtLeastOne(Ttl(s, k))>>, <<0, 0>>)

RTick == /\ now < MaxTime
         /\ now' = now + 1
         /\ kv' = [k \in {j \in DOMAIN kv : kv[j].expires > now'} |-> kv[k]]
         /\ answer' = NULL

\* Redis loses its data.
RRestart == kv' = NoKeys /\ answer' = NULL /\ UNCHANGED now

RNext ==
    \/ \E k \in Texts : RGet(k)
    \/ \E k \in Texts, v \in Values, ttl \in 1..MaxTtl : RSet(k, v, ttl)
    \/ \E k \in Texts \cup Counters : RDelete(k)
    \/ \E k \in Counters, n \in Amounts, ttl \in 1..MaxTtl : RAdd(k, n, ttl)
    \/ RTick
    \/ RRestart

RSpec == RInit /\ [][RNext]_rvars
-------------------------------------------------------------------------------
\* Each command of Redis is one of the contract, with its fail-open answers.
ImplementsContract == Contract!TSpec
===============================================================================
