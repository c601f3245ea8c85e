---------------------------- MODULE StoreProofs ----------------------------
(***************************************************************************)
(* Both backends of the short-lived store keep the contract of TtlStore,   *)
(* in a process that uses the one or the other; the one in memory sweeps   *)
(* in time and never moves a counter's window; for all keys, lifetimes and *)
(* purge intervals.                                                        *)
(*                                                                         *)
(* SInv says what the proofs need of the dict: well-typed entries, and     *)
(* none that had expired by the last sweep.                                *)
(***************************************************************************)
EXTENDS ProcessStore, TLAPS

SInv == MTypeOK /\ SweptClean

\* The mapping of the refinement: the entries of a dict that are alive at t.
Alive(d, t) == [k \in {j \in DOMAIN d : d[j].expires > t} |-> d[k]]

LEMMA InitSafe == MInit => SInv
BY TimesAssumption DEF MInit, SInv, MTypeOK, SweptClean, NoEntries

\* A dict from which only entries went away is as good as before.
LEMMA RemovingIsSafe ==
    ASSUME SInv, NEW gone, data' = Removed(data, gone), UNCHANGED <<lastPurge, now>>
    PROVE  SInv'
BY DEF SInv, MTypeOK, SweptClean, Removed, Entry

\* What a write finds after _purge and _live: entries of the old dict, none of them expired
\* by the sweep just noted.
LEMMA WritingIsSafe ==
    ASSUME SInv, NEW d, NEW gone, d = Removed(Purge, gone), MarkPurge, now' = now,
           NEW k \in Texts \cup Counters, NEW v, NEW e \in Int, now < e, e <= now + 2 * MaxTtl,
           v \in IF k \in Texts THEN Values ELSE -MaxCount..MaxCount,
           data' = Stored(d, k, Entry(v, e))
    PROVE  SInv' /\ \A j \in DOMAIN data' : data'[j].expires > now - PurgeInterval
<1>1. /\ now \in 0..MaxTime /\ lastPurge \in 0..now /\ lastPurge' \in 0..now
      /\ lastPurge' > now - PurgeInterval /\ now \in Int /\ lastPurge \in Int
  BY TimesAssumption DEF SInv, MTypeOK, MarkPurge, PurgeDue
<1>2. DOMAIN d \subseteq DOMAIN data /\ \A j \in DOMAIN d : d[j] = data[j]
  BY DEF Removed, Purge
<1>3. \A j \in DOMAIN d : d[j].expires > lastPurge'
  <2>1. CASE PurgeDue
    <3>1. \A j \in DOMAIN d : ~(data[j].expires <= now)
      BY <2>1 DEF Purge, Removed
    <3>2. lastPurge' = now
      BY <2>1 DEF MarkPurge
    <3> QED BY <1>1, <1>2, <3>1, <3>2 DEF SInv, MTypeOK
  <2>2. CASE ~PurgeDue
    <3>1. lastPurge' = lastPurge
      BY <2>2 DEF MarkPurge
    <3> QED BY <1>2, <3>1 DEF SInv, SweptClean
  <2> QED BY <2>1, <2>2
<1>4. /\ DOMAIN data' = DOMAIN d \cup {k}
      /\ data'[k] = Entry(v, e)
      /\ \A j \in DOMAIN d \ {k} : data'[j] = data[j]
  BY <1>2 DEF Stored
<1>5. data'[k].expires = e /\ data'[k].value = v
  BY <1>4 DEF Entry
<1>6. MTypeOK'
  <2> DEFINE Entries == [value : Values \cup -MaxCount..MaxCount, expires : 1..(now' + 2 * MaxTtl)]
  <2>1. now' \in 0..MaxTime /\ lastPurge' \in 0..now'
    BY <1>1
  <2>2. DOMAIN data' \subseteq Texts \cup Counters
    BY <1>2, <1>4 DEF SInv, MTypeOK
  <2>3. \A j \in DOMAIN data' \ {k} :
           /\ data'[j] \in Entries
           /\ data'[j].value \in IF j \in Texts THEN Values ELSE -MaxCount..MaxCount
    BY <1>2, <1>4 DEF SInv, MTypeOK
  <2>4. data'[k] \in Entries
    BY <1>1, <1>4, TimesAssumption DEF Entry
  <2>5. data' \in [DOMAIN data' -> Entries]
    <3>1. \A j \in DOMAIN data' : data'[j] \in Entries
      BY <2>3, <2>4
    <3> HIDE DEF Entries
    <3> QED BY <1>4, <3>1 DEF Stored
  <2>6. \A j \in DOMAIN data' : data'[j].value \in IF j \in Texts THEN Values
                                                               ELSE -MaxCount..MaxCount
    BY <1>5, <2>3
  <2> QED BY <2>1, <2>2, <2>5, <2>6 DEF MTypeOK
<1>7. \A j \in DOMAIN data' : data'[j].expires > lastPurge' /\ data'[j].expires \in Int
  BY <1>1, <1>2, <1>3, <1>4, <1>5 DEF SInv, MTypeOK
<1> QED BY <1>1, <1>6, <1>7, TimesAssumption DEF SInv, SweptClean

\* The dict is a function, and so is what a sweep leaves of it.
LEMMA PurgeIsRestriction ==
    ASSUME SInv
    PROVE  Purge = Removed(Purge, {})
BY DEF Removed, Purge, SInv, MTypeOK

\* set stores an entry over what the sweep left.
LEMMA SetSafe ==
    ASSUME SInv, NEW k \in Texts, NEW v \in Values, NEW ttl \in 1..MaxTtl, MSet(k, v, ttl)
    PROVE  SInv' /\ \A j \in DOMAIN data' : data'[j].expires > now - PurgeInterval
<1>1. Purge = Removed(Purge, {}) /\ k \in Texts \cup Counters
  BY PurgeIsRestriction
<1>2. now \in Int /\ now + 2 * ttl \in Int /\ now < now + 2 * ttl
      /\ now + 2 * ttl <= now + 2 * MaxTtl
  BY TimesAssumption DEF SInv, MTypeOK
<1> QED BY <1>1, <1>2, WritingIsSafe DEF MSet

\* add finds an entry that is alive or makes one, and stores it back in range.
LEMMA AddSafe ==
    ASSUME SInv, NEW k \in Counters, NEW n \in Amounts, NEW ttl \in 1..MaxTtl, MAdd(k, n, ttl)
    PROVE  SInv' /\ \A j \in DOMAIN data' : data'[j].expires > now - PurgeInterval
<1> DEFINE gone == {j \in DOMAIN Purge \cap {k} : Purge[j].expires <= now}
           d == Live(Purge, k)
           counter == CounterIn(d, k, ttl)
           value == counter.value + n
<1>1. /\ d = Removed(Purge, gone)
      /\ data' = Stored(d, k, Entry(value, counter.expires))
      /\ MarkPurge /\ now' = now /\ value \in -MaxCount..MaxCount
  BY DEF MAdd, Live
<1>2. now \in Int /\ \A j \in DOMAIN data : data[j].expires \in 1..(now + 2 * MaxTtl)
  BY DEF SInv, MTypeOK
<1>3. DOMAIN d \subseteq DOMAIN data /\ \A j \in DOMAIN d : d[j] = data[j]
  BY DEF Live, Removed, Purge
<1>4. counter.expires \in Int /\ now < counter.expires /\ counter.expires <= now + 2 * MaxTtl
  <2>1. CASE k \in DOMAIN d
    <3>1. ~(d[k].expires <= now)
      BY <2>1 DEF Live, Removed
    <3> QED BY <1>2, <1>3, <2>1, <3>1, TimesAssumption DEF CounterIn
  <2>2. CASE k \notin DOMAIN d
    BY <1>2, <2>2, TimesAssumption DEF CounterIn, Entry
  <2> QED BY <2>1, <2>2
<1>5. k \in Texts \cup Counters
      /\ value \in IF k \in Texts THEN Values ELSE -MaxCount..MaxCount
  BY <1>1, KeysAssumption
<1> HIDE DEF d, counter, value, gone
<1> QED BY <1>1, <1>4, <1>5, WritingIsSafe

\* Every step keeps SInv; the steps of a write sweep in time.
LEMMA NextSafe ==
    ASSUME SInv, [MNext]_svars
    PROVE  SInv'
<1>1. ASSUME NEW k \in Texts, MGet(k) PROVE SInv'
  BY <1>1, RemovingIsSafe DEF MGet, Live
<1>2. ASSUME NEW k \in Texts, NEW v \in Values, NEW ttl \in 1..MaxTtl, MSet(k, v, ttl)
      PROVE  SInv'
  BY <1>2, SetSafe
<1>3. ASSUME NEW k \in Texts \cup Counters, MDelete(k) PROVE SInv'
  BY <1>3, RemovingIsSafe DEF MDelete
<1>4. ASSUME NEW k \in Counters, NEW n \in Amounts, NEW ttl \in 1..MaxTtl, MAdd(k, n, ttl)
      PROVE  SInv'
  BY <1>4, AddSafe
<1>5. CASE MTick
  BY <1>5, TimesAssumption DEF MTick, SInv, MTypeOK, SweptClean, Entry
<1>6. CASE MRestart
  BY <1>6, TimesAssumption DEF MRestart, SInv, MTypeOK, SweptClean, NoEntries
<1>7. CASE UNCHANGED svars
  BY <1>7 DEF svars, SInv, MTypeOK, SweptClean
<1> QED BY <1>1, <1>2, <1>3, <1>4, <1>5, <1>6, <1>7 DEF MNext
-------------------------------------------------------------------------------
(***************************************************************************)
(* The refinement.  First what the methods do to the entries that are      *)
(* alive, then one step of the contract for each step of the store.        *)
(***************************************************************************)

\* Sweeping or dropping expired entries is not visible.
LEMMA ExpiredInvisible ==
    ASSUME NEW d, NEW t, NEW gone, \A k \in gone \cap DOMAIN d : ~(d[k].expires > t)
    PROVE  Alive(Removed(d, gone), t) = Alive(d, t)
BY DEF Alive, Removed

\* Storing an entry that is alive stores it among those that are.
LEMMA StoredVisible ==
    ASSUME NEW d, NEW t, NEW k, NEW e, e.expires > t
    PROVE  Alive(Stored(d, k, e), t) = Contract!With(Alive(d, t), k, e)
<1> DEFINE f == Alive(Stored(d, k, e), t)
           g == Contract!With(Alive(d, t), k, e)
<1>1. DOMAIN f = DOMAIN g
  BY DEF Alive, Stored, Contract!With
<1>2. \A j \in DOMAIN f : f[j] = g[j]
  BY DEF Alive, Stored, Contract!With
<1>3. f = [x \in DOMAIN f |-> f[x]] /\ g = [x \in DOMAIN g |-> g[x]]
  BY DEF Alive, Contract!With
<1> HIDE DEF f, g
<1>4. f = g
  BY <1>1, <1>2, <1>3
<1> QED BY <1>4 DEF f, g

\* A removed entry is gone from those that are alive.
LEMMA RemovedVisible ==
    ASSUME NEW d, NEW t, NEW gone
    PROVE  Alive(Removed(d, gone), t) = Contract!Without(Alive(d, t), gone)
BY DEF Alive, Removed, Contract!Without

\* As time passes, the entries alive are those that do not expire now.
LEMMA TimePassesVisible ==
    ASSUME NEW d, NEW t \in Int, \A k \in DOMAIN d : d[k].expires \in Int
    PROVE  Alive(d, t + 1) = Contract!Without(Alive(d, t), Contract!Expired(Alive(d, t), t + 1))
BY DEF Alive, Contract!Without, Contract!Expired

\* The seconds that add answers are a rounding of the time left.
LEMMA RetryIsRounding ==
    ASSUME NEW left \in 1..(2 * MaxTtl)
    PROVE  RetrySeconds(left) \in Contract!Seconds(left)
BY TimesAssumption DEF RetrySeconds, Contract!Seconds

\* What a write finds is, to the eye, what there was.
LEMMA PurgeInvisible ==
    ASSUME SInv
    PROVE  \A gone : (\A k \in gone \cap DOMAIN Purge : ~(Purge[k].expires > now)) =>
              Alive(Removed(Purge, gone), now) = Alive(data, now)
<1>1. Alive(Purge, now) = Alive(data, now)
  <2>1. CASE PurgeDue
    <3> DEFINE old == {k \in DOMAIN data : data[k].expires <= now}
    <3>1. Purge = Removed(data, old)
      BY <2>1 DEF Purge
    <3>2. \A k \in old \cap DOMAIN data : ~(data[k].expires > now)
      BY DEF SInv, MTypeOK
    <3> HIDE DEF old
    <3> QED BY <3>1, <3>2, ExpiredInvisible
  <2>2. CASE ~PurgeDue
    BY <2>2 DEF Purge
  <2> QED BY <2>1, <2>2
<1> QED BY <1>1, ExpiredInvisible

\* add works on the counter that is alive, and answers its new value and a rounding of the
\* time it has left.
LEMMA AddImplements ==
    ASSUME SInv, NEW k \in Counters, NEW n \in Amounts, NEW ttl \in 1..MaxTtl, MAdd(k, n, ttl)
    PROVE  Contract!Add(k, n, ttl)
<1> DEFINE live == Alive(data, now)
           gone == {j \in DOMAIN Purge \cap {k} : Purge[j].expires <= now}
           d == Live(Purge, k)
           found == CounterIn(d, k, ttl)
           counter == Contract!Counted(live, k, n, ttl, now)
           left == counter.expires - now
<1>0. /\ now \in Int /\ n \in Int /\ now' = now
      /\ \A j \in DOMAIN Purge : Purge[j].expires \in Int
      /\ data \in [DOMAIN data -> [value : Values \cup -MaxCount..MaxCount,
                                   expires : 1..(now + 2 * MaxTtl)]]
  BY CountsAssumption DEF SInv, MTypeOK, MAdd, Purge, Removed
<1>1. Alive(d, now) = live
  <2>1. d = Removed(Purge, gone)
    BY DEF Live
  <2>2. \A j \in gone \cap DOMAIN Purge : ~(Purge[j].expires > now)
    BY <1>0
  <2> HIDE DEF gone, d
  <2> QED BY <2>1, <2>2, PurgeInvisible
<1>2. k \in DOMAIN d <=> k \in DOMAIN live
  <2>1. k \in DOMAIN d => d[k].expires > now
    BY <1>0 DEF Live, Removed
  <2> QED BY <1>1, <2>1 DEF Alive
<1>3. k \in DOMAIN d => d[k] = live[k]
  BY <1>1, <1>2 DEF Alive
<1>4. counter = Entry(found.value + n, found.expires) /\ left \in 1..(2 * MaxTtl)
      /\ found.expires \in Int /\ found.expires > now
  <2>1. CASE k \in DOMAIN d
    <3>1. counter = [live[k] EXCEPT !.value = @ + n] /\ found = live[k] /\ live[k] = data[k]
          /\ k \in DOMAIN data /\ data[k].expires > now
      BY <1>2, <1>3, <2>1 DEF Contract!Counted, CounterIn, Alive
    <3>2. data[k] \in [value : Values \cup -MaxCount..MaxCount, expires : 1..(now + 2 * MaxTtl)]
      BY <1>0, <3>1
    <3>3. data[k] = Entry(data[k].value, data[k].expires)
      BY <3>2 DEF Entry
    <3>4. counter = Entry(data[k].value + n, data[k].expires)
      BY <3>1, <3>3 DEF Entry
    <3> HIDE DEF counter, found
    <3> QED BY <1>0, <3>1, <3>2, <3>4, TimesAssumption DEF Entry
  <2>2. CASE k \notin DOMAIN d
    BY <1>0, <1>2, <2>2, TimesAssumption DEF Contract!Counted, CounterIn, Entry
  <2> QED BY <2>1, <2>2
<1>5. /\ found.value + n \in -MaxCount..MaxCount
      /\ data' = Stored(d, k, Entry(found.value + n, found.expires))
      /\ answer' = <<found.value + n, RetrySeconds(found.expires - now)>>
  BY DEF MAdd
<1>6. /\ counter.value = found.value + n /\ counter.expires = found.expires
  BY <1>4 DEF Entry
<1>7. Alive(data', now') = Contract!With(live, k, counter)
  <2>1. counter.expires > now
    BY <1>0, <1>4, <1>6
  <2> HIDE DEF d, live, counter, found
  <2> QED BY <1>0, <1>1, <1>4, <1>5, <2>1, StoredVisible
<1>8. RetrySeconds(left) \in Contract!Seconds(left)
  BY <1>4, RetryIsRounding
<1>9. answer' = <<counter.value, RetrySeconds(left)>> /\ counter.value \in -MaxCount..MaxCount
  BY <1>5, <1>6
<1>10. Contract!Operate(Contract!With(live, k, counter),
                        <<counter.value, RetrySeconds(left)>>, <<0, 0>>)
  <2> HIDE DEF counter, left
  <2> QED BY <1>7, <1>9 DEF Contract!Operate, Alive
<1> HIDE DEF left
<1> QED BY <1>0, <1>8, <1>9, <1>10 DEF Contract!Add, Alive, left

\* Every step of the store is a step of its contract, or shows no change.
LEMMA StepImplements ==
    ASSUME SInv, [MNext]_svars
    PROVE  [Contract!TNext]_(Contract!tvars)
<1> DEFINE live == Alive(data, now)
           liveNext == Alive(data', now')
<1>0. now \in Int /\ \A k \in DOMAIN data : data[k].expires \in 1..(now + 2 * MaxTtl)
  BY DEF SInv, MTypeOK
<1>1. ASSUME NEW k \in Texts, MGet(k) PROVE Contract!Get(k)
  <2>1. liveNext = live
    BY <1>0, <1>1, ExpiredInvisible DEF MGet, Live
  <2>2. answer' = IF k \in DOMAIN live THEN live[k].value ELSE NULL
    BY <1>0, <1>1 DEF MGet, Live, Removed, Alive
  <2> QED BY <1>1, <2>1, <2>2 DEF Contract!Get, Contract!Operate, Alive, MGet
<1>2. ASSUME NEW k \in Texts, NEW v \in Values, NEW ttl \in 1..MaxTtl, MSet(k, v, ttl)
      PROVE  Contract!Set(k, v, ttl)
  <2> DEFINE e == Entry(v, now + 2 * ttl)
  <2>1. e.expires > now
    BY <1>0, TimesAssumption DEF Entry
  <2>2. data' = Stored(Removed(Purge, {}), k, e)
    BY <1>2, PurgeIsRestriction DEF MSet
  <2>3. liveNext = Contract!With(live, k, e)
    <3>1. now' = now
      BY <1>2 DEF MSet
    <3>2. Alive(Removed(Purge, {}), now) = live
      BY PurgeInvisible
    <3> HIDE DEF e
    <3> QED BY <2>1, <2>2, <3>1, <3>2, StoredVisible
  <2> QED BY <1>2, <2>3 DEF Contract!Set, Contract!Operate, Alive, MSet, Entry
<1>3. ASSUME NEW k \in Texts \cup Counters, MDelete(k) PROVE Contract!Delete(k)
  <2>1. liveNext = Contract!Without(live, {k})
    BY <1>3, RemovedVisible DEF MDelete
  <2> QED BY <1>3, <2>1 DEF Contract!Delete, Contract!Operate, Alive, MDelete
<1>4. ASSUME NEW k \in Counters, NEW n \in Amounts, NEW ttl \in 1..MaxTtl, MAdd(k, n, ttl)
      PROVE  Contract!Add(k, n, ttl)
  BY <1>4, AddImplements
<1>5. CASE MTick
  <2>1. liveNext = Contract!Without(live, Contract!Expired(live, now + 1))
    BY <1>0, <1>5, TimePassesVisible DEF MTick
  <2> QED BY <1>5, <2>1 DEF Contract!TNext, Contract!TTick, Alive, MTick
<1>6. CASE MRestart
  <2>1. liveNext = Contract!NoEntries
    BY <1>6 DEF MRestart, NoEntries, Contract!NoEntries, Alive
  <2> QED BY <1>6, <2>1 DEF Contract!TNext, Contract!Restart, Alive, MRestart
<1>7. CASE UNCHANGED svars
  BY <1>7 DEF svars, Contract!tvars
<1> QED
  BY <1>1, <1>2, <1>3, <1>4, <1>5, <1>6, <1>7 DEF MNext, Contract!TNext, Contract!Keys
-------------------------------------------------------------------------------
\* The dict stays well typed and swept.
THEOREM SInvHolds == MSpec => []SInv
<1>1. MInit => SInv
  BY InitSafe
<1>2. SInv /\ [MNext]_svars => SInv'
  BY NextSafe
<1> QED BY <1>1, <1>2, PTL DEF MSpec

\* Nothing that had expired by the last sweep is still held.
THEOREM SweptCleanHolds == MSpec => []SweptClean
<1>1. SInv => SweptClean
  BY DEF SInv
<1> QED BY <1>1, SInvHolds, PTL

\* The process-memory backend does what the rest of the program relies on: its lazy
\* expiry and its sweeps cannot be told from entries that end by themselves.
THEOREM ContractHolds == MSpec => ImplementsContract
<1>1. MInit => Contract!TInit
  BY DEF MInit, NoEntries, Contract!TInit, Contract!NoEntries
<1>2. SInv /\ [MNext]_svars => [Contract!TNext]_(Contract!tvars)
  BY StepImplements
<1> QED BY <1>1, <1>2, SInvHolds, PTL DEF MSpec, ImplementsContract, Contract!TSpec

\* A step that writes leaves nothing that expired a PurgeInterval ago.
Recent == (\E k \in Texts \cup Counters : Written(k)) =>
             \A k \in DOMAIN data' : data'[k].expires > now - PurgeInterval

LEMMA StepSweeps == ASSUME SInv, MNext PROVE Recent
<1>1. ASSUME NEW k \in Texts, MGet(k) PROVE Recent
  BY <1>1 DEF MGet, Live, Removed, Written, Recent
<1>2. ASSUME NEW k \in Texts, NEW v \in Values, NEW ttl \in 1..MaxTtl, MSet(k, v, ttl)
      PROVE  Recent
  BY <1>2, SetSafe DEF Recent
<1>3. ASSUME NEW k \in Texts \cup Counters, MDelete(k) PROVE Recent
  BY <1>3 DEF MDelete, Removed, Written, Recent
<1>4. ASSUME NEW k \in Counters, NEW n \in Amounts, NEW ttl \in 1..MaxTtl, MAdd(k, n, ttl)
      PROVE  Recent
  BY <1>4, AddSafe DEF Recent
<1>5. CASE MTick
  BY <1>5 DEF MTick, Written, Recent
<1>6. CASE MRestart
  BY <1>6 DEF MRestart, NoEntries, Written, Recent
<1> QED BY <1>1, <1>2, <1>3, <1>4, <1>5, <1>6 DEF MNext

\* No step moves the end of a living counter's window.
Fixed == \A k \in Counters \cap DOMAIN data :
            data[k].expires > now /\ k \in DOMAIN data' => data'[k].expires = data[k].expires

LEMMA StepKeepsWindows == ASSUME SInv, MNext PROVE Fixed
<1>0. now \in Int /\ \A k \in DOMAIN data : data[k].expires \in Int
  BY DEF SInv, MTypeOK
<1>1. ASSUME NEW k \in Texts, MGet(k) PROVE Fixed
  BY <1>1 DEF MGet, Live, Removed, Fixed
<1>2. ASSUME NEW k \in Texts, NEW v \in Values, NEW ttl \in 1..MaxTtl, MSet(k, v, ttl)
      PROVE  Fixed
  BY <1>0, <1>2, KeysAssumption DEF MSet, Stored, Purge, Removed, Fixed
<1>3. ASSUME NEW k \in Texts \cup Counters, MDelete(k) PROVE Fixed
  BY <1>3 DEF MDelete, Removed, Fixed
<1>4. ASSUME NEW k \in Counters, NEW n \in Amounts, NEW ttl \in 1..MaxTtl, MAdd(k, n, ttl),
             NEW j \in Counters \cap DOMAIN data, data[j].expires > now
      PROVE  j \in DOMAIN data' => data'[j].expires = data[j].expires
  <2> DEFINE d == Live(Purge, k)
  <2>1. j \in DOMAIN d /\ d[j] = data[j]
    BY <1>0, <1>4 DEF Live, Purge, Removed
  <2>2. data' = Stored(d, k, Entry(CounterIn(d, k, ttl).value + n, CounterIn(d, k, ttl).expires))
    BY <1>4 DEF MAdd
  <2> HIDE DEF d
  <2> QED BY <2>1, <2>2 DEF Stored, CounterIn, Entry
<1>5. CASE MTick
  BY <1>5 DEF MTick, Fixed
<1>6. CASE MRestart
  BY <1>6 DEF MRestart, NoEntries, Fixed
<1> QED BY <1>1, <1>2, <1>3, <1>4, <1>5, <1>6 DEF MNext, Fixed

\* A write leaves nothing behind that expired a PurgeInterval ago.
THEOREM NoOldGarbageHolds == MSpec => NoOldGarbage
<1>1. SInv /\ [MNext]_svars => [Recent]_svars
  BY StepSweeps
<1> QED BY <1>1, SInvHolds, PTL DEF MSpec, NoOldGarbage, Recent

\* No operation moves the end of a living counter's window.
THEOREM WindowFixedHolds == MSpec => WindowFixed
<1>1. SInv /\ [MNext]_svars => [Fixed]_svars
  BY StepKeepsWindows
<1> QED BY <1>1, SInvHolds, PTL DEF MSpec, WindowFixed, Fixed
-------------------------------------------------------------------------------
(***************************************************************************)
(* Redis.  Its keys hold what the contract says is alive, so each command  *)
(* is shown to be an operation of the contract as it stands.               *)
(***************************************************************************)

KvInv ==
    /\ now \in 0..MaxTime
    /\ \A k \in DOMAIN kv : kv[k].expires \in (now + 1)..(now + 2 * MaxTtl)
    /\ \A k \in Counters \cap DOMAIN kv : kv[k] \in [value : Int, expires : Int]
    /\ kv = [k \in DOMAIN kv |-> kv[k]]

\* What the transaction of add leaves under its key, and nowhere else.
LEMMA CountedCounts ==
    ASSUME KvInv, NEW k \in Counters, NEW n \in Int, NEW ttl \in 1..MaxTtl
    PROVE  /\ Redis!Counted(k, n, ttl) =
                Redis!Contract!With(kv, k, Redis!Contract!Counted(kv, k, n, ttl, now))
           /\ Redis!Counted(k, n, ttl)[k] = Redis!Contract!Counted(kv, k, n, ttl, now)
           /\ Redis!Contract!Counted(kv, k, n, ttl, now) \in
                [value : Int, expires : (now + 1)..(now + 2 * MaxTtl)]
<1> DEFINE c == Redis!Contract!Counted(kv, k, n, ttl, now)
           made == Redis!SetEx(kv, k, 0, ttl)
           f == Redis!Counted(k, n, ttl)
           g == Redis!Contract!With(kv, k, c)
<1>1. CASE k \in DOMAIN kv
  <2>1. c = [kv[k] EXCEPT !.value = @ + n] /\ f = [kv EXCEPT ![k].value = @ + n]
    BY <1>1 DEF Redis!Contract!Counted, Redis!Counted, Redis!IncrBy, Redis!SetNxEx
  <2>2. c \in [value : Int, expires : (now + 1)..(now + 2 * MaxTtl)]
    BY <1>1, <2>1 DEF KvInv
  <2>3. f = g /\ f[k] = c
    <3>1. f = [j \in DOMAIN kv |-> IF j = k THEN c ELSE kv[j]]
      BY <1>1, <2>1 DEF KvInv
    <3>2. DOMAIN kv \cup {k} = DOMAIN kv
      BY <1>1
    <3> HIDE DEF f, c
    <3> QED BY <1>1, <3>1, <3>2 DEF Redis!Contract!With
  <2> QED BY <2>2, <2>3
<1>2. CASE k \notin DOMAIN kv
  <2>1. c = [value |-> n, expires |-> now + 2 * ttl] /\ f = [made EXCEPT ![k].value = @ + n]
    BY <1>2 DEF Redis!Contract!Counted, Redis!Counted, Redis!IncrBy, Redis!SetNxEx
  <2>2. c \in [value : Int, expires : (now + 1)..(now + 2 * MaxTtl)]
    BY <2>1, TimesAssumption DEF KvInv
  <2>3. made = [j \in DOMAIN kv \cup {k} |->
                  IF j = k THEN [value |-> 0, expires |-> now + 2 * ttl] ELSE kv[j]]
    BY DEF Redis!SetEx, Redis!Deadline
  <2>4. f = g /\ f[k] = c
    BY <2>1, <2>3 DEF Redis!Contract!With
  <2> QED BY <2>2, <2>4
<1> QED BY <1>1, <1>2
\* The seconds that TTL answers are a rounding of the time left.
LEMMA TtlIsRounding ==
    ASSUME KvInv, NEW s, NEW k, s[k].expires \in (now + 1)..(now + 2 * MaxTtl)
    PROVE  Redis!AtLeastOne(Redis!Ttl(s, k)) \in Redis!Contract!Seconds(s[k].expires - now)
<1>1. PICK left \in 1..(2 * MaxTtl) : left = s[k].expires - now
  BY TimesAssumption DEF KvInv
<1>2. Redis!Ttl(s, k) = (left + 1) \div 2 /\ (left + 1) \div 2 \in 1..MaxTtl
  BY <1>1, TimesAssumption DEF Redis!Ttl, KvInv
<1> QED BY <1>1, <1>2, TimesAssumption DEF Redis!AtLeastOne, Redis!Contract!Seconds

\* Every step of Redis is a step of the contract.
LEMMA RedisStepImplements ==
    ASSUME KvInv, Redis!RNext
    PROVE  Redis!Contract!TNext
<1>1. ASSUME NEW k \in Texts, Redis!RGet(k) PROVE Redis!Contract!Get(k)
  BY <1>1 DEF Redis!RGet, Redis!Command, Redis!Contract!Get, Redis!Contract!Operate
<1>2. ASSUME NEW k \in Texts, NEW v \in Values, NEW ttl \in 1..MaxTtl, Redis!RSet(k, v, ttl)
      PROVE  Redis!Contract!Set(k, v, ttl)
  BY <1>2 DEF Redis!RSet, Redis!Command, Redis!SetEx, Redis!Deadline, Redis!Contract!Set,
              Redis!Contract!Operate, Redis!Contract!With
<1>3. ASSUME NEW k \in Texts \cup Counters, Redis!RDelete(k) PROVE Redis!Contract!Delete(k)
  <2>1. Redis!Del(kv, k) = Redis!Contract!Without(kv, {k})
    BY DEF Redis!Del, Redis!Contract!Without
  <2> QED BY <1>3, <2>1 DEF Redis!RDelete, Redis!Command, Redis!Contract!Delete, Redis!Contract!Operate
<1>4. ASSUME NEW k \in Counters, NEW n \in Amounts, NEW ttl \in 1..MaxTtl, Redis!RAdd(k, n, ttl)
      PROVE  Redis!Contract!Add(k, n, ttl)
  <2> DEFINE c == Redis!Contract!Counted(kv, k, n, ttl, now)
             s == Redis!Counted(k, n, ttl)
             wait == Redis!AtLeastOne(Redis!Ttl(s, k))
  <2>1. s = Redis!Contract!With(kv, k, c) /\ s[k] = c /\ c.expires \in (now + 1)..(now + 2 * MaxTtl)
    BY CountedCounts, CountsAssumption
  <2>2. wait \in Redis!Contract!Seconds(c.expires - now)
    <3> HIDE DEF s, c
    <3> QED BY <2>1, TtlIsRounding
  <2>3. s[k].value \in -MaxCount..MaxCount /\ Redis!Command(s, <<s[k].value, wait>>, <<0, 0>>)
    BY <1>4 DEF Redis!RAdd
  <2> HIDE DEF s, wait
  <2>4. Redis!Contract!Operate(Redis!Contract!With(kv, k, c), <<c.value, wait>>, <<0, 0>>) /\ UNCHANGED now
    <3> HIDE DEF c
    <3> QED BY <2>1, <2>3 DEF Redis!Command, Redis!Contract!Operate
  <2> QED BY <2>1, <2>2, <2>3, <2>4 DEF Redis!Contract!Add
<1>5. CASE Redis!RTick
  <2>1. {j \in DOMAIN kv : kv[j].expires > now'} = DOMAIN kv \ Redis!Contract!Expired(kv, now')
    BY <1>5, TimesAssumption DEF Redis!RTick, Redis!Contract!Expired, KvInv
  <2> QED BY <1>5, <2>1 DEF Redis!RTick, Redis!Contract!TNext, Redis!Contract!TTick, Redis!Contract!Without
<1>6. CASE Redis!RRestart
  BY <1>6 DEF Redis!RRestart, Redis!NoKeys, Redis!Contract!TNext, Redis!Contract!Restart,
              Redis!Contract!NoEntries
<1> QED BY <1>1, <1>2, <1>3, <1>4, <1>5, <1>6 DEF Redis!RNext, Redis!Contract!TNext, Redis!Contract!Keys
LEMMA RedisStepSafe ==
    ASSUME KvInv, Redis!RNext
    PROVE  KvInv' /\ now' >= now
<1>1. CASE UNCHANGED now /\ KvInv'
  BY <1>1, TimesAssumption DEF KvInv
<1>2. ASSUME NEW k \in Texts, NEW v, NEW ttl \in 1..MaxTtl, UNCHANGED now,
             kv' \in {kv, Redis!SetEx(kv, k, v, ttl)}
      PROVE  KvInv'
  <2>1. CASE kv' = kv
    BY <1>2, <2>1 DEF KvInv
  <2>2. CASE kv' = Redis!SetEx(kv, k, v, ttl)
    BY <1>2, <2>2, KeysAssumption, TimesAssumption DEF KvInv, Redis!SetEx, Redis!Deadline
  <2> QED BY <1>2, <2>1, <2>2
<1>3. ASSUME NEW k, UNCHANGED now, kv' \in {kv, Redis!Del(kv, k)} PROVE KvInv'
  BY <1>3 DEF KvInv, Redis!Del
<1>4. ASSUME NEW k \in Counters, NEW n \in Int, NEW ttl \in 1..MaxTtl, UNCHANGED now,
             kv' \in {kv, Redis!Counted(k, n, ttl)}
      PROVE  KvInv'
  <2>1. CASE kv' = kv
    BY <1>4, <2>1 DEF KvInv
  <2>2. CASE kv' = Redis!Counted(k, n, ttl)
    <3> DEFINE c == Redis!Contract!Counted(kv, k, n, ttl, now)
    <3>1. kv' = Redis!Contract!With(kv, k, c) /\ c \in [value : Int, expires : (now + 1)..(now + 2 * MaxTtl)]
      BY <2>2, CountedCounts
    <3> HIDE DEF c
    <3>2. c \in [value : Int, expires : Int] /\ c.expires \in (now + 1)..(now + 2 * MaxTtl)
      BY <3>1, TimesAssumption DEF KvInv
    <3> QED BY <1>4, <3>1, <3>2 DEF KvInv, Redis!Contract!With
  <2> QED BY <1>4, <2>1, <2>2
<1>5. ASSUME NEW k \in Texts, Redis!RGet(k) PROVE KvInv' /\ UNCHANGED now
  BY <1>5 DEF Redis!RGet, Redis!Command, KvInv
<1>6. ASSUME NEW k \in Texts, NEW v \in Values, NEW ttl \in 1..MaxTtl, Redis!RSet(k, v, ttl)
      PROVE  KvInv' /\ UNCHANGED now
  BY <1>2, <1>6 DEF Redis!RSet, Redis!Command
<1>7. ASSUME NEW k \in Texts \cup Counters, Redis!RDelete(k) PROVE KvInv' /\ UNCHANGED now
  BY <1>3, <1>7 DEF Redis!RDelete, Redis!Command
<1>8. ASSUME NEW k \in Counters, NEW n \in Amounts, NEW ttl \in 1..MaxTtl, Redis!RAdd(k, n, ttl)
      PROVE  KvInv' /\ UNCHANGED now
  BY <1>4, <1>8, CountsAssumption DEF Redis!RAdd, Redis!Command
<1>9. CASE Redis!RTick
  <2>1. now \in Int /\ now' = now + 1 /\ now' \in 0..MaxTime
    BY <1>9, TimesAssumption DEF Redis!RTick, KvInv
  <2>2. \A k \in DOMAIN kv' : k \in DOMAIN kv /\ kv'[k] = kv[k] /\ kv[k].expires > now'
    BY <1>9 DEF Redis!RTick
  <2>3. kv' = [k \in DOMAIN kv' |-> kv'[k]]
    BY <1>9 DEF Redis!RTick
  <2>4. \A k \in DOMAIN kv' : kv'[k].expires \in (now' + 1)..(now' + 2 * MaxTtl)
    BY <2>1, <2>2, TimesAssumption DEF KvInv
  <2> QED BY <2>1, <2>2, <2>3, <2>4 DEF KvInv
<1>10. CASE Redis!RRestart
  BY <1>10 DEF Redis!RRestart, Redis!NoKeys, KvInv
<1> QED BY <1>1, <1>5, <1>6, <1>7, <1>8, <1>9, <1>10 DEF Redis!RNext
-------------------------------------------------------------------------------
(***************************************************************************)
(* A process uses one of the two, and nothing is ever stored in the other. *)
(***************************************************************************)

PInv ==
    /\ SInv /\ KvInv
    /\ backend \in {"memory", "redis"}
    /\ backend = "redis" => data = NoEntries /\ answer = NULL
    /\ backend = "memory" => kv = NoEntries /\ reply = NULL

pvars == <<svars, backend, kv, reply>>

LEMMA InitPInv == PInit => PInv
BY InitSafe, TimesAssumption DEF PInit, PInv, KvInv, MInit, NoEntries, Redis!RInit, Redis!NoKeys

\* What the clock alone does to a store in which nothing is stored.
LEMMA EmptyStays ==
    ASSUME SInv, data = NoEntries, UNCHANGED <<data, lastPurge>>, now' \in 0..MaxTime, now' >= now
    PROVE  SInv'
BY TimesAssumption DEF SInv, MTypeOK, SweptClean, NoEntries

LEMMA NextPInv == ASSUME PInv, [PNext]_pvars PROVE PInv'
<1>1. CASE UNCHANGED pvars
  BY <1>1 DEF pvars, svars, PInv, SInv, MTypeOK, SweptClean, KvInv
<1>2. CASE backend = "memory" /\ MNext /\ UNCHANGED <<backend, kv, reply>>
  <2>1. SInv' /\ kv = NoEntries
    BY <1>2, NextSafe DEF PInv
  <2>2. KvInv'
    BY <1>2, <2>1 DEF KvInv, SInv, MTypeOK, NoEntries
  <2> QED BY <1>2, <2>1, <2>2 DEF PInv
<1>3. CASE backend = "redis" /\ Redis!RNext /\ UNCHANGED <<backend, data, lastPurge, answer>>
  <2>1. KvInv' /\ now' >= now
    BY <1>3, RedisStepSafe DEF PInv
  <2>2. SInv'
    BY <1>3, <2>1, EmptyStays DEF PInv, KvInv
  <2> QED BY <1>3, <2>1, <2>2 DEF PInv
<1> QED BY <1>1, <1>2, <1>3 DEF PNext

\* A process and its store keep PInv, whichever backend was configured.
THEOREM PInvHolds == PSpec => []PInv
<1>1. PInv /\ [PNext]_<<svars, backend, kv, reply>> => PInv'
  BY NextPInv DEF pvars
<1> QED BY InitPInv, <1>1, PTL DEF PSpec

\* The dict of the process is well typed, and no sweep is ahead of the clock.
THEOREM TypeCorrectness == PSpec => []MTypeOK
<1>1. PInv => MTypeOK
  BY DEF PInv, SInv
<1> QED BY <1>1, PInvHolds, PTL

\* The steps of a process change the dict as MemoryStore does, or leave it alone.
LEMMA ProcessSteps ==
    ASSUME PInv, [PNext]_pvars
    PROVE  \/ backend = "memory" /\ [MNext]_svars /\ UNCHANGED <<backend, kv, reply>>
           \/ /\ backend = "redis" /\ UNCHANGED <<backend, data, lastPurge, answer>>
              /\ \/ Redis!RNext
                 \/ UNCHANGED <<kv, now, reply>>
BY DEF PInv, PNext, pvars, svars

\* In the process, too, a write leaves nothing behind that expired a PurgeInterval ago.
THEOREM ProcessSweeps == PSpec => NoOldGarbage
<1>1. ASSUME PInv, [PNext]_pvars PROVE [Recent]_svars
  <2>1. CASE backend = "memory" /\ [MNext]_svars
    BY <1>1, <2>1, StepSweeps DEF PInv
  <2>2. CASE UNCHANGED data
    BY <2>2 DEF Recent, Written
  <2> QED BY <1>1, <2>1, <2>2, ProcessSteps
<1>2. PInv /\ [PNext]_<<svars, backend, kv, reply>> => [Recent]_svars
  BY <1>1 DEF pvars
<1> QED BY <1>2, PInvHolds, PTL DEF PSpec, NoOldGarbage, Recent

\* In the process, too, no operation moves the end of a living counter's window.
THEOREM ProcessKeepsWindows == PSpec => WindowFixed
<1>1. ASSUME PInv, [PNext]_pvars PROVE [Fixed]_svars
  <2>1. CASE backend = "memory" /\ [MNext]_svars
    BY <1>1, <2>1, StepKeepsWindows DEF PInv
  <2>2. CASE UNCHANGED data
    BY <2>2 DEF Fixed
  <2> QED BY <1>1, <2>1, <2>2, ProcessSteps
<1>2. PInv /\ [PNext]_<<svars, backend, kv, reply>> => [Fixed]_svars
  BY <1>1 DEF pvars
<1> QED BY <1>2, PInvHolds, PTL DEF PSpec, WindowFixed, Fixed

\* The dict of the process keeps the contract, used or not.
THEOREM MemoryKeepsContract == PSpec => ImplementsContract
<1>1. PInit => Contract!TInit
  BY DEF PInit, MInit, NoEntries, Contract!TInit, Contract!NoEntries
<1>2. ASSUME PInv, [PNext]_pvars PROVE [Contract!TNext]_(Contract!tvars)
  <2>1. CASE backend = "memory" /\ [MNext]_svars
    BY <1>2, <2>1, StepImplements DEF PInv
  <2>2. CASE backend = "redis" /\ UNCHANGED <<data, answer, now>>
    BY <2>2 DEF Contract!tvars
  <2>3. CASE backend = "redis" /\ UNCHANGED <<data, answer>> /\ Redis!RNext /\ now' # now
    <3>1. Redis!RTick
      BY <2>3 DEF Redis!RNext, Redis!RGet, Redis!RSet, Redis!RDelete, Redis!RAdd, Redis!RRestart, Redis!Command
    <3>2. data = NoEntries /\ data' = NoEntries /\ answer' = NULL
      BY <1>2, <2>3 DEF PInv
    <3>3. Contract!TTick
      BY <3>1, <3>2 DEF Redis!RTick, Contract!TTick, Contract!Without, Contract!Expired, NoEntries
    <3> QED BY <3>3 DEF Contract!TNext
  <2> QED BY <1>2, <2>1, <2>2, <2>3, ProcessSteps
<1>3. PInv /\ [PNext]_<<svars, backend, kv, reply>> => [Contract!TNext]_(Contract!tvars)
  BY <1>2 DEF pvars
<1> QED BY <1>1, <1>3, PInvHolds, PTL DEF PSpec, ImplementsContract, Contract!TSpec

\* Redis keeps the contract with the answers of a backend out of reach: SET NX and INCRBY in
\* one transaction are a counter whose window is fixed, TTL a rounding of what is left of it.
THEOREM RedisKeepsContract == PSpec => RedisImplementsContract
<1>1. PInit => Redis!Contract!TInit
  BY DEF PInit, Redis!RInit, Redis!NoKeys, Redis!Contract!TInit, Redis!Contract!NoEntries
<1>2. ASSUME PInv, [PNext]_pvars PROVE [Redis!Contract!TNext]_(Redis!Contract!tvars)
  <2>1. CASE Redis!RNext
    BY <1>2, <2>1, RedisStepImplements DEF PInv
  <2>2. CASE UNCHANGED <<kv, now, reply>>
    BY <2>2 DEF Redis!Contract!tvars
  <2>3. CASE backend = "memory" /\ MNext /\ UNCHANGED <<kv, reply>> /\ now' # now
    <3>1. MTick
      BY <2>3 DEF MNext, MGet, MSet, MDelete, MAdd, MRestart
    <3>2. kv = NoEntries /\ kv' = NoEntries /\ reply' = NULL
      BY <1>2, <2>3 DEF PInv
    <3>3. Redis!Contract!TTick
      BY <3>1, <3>2 DEF MTick, Redis!Contract!TTick, Redis!Contract!Without, Redis!Contract!Expired, NoEntries
    <3> QED BY <3>3 DEF Redis!Contract!TNext
  <2> QED BY <1>2, <2>1, <2>2, <2>3, ProcessSteps DEF svars
<1>3. PInv /\ [PNext]_<<svars, backend, kv, reply>> => [Redis!Contract!TNext]_(Redis!Contract!tvars)
  BY <1>2 DEF pvars
<1> QED BY <1>1, <1>3, PInvHolds, PTL DEF PSpec, RedisImplementsContract, Redis!ImplementsContract,
                                          Redis!Contract!TSpec
===============================================================================
