------------------------------ MODULE LoginProofs ------------------------------
(***************************************************************************)
(* What the login limit counts and what it guarantees: for every number of *)
(* threads, accounts and addresses, every limit and every window, with a   *)
(* store that answers.                                                     *)
(***************************************************************************)
EXTENDS LoginHistory, FiniteSetTheorems, TLAPS

Blocks == [counter : Counters, seconds : Int]

Attempts == [pc : {"idle", "address", "check", "refused", "release"},
             account : Accounts \cup {NULL},
             address : Addresses \cup {NULL},
             blocked : SUBSET Blocks]

\* Where a login is says which limits it met and which counters may count it.
Consistent(h) ==
    LET l == attempt[h]
    IN  /\ l.pc # "idle" => l.account \in Accounts /\ l.address \in Addresses
        /\ l.pc = "address" => \A b \in l.blocked : b.counter = l.account
        /\ l.pc \in {"check", "release"} => l.blocked = {}
        /\ l.pc = "refused" => l.blocked # {}
        /\ counted[h] \subseteq CASE l.pc = "idle"    -> {}
                                  [] l.pc = "address" -> {l.account}
                                  [] l.pc = "release" -> {l.address}
                                  [] OTHER            -> {l.account, l.address}

CountersTyped ==
    /\ now \in Nat
    /\ DOMAIN live \subseteq Counters
    /\ live \in [DOMAIN live -> [value : -MaxCount..MaxCount, expires : Int]]
    /\ \A k \in DOMAIN live : live[k].expires > now

LoginsTyped ==
    /\ attempt \in [Handlers -> Attempts]
    /\ counted \in [Handlers -> SUBSET DOMAIN live]
    /\ \A h \in Handlers : Consistent(h)

\* Only an address is ever given something back.
BooksTyped ==
    /\ books \in [Counters -> [failed : Nat, refused : Nat, unowed : Nat]]
    /\ \A k \in Counters : k \notin DOMAIN live => books[k] = Nothing
    /\ \A a \in Accounts : books[a].unowed = 0

LoginTypes == CountersTyped /\ LoginsTyped /\ BooksTyped

Balanced ==
    \A k \in DOMAIN live :
        live[k].value = books[k].failed + books[k].refused + Cardinality(Pending(k)) - books[k].unowed

\* The logins that still may try a password, those on their way to the second limit included.
Trying(a) == {h \in Pending(a) : attempt[h].blocked = {}}

\* AccountLimitHolds made inductive: a login counts against the limit from its reservation on.
Limited == \A a \in Accounts : books[a].failed + Cardinality(Trying(a)) <= AccountLimit

\* The wait of a limit that was met reaches to the end of that counter's window.
WaitReaches(h) ==
    \A b \in attempt[h].blocked : b.counter \in counted[h] => live[b.counter].expires <= now + 2 * b.seconds + 1

\* At most two waits are compared, one per limit.
FewWaits(h) ==
    \E x, y \in Int : /\ \A b \in attempt[h].blocked : b.seconds \in {x, y}
                      /\ attempt[h].pc = "address" => x = y

Waits == \A h \in Handlers : WaitReaches(h) /\ FewWaits(h)

BInv == LoginTypes /\ Balanced /\ Limited /\ Waits
-------------------------------------------------------------------------------
LEMMA Limits ==
    /\ Accounts \subseteq Counters /\ Addresses \subseteq Counters /\ Accounts \cap Addresses = {}
    /\ Window \in Nat \ {0} /\ AccountLimit \in Nat \ {0} /\ AddressLimit \in Nat \ {0}
    /\ MaxTtl \in Nat \ {0} /\ MaxCount \in Nat
BY LoginAssumption, TtlAssumption, CountAssumption

\* A set is its other elements, and x if it has it.
LEMMA CountOne ==
    ASSUME NEW S, IsFiniteSet(S), NEW x
    PROVE  /\ Cardinality(S \ {x}) \in Nat
           /\ Cardinality(S) = Cardinality(S \ {x}) + (IF x \in S THEN 1 ELSE 0)
<1>1. IsFiniteSet(S \ {x}) /\ Cardinality(S \ {x}) = IF x \in S THEN Cardinality(S) - 1 ELSE Cardinality(S)
  BY FS_RemoveElement
<1> QED BY <1>1, FS_CardinalityType

LEMMA FiniteLogins ==
    ASSUME NEW k
    PROVE  /\ IsFiniteSet(Pending(k)) /\ IsFiniteSet(Trying(k))
           /\ Cardinality(Pending(k)) \in Nat /\ Cardinality(Trying(k)) \in Nat
           /\ Cardinality(Trying(k)) <= Cardinality(Pending(k))
<1>1. Pending(k) \in SUBSET Handlers /\ Trying(k) \in SUBSET Pending(k)
  BY DEF Pending, Trying
<1>2. IsFiniteSet(Pending(k))
  BY <1>1, FS_Subset, LoginAssumption
<1> QED BY <1>1, <1>2, FS_Subset, FS_CardinalityType

\* What one addition does to the counters when the store answers.
Added(k, n) ==
    /\ now' = now
    /\ DOMAIN live' = DOMAIN live \cup {k}
    /\ live' \in [DOMAIN live' -> [value : -MaxCount..MaxCount, expires : Int]]
    /\ \A j \in DOMAIN live \ {k} : live'[j] = live[j]
    /\ k \in DOMAIN live => /\ live'[k].value = live[k].value + n
                            /\ live'[k].expires = live[k].expires
    /\ k \notin DOMAIN live => /\ live'[k].value = n
                               /\ live'[k].expires = now + 2 * Window
    /\ \E s \in 1..MaxTtl : /\ answer' = <<live'[k].value, s>>
                            /\ live'[k].expires <= now + 2 * s + 1

LEMMA AddAdds ==
    ASSUME ~FailsOpen, CountersTyped, NEW k \in Counters, NEW n \in Int, Add(k, n, Window)
    PROVE  Added(k, n)
<1> DEFINE counter == Counted(live, k, n, Window, now)
<1>1. /\ counter \in [value : Int, expires : Int]
      /\ k \in DOMAIN live => counter.value = live[k].value + n /\ counter.expires = live[k].expires
      /\ k \notin DOMAIN live => counter.value = n /\ counter.expires = now + 2 * Window
  BY Limits DEF Counted, CountersTyped
<1> HIDE DEF counter
<1>2. PICK s \in Seconds(counter.expires - now) :
         live' = With(live, k, counter) /\ answer' = <<counter.value, s>>
  BY DEF Add, Operate, counter
<1>3. s \in 1..MaxTtl /\ counter.expires <= now + 2 * s + 1
  BY <1>1, <1>2, Limits DEF Seconds, CountersTyped
<1>4. DOMAIN live' = DOMAIN live \cup {k} /\ \A j \in DOMAIN live' : live'[j] = IF j = k THEN counter ELSE live[j]
  BY <1>2 DEF With
<1>5. counter.value \in -MaxCount..MaxCount /\ now' = now
  BY DEF Add, counter
<1>6. live' \in [DOMAIN live' -> [value : -MaxCount..MaxCount, expires : Int]]
  <2>1. counter \in [value : -MaxCount..MaxCount, expires : Int]
    BY <1>1, <1>5
  <2> QED BY <1>2, <1>4, <2>1 DEF With, CountersTyped
<1> QED BY <1>1, <1>2, <1>3, <1>4, <1>5, <1>6 DEF Added
-------------------------------------------------------------------------------
(***************************************************************************)
(* One step, of the thread h or of nobody.                                 *)
(***************************************************************************)

One(b) == IF b THEN 1 ELSE 0

Others(h) == \A g \in Handlers \ {h} : attempt'[g] = attempt[g]

\* Of the other logins, a counter counts those it counted before, if it is still the same.
LEMMA OthersKept ==
    ASSUME LoginTypes, NEW h \in Handlers, Others(h), Keep(h)
    PROVE  /\ \A g \in Handlers \ {h} : counted'[g] = {k \in counted[g] : Same(k)}
           /\ counted'[h] = IF attempt'[h].pc = "idle" THEN {} ELSE CountedNow(h)
           /\ \A k : Pending(k)' \ {h} = IF Same(k) THEN Pending(k) \ {h} ELSE {}
           /\ \A k : Trying(k)' \ {h} = IF Same(k) THEN Trying(k) \ {h} ELSE {}
<1>1. ASSUME NEW g \in Handlers \ {h} PROVE counted'[g] = {k \in counted[g] : Same(k)}
  <2>1. attempt'[g] = attempt[g] /\ (attempt[g].pc = "idle" => counted[g] = {})
    BY DEF Others, LoginTypes, LoginsTyped, Consistent
  <2> QED BY <2>1 DEF Keep, CountedNow
<1>2. counted'[h] = IF attempt'[h].pc = "idle" THEN {} ELSE CountedNow(h)
  BY DEF Keep
<1>3. ASSUME NEW k PROVE Pending(k)' \ {h} = IF Same(k) THEN Pending(k) \ {h} ELSE {}
  BY <1>1 DEF Pending
<1>4. ASSUME NEW k PROVE Trying(k)' \ {h} = IF Same(k) THEN Trying(k) \ {h} ELSE {}
  BY <1>1 DEF Pending, Trying, Others
<1> QED BY <1>1, <1>2, <1>3, <1>4

\* How many a counter counts after the step.
LEMMA PendingAfter ==
    ASSUME LoginTypes, NEW h \in Handlers, Others(h), Keep(h), NEW k
    PROVE  /\ Cardinality(Pending(k))' =
                (IF Same(k) THEN Cardinality(Pending(k)) - One(k \in counted[h]) ELSE 0) + One(k \in counted'[h])
           /\ Cardinality(Trying(k))' =
                (IF Same(k) THEN Cardinality(Trying(k)) - One(h \in Trying(k)) ELSE 0) + One(h \in Trying(k)')
<1>1. IsFiniteSet(Pending(k)') /\ IsFiniteSet(Trying(k)')
  <2>1. Pending(k)' \in SUBSET Handlers /\ Trying(k)' \in SUBSET Handlers
    BY DEF Pending, Trying
  <2> QED BY <2>1, FS_Subset, LoginAssumption
<1>2. (h \in Pending(k) <=> k \in counted[h]) /\ (h \in Pending(k)' <=> k \in counted'[h])
  BY DEF Pending
<1> DEFINE P == Pending(k)   PP == Pending(k)'   T == Trying(k)   TT == Trying(k)'
<1>3. /\ Cardinality(P) = Cardinality(P \ {h}) + One(h \in P) /\ Cardinality(P \ {h}) \in Nat
      /\ Cardinality(T) = Cardinality(T \ {h}) + One(h \in T) /\ Cardinality(T \ {h}) \in Nat
  BY FiniteLogins, CountOne DEF One
<1>4. /\ Cardinality(PP) = Cardinality(PP \ {h}) + One(h \in PP) /\ Cardinality(PP \ {h}) \in Nat
      /\ Cardinality(TT) = Cardinality(TT \ {h}) + One(h \in TT) /\ Cardinality(TT \ {h}) \in Nat
  BY <1>1, CountOne DEF One
<1>5. PP \ {h} = (IF Same(k) THEN P \ {h} ELSE {}) /\ TT \ {h} = (IF Same(k) THEN T \ {h} ELSE {})
  BY OthersKept
<1> HIDE DEF P, PP, T, TT
<1>6. /\ Cardinality(PP) = (IF Same(k) THEN Cardinality(P) - One(h \in P) ELSE 0) + One(h \in PP)
      /\ Cardinality(TT) = (IF Same(k) THEN Cardinality(T) - One(h \in T) ELSE 0) + One(h \in TT)
  <2>1. CASE Same(k)
    <3>1. Cardinality(PP \ {h}) = Cardinality(P \ {h}) /\ Cardinality(TT \ {h}) = Cardinality(T \ {h})
      BY <1>5, <2>1
    <3> QED BY <1>3, <1>4, <2>1, <3>1 DEF One
  <2>2. CASE ~Same(k)
    <3>1. PP \ {h} = {} /\ TT \ {h} = {} /\ Cardinality({}) = 0
      BY <1>5, <2>2, FS_EmptySet
    <3> QED BY <1>4, <2>2, <3>1 DEF One
  <2> QED BY <2>1, <2>2
<1> QED BY <1>2, <1>6 DEF P, PP, T, TT

\* Who ends in the step.
LEMMA EndingIsOne ==
    ASSUME LoginTypes, NEW h \in Handlers, NEW k
    PROVE  /\ Ending(h, k).failed = One(Reject(h) /\ k \in counted[h])
           /\ Ending(h, k).refused = One(Refuse(h) /\ k \in counted[h])
           /\ Ending(h, k).unowed = One(ReleaseAddress(h) /\ k = attempt[h].address /\ k \notin counted[h])
           /\ Ending(h, k) \in [failed : Nat, refused : Nat, unowed : Nat]
BY DEF Ending, One

Book == [failed : Nat, refused : Nat, unowed : Nat]

LEMMA EnteringAdds ==
    ASSUME NEW b \in Book, NEW e \in Book
    PROVE  /\ Nothing \in Book /\ Entered(b, e) \in Book
           /\ Entered(b, e).failed = b.failed + e.failed
           /\ Entered(b, e).refused = b.refused + e.refused
           /\ Entered(b, e).unowed = b.unowed + e.unowed
BY DEF Book, Nothing, Entered

LEMMA BooksKept ==
    ASSUME LoginTypes, NEW h \in Handlers, Keep(h)
    PROVE  BooksTyped'
<1>1. DOMAIN books' = Counters /\ books' = [k \in Counters |-> books'[k]]
  BY DEF Keep
<1>2. ASSUME NEW k \in Counters
      PROVE  /\ books'[k] \in Book
             /\ k \notin DOMAIN live' => books'[k] = Nothing
             /\ k \in Accounts => books'[k].unowed = 0
  <2> DEFINE b == IF Same(k) THEN books[k] ELSE Nothing
  <2>1. books'[k] = IF k \notin DOMAIN live' THEN Nothing ELSE Entered(b, Ending(h, k))
    BY DEF Keep
  <2>2. b \in Book /\ Ending(h, k) \in Book /\ Nothing \in Book
    BY EndingIsOne, EnteringAdds DEF LoginTypes, BooksTyped, Book, Nothing
  <2>3. k \in Accounts => b.unowed = 0 /\ Ending(h, k).unowed = 0
    BY EndingIsOne, Limits DEF One, ReleaseAddress, LoginTypes, LoginsTyped, BooksTyped, Consistent, Nothing
  <2> HIDE DEF b
  <2> QED BY <2>1, <2>2, <2>3, EnteringAdds DEF Nothing
<1> QED BY <1>1, <1>2, Limits DEF BooksTyped, Book

\* The change of a counter is the change of what it counts.
Explained(h, k) ==
    live'[k].value = (IF Same(k) THEN live[k].value - One(k \in counted[h]) ELSE 0)
                     + Ending(h, k).failed + Ending(h, k).refused - Ending(h, k).unowed + One(k \in counted'[h])

LEMMA SumsKept ==
    ASSUME LoginTypes, Balanced, NEW h \in Handlers, Others(h), Keep(h), DOMAIN live' \subseteq Counters,
           \A k \in DOMAIN live' : Explained(h, k)
    PROVE  Balanced'
<1> SUFFICES ASSUME NEW k \in DOMAIN live'
             PROVE  live'[k].value = books'[k].failed + books'[k].refused + Cardinality(Pending(k))' - books'[k].unowed
  BY DEF Balanced
<1> DEFINE c == Cardinality(Pending(k))   e == Ending(h, k)
           i == One(k \in counted[h])     j == One(k \in counted'[h])
<1>1. books'[k] = Entered(IF Same(k) THEN books[k] ELSE Nothing, e)
  BY DEF Keep
<1>2. Cardinality(Pending(k))' = (IF Same(k) THEN c - i ELSE 0) + j
  BY PendingAfter
<1>3. e \in [failed : Nat, refused : Nat, unowed : Nat] /\ c \in Nat /\ i \in Int /\ j \in Int
  BY EndingIsOne, FiniteLogins DEF One
<1>4. live'[k].value = (IF Same(k) THEN live[k].value - i ELSE 0) + e.failed + e.refused - e.unowed + j
  BY DEF Explained
<1> HIDE DEF c, e, i, j
<1>5. CASE Same(k)
  <2>1. live[k].value = books[k].failed + books[k].refused + c - books[k].unowed
    BY <1>5 DEF Same, Balanced, c
  <2>2. books[k] \in [failed : Nat, refused : Nat, unowed : Nat]
    BY DEF LoginTypes, BooksTyped
  <2>3. /\ books'[k].failed = books[k].failed + e.failed /\ books'[k].refused = books[k].refused + e.refused
        /\ books'[k].unowed = books[k].unowed + e.unowed
    BY <1>1, <1>5 DEF Entered
  <2> QED BY <1>2, <1>3, <1>4, <1>5, <2>1, <2>2, <2>3
<1>6. CASE ~Same(k)
  <2>1. books'[k].failed = e.failed /\ books'[k].refused = e.refused /\ books'[k].unowed = e.unowed
    BY <1>1, <1>3, <1>6 DEF Entered, Nothing
  <2> QED BY <1>2, <1>3, <1>4, <1>6, <2>1
<1> QED BY <1>5, <1>6
\* A counter that is under its limit keeps it; over it, no login more comes to count.
WithinLimit(h, a) ==
    \/ a \notin DOMAIN live'
    \/ live'[a].value <= AccountLimit
    \/ Same(a) /\ Ending(h, a).failed + One(h \in Trying(a)') <= One(h \in Trying(a))

LEMMA LimitsKept ==
    ASSUME LoginTypes, Limited, NEW h \in Handlers, Others(h), Keep(h), LoginTypes', Balanced',
           \A a \in Accounts : WithinLimit(h, a)
    PROVE  Limited'
<1> SUFFICES ASSUME NEW a \in Accounts PROVE books'[a].failed + Cardinality(Trying(a))' <= AccountLimit
  BY DEF Limited
<1> DEFINE c == Cardinality(Pending(a))'   t == Cardinality(Trying(a))'
<1>1. c \in Nat /\ t \in Nat /\ t <= c
  <2>1. Pending(a)' \in SUBSET Handlers /\ Trying(a)' \in SUBSET Pending(a)'
    BY DEF Pending, Trying
  <2>2. IsFiniteSet(Pending(a)')
    BY <2>1, FS_Subset, LoginAssumption
  <2> QED BY <2>1, <2>2, FS_Subset, FS_CardinalityType
<1>2. books'[a].failed \in Nat /\ books'[a].refused \in Nat /\ books'[a].unowed = 0
  BY Limits DEF LoginTypes, BooksTyped
<1>3. CASE a \notin DOMAIN live'
  <2>1. Pending(a)' = {}
    BY <1>3 DEF Pending, LoginTypes, LoginsTyped
  <2>2. c = 0 /\ books'[a].failed = 0
    BY <1>3, <2>1, Limits, FS_EmptySet DEF LoginTypes, BooksTyped, Nothing
  <2> QED BY <1>1, <2>2, Limits
<1>4. CASE a \in DOMAIN live' /\ live'[a].value <= AccountLimit
  <2>1. live'[a].value = books'[a].failed + books'[a].refused + c - books'[a].unowed
    BY <1>4 DEF Balanced
  <2> HIDE DEF c, t
  <2>2. books'[a].failed + t <= live'[a].value /\ live'[a].value \in Int
    BY <1>1, <1>2, <2>1
  <2> QED BY <1>1, <1>2, <1>4, <2>2, Limits DEF t
<1>5. CASE a \in DOMAIN live' /\ Same(a) /\ Ending(h, a).failed + One(h \in Trying(a)') <= One(h \in Trying(a))
  <2> DEFINE u == Cardinality(Trying(a))   i == One(h \in Trying(a))   j == One(h \in Trying(a)')
  <2>1. books'[a].failed = books[a].failed + Ending(h, a).failed
    BY <1>5, EndingIsOne, EnteringAdds, Limits DEF Keep, LoginTypes, BooksTyped, Book
  <2>2. t = u - i + j
    BY <1>5, PendingAfter
  <2>3. u \in Nat /\ i \in Int /\ j \in Int /\ Ending(h, a).failed \in Nat /\ books[a].failed \in Nat
    BY FiniteLogins, EndingIsOne, Limits DEF One, LoginTypes, BooksTyped
  <2>4. books[a].failed + u <= AccountLimit /\ Ending(h, a).failed + j <= i
    BY <1>5 DEF Limited
  <2> HIDE DEF t, u, i, j
  <2>5. books'[a].failed + t <= AccountLimit
    BY <2>1, <2>2, <2>3, <2>4, Limits
  <2> QED BY <2>5 DEF t
<1> QED BY <1>3, <1>4, <1>5 DEF WithinLimit

\* A wait that reaches to the end of a window goes on reaching there.
LEMMA WaitsKept ==
    ASSUME LoginTypes, Waits, NEW h \in Handlers, Others(h), Keep(h), now' \in Nat, now' >= now,
           \A k \in DOMAIN live : k \in DOMAIN live' => live'[k].expires = live[k].expires,
           WaitReaches(h)', FewWaits(h)'
    PROVE  Waits'
<1> SUFFICES ASSUME NEW g \in Handlers \ {h} PROVE WaitReaches(g)' /\ FewWaits(g)'
  BY DEF Waits
<1>1. attempt'[g] = attempt[g] /\ counted'[g] = {k \in counted[g] : Same(k)}
  BY OthersKept DEF Others
<1>2. FewWaits(g)'
  BY <1>1 DEF Waits, FewWaits
<1>3. ASSUME NEW b \in attempt[g].blocked, b.counter \in counted'[g]
      PROVE  live'[b.counter].expires <= now' + 2 * b.seconds + 1
  <2>1. b.counter \in counted[g] /\ b.counter \in DOMAIN live /\ b.counter \in DOMAIN live'
    BY <1>1, <1>3 DEF Same
  <2>2. live[b.counter].expires \in Int /\ b.seconds \in Int /\ now \in Nat
    BY <2>1 DEF LoginTypes, CountersTyped, LoginsTyped, Attempts, Blocks
  <2>3. live[b.counter].expires <= now + 2 * b.seconds + 1
    BY <2>1 DEF Waits, WaitReaches
  <2> QED BY <2>1, <2>2, <2>3
<1> QED BY <1>1, <1>2, <1>3 DEF WaitReaches

\* All together: what a step of h has to show.
LEMMA StepIsSafe ==
    ASSUME BInv, NEW h \in Handlers, NEW l \in Attempts, attempt' = [attempt EXCEPT ![h] = l], Keep(h),
           CountersTyped', now' >= now, Consistent(h)',
           \A k \in DOMAIN live : k \in DOMAIN live' => live'[k].expires = live[k].expires,
           \A k \in DOMAIN live' : Explained(h, k),
           \A a \in Accounts : WithinLimit(h, a),
           WaitReaches(h)', FewWaits(h)'
    PROVE  BInv'
<1>1. Others(h) /\ attempt' \in [Handlers -> Attempts] /\ LoginTypes
  BY DEF Others, BInv, LoginTypes, LoginsTyped
<1>2. LoginsTyped'
  <2>1. ASSUME NEW g \in Handlers \ {h} PROVE Consistent(g)' /\ counted'[g] \subseteq DOMAIN live'
    <3>1. attempt'[g] = attempt[g] /\ counted'[g] = {k \in counted[g] : Same(k)}
      BY <1>1, OthersKept DEF Others
    <3>2. counted'[g] \subseteq counted[g] /\ Consistent(g)
      BY <1>1, <3>1 DEF LoginTypes, LoginsTyped
    <3> QED BY <3>1, <3>2 DEF Consistent, Same
  <2>2. counted'[h] \subseteq DOMAIN live'
    <3>1. CountedNow(h) \subseteq DOMAIN live'
      BY DEF CountedNow, Same
    <3>2. counted'[h] \in {CountedNow(h), {}}
      BY <1>1, OthersKept
    <3> QED BY <3>1, <3>2
  <2>3. counted' \in [Handlers -> SUBSET DOMAIN live']
    BY <2>1, <2>2 DEF Keep
  <2> QED BY <1>1, <2>1, <2>3 DEF LoginsTyped
<1>3. LoginTypes'
  BY <1>1, <1>2, BooksKept DEF LoginTypes
<1>4. Balanced'
  BY <1>1, SumsKept DEF BInv, CountersTyped
<1>5. Limited'
  BY <1>1, <1>3, <1>4, LimitsKept DEF BInv
<1>6. Waits'
  BY <1>1, WaitsKept DEF BInv, CountersTyped
<1> QED BY <1>3, <1>4, <1>5, <1>6 DEF BInv
-------------------------------------------------------------------------------
(***************************************************************************)
(* The steps of a login, one by one.                                       *)
(***************************************************************************)

\* Where the counters are not touched, they are the same.
LEMMA Untouched ==
    ASSUME LoginTypes, UNCHANGED <<live, now>>
    PROVE  /\ CountersTyped' /\ now' >= now
           /\ \A k : Same(k) <=> k \in DOMAIN live
           /\ \A k \in DOMAIN live : k \in DOMAIN live' => live'[k].expires = live[k].expires
           /\ \A k \in DOMAIN live : live[k].value \in Int /\ live'[k].value = live[k].value
BY Limits DEF LoginTypes, CountersTyped, Same

\* What an addition leaves the counters like.
LEMMA AddingIsTyped ==
    ASSUME LoginTypes, NEW k \in Counters, NEW n \in Int, Added(k, n)
    PROVE  /\ CountersTyped' /\ now' >= now
           /\ \A j : Same(j) <=> j \in DOMAIN live
           /\ \A j \in DOMAIN live : j \in DOMAIN live' => live'[j].expires = live[j].expires
           /\ \A j \in DOMAIN live \ {k} : live[j].value \in Int /\ live'[j].value = live[j].value
           /\ live'[k].value = (IF Same(k) THEN live[k].value ELSE 0) + n
           /\ k \in DOMAIN live' /\ \A j \in DOMAIN live' : j # k => j \in DOMAIN live
<1>1. CountersTyped'
  BY Limits DEF Added, LoginTypes, CountersTyped
<1> QED BY <1>1, Limits DEF Added, LoginTypes, CountersTyped, Same

\* What Over answers: at most one limit that was met, with its wait.
LEMMA OverIsTyped ==
    ASSUME NEW k \in Counters, NEW v \in Int, NEW s \in Int, NEW limit \in Int
    PROVE  /\ Over(k, <<v, s>>, limit) \subseteq {[counter |-> k, seconds |-> s]}
           /\ Over(k, <<v, s>>, limit) \subseteq Blocks
           /\ (Over(k, <<v, s>>, limit) = {}) <=> v <= limit
<1>1. Over(k, <<v, s>>, limit) = IF v > limit THEN {[counter |-> k, seconds |-> s]} ELSE {}
  BY DEF Over
<1>2. [counter |-> k, seconds |-> s] \in Blocks
  BY DEF Blocks
<1>3. CASE v > limit
  BY <1>1, <1>2, <1>3
<1>4. CASE ~(v > limit)
  BY <1>1, <1>4
<1> QED BY <1>3, <1>4

LEMMA ReserveAccountIsSafe ==
    ASSUME ~FailsOpen, BInv, NEW h \in Handlers, NEW a \in Accounts, NEW p \in Addresses,
           ReserveAccount(h, a, p), Keep(h)
    PROVE  BInv'
<1>1. LoginTypes /\ a \in Counters /\ Added(a, 1) /\ attempt[h].pc = "idle" /\ counted[h] = {}
  BY AddAdds, Limits DEF BInv, LoginTypes, LoginsTyped, Consistent, ReserveAccount
<1>2. PICK s \in 1..MaxTtl : /\ answer' = <<live'[a].value, s>>
                             /\ live'[a].expires <= now + 2 * s + 1
  BY <1>1 DEF Added
<1>3. live'[a].value \in Int
  BY <1>1, AddingIsTyped, Limits DEF CountersTyped
<1> DEFINE over == Over(a, answer', AccountLimit)
           l == [pc |-> "address", account |-> a, address |-> p, blocked |-> over]
<1>4. /\ over \subseteq {[counter |-> a, seconds |-> s]} /\ over \subseteq Blocks
      /\ (over = {}) <=> live'[a].value <= AccountLimit
  <2>1. over = Over(a, <<live'[a].value, s>>, AccountLimit) /\ s \in Int /\ AccountLimit \in Int
    BY <1>2, Limits
  <2> QED BY <1>1, <1>3, <2>1, OverIsTyped
<1>5. l \in Attempts /\ attempt' = [attempt EXCEPT ![h] = l] /\ attempt'[h] = l
  BY <1>4 DEF Attempts, ReserveAccount, Continue, BInv, LoginTypes, LoginsTyped
<1> HIDE DEF over
<1>6. counted'[h] = {a}
  <2>1. counted'[h] = CountedNow(h)
    BY <1>1, <1>5, OthersKept DEF Others, LoginTypes, LoginsTyped
  <2>2. a \in DOMAIN live'
    BY <1>1 DEF Added
  <2> QED BY <1>1, <1>5, <2>1, <2>2 DEF CountedNow
<1>7. \A k : Ending(h, k).failed = 0 /\ Ending(h, k).refused = 0 /\ Ending(h, k).unowed = 0
  BY <1>1, EndingIsOne DEF One, Reject, Refuse, ReleaseAddress
<1>8. \A k \in DOMAIN live' : Explained(h, k)
  <2>1. ASSUME NEW k \in DOMAIN live', k # a PROVE Explained(h, k)
    BY <1>1, <1>6, <1>7, <2>1, AddingIsTyped DEF Explained, One
  <2>2. Explained(h, a)
    BY <1>1, <1>3, <1>6, <1>7, AddingIsTyped DEF Explained, One, Same, LoginTypes, CountersTyped
  <2> QED BY <2>1, <2>2
<1>9. \A b \in Accounts : WithinLimit(h, b)
  <2>1. ASSUME NEW b \in Accounts, b # a, b \in DOMAIN live' PROVE WithinLimit(h, b)
    <3>1. Same(b) /\ h \notin Trying(b)'
      BY <1>1, <1>6, <2>1, AddingIsTyped DEF Trying, Pending
    <3> QED BY <1>7, <3>1 DEF WithinLimit, One
  <2>2. WithinLimit(h, a)
    <3>1. CASE over = {}
      BY <1>4, <3>1 DEF WithinLimit
    <3>2. CASE over # {}
      <4>1. h \notin Trying(a)'
        BY <1>5, <3>2 DEF Trying
      <4>2. CASE a \in DOMAIN live
        BY <1>1, <1>7, <4>1, <4>2, AddingIsTyped DEF WithinLimit, One
      <4>3. CASE a \notin DOMAIN live
        BY <1>1, <4>3, Limits DEF WithinLimit, Added
      <4> QED BY <4>2, <4>3
    <3> QED BY <3>1, <3>2
  <2> QED BY <2>1, <2>2 DEF WithinLimit
<1>10. WaitReaches(h)' /\ FewWaits(h)'
  BY <1>1, <1>2, <1>4, <1>5 DEF WaitReaches, FewWaits, Added
<1>11. Consistent(h)'
  BY <1>4, <1>5, <1>6 DEF Consistent
<1>12. CountersTyped' /\ now' >= now /\ \A k \in DOMAIN live : k \in DOMAIN live' => live'[k].expires = live[k].expires
  BY <1>1, AddingIsTyped
<1> HIDE DEF l
<1> QED BY <1>5, <1>8, <1>9, <1>10, <1>11, <1>12, StepIsSafe DEF ReserveAccount
LEMMA ReserveAddressIsSafe ==
    ASSUME ~FailsOpen, BInv, NEW h \in Handlers, ReserveAddress(h), Keep(h)
    PROVE  BInv'
<1> SUFFICES ASSUME NEW p, p = attempt[h].address PROVE BInv'
  OBVIOUS
<1>1. /\ LoginTypes /\ attempt[h] \in Attempts /\ attempt[h].pc = "address" /\ Consistent(h)
      /\ p \in Addresses /\ attempt[h].account \in Accounts /\ attempt[h].account # p
      /\ counted[h] \subseteq {attempt[h].account} /\ counted[h] \subseteq DOMAIN live
  BY Limits DEF BInv, LoginTypes, LoginsTyped, Consistent, ReserveAddress
<1>2. p \in Counters /\ p \notin Accounts /\ Added(p, 1)
  BY <1>1, AddAdds, Limits DEF LoginTypes, ReserveAddress
<1>3. PICK s \in 1..MaxTtl : /\ answer' = <<live'[p].value, s>>
                             /\ live'[p].expires <= now + 2 * s + 1
  BY <1>2 DEF Added
<1> DEFINE over == Over(p, answer', AddressLimit)
           blocked == attempt[h].blocked \cup over
           l == [attempt[h] EXCEPT !.blocked = blocked, !.pc = IF blocked = {} THEN "check" ELSE "refused"]
<1>4. over \subseteq {[counter |-> p, seconds |-> s]} /\ over \subseteq Blocks
  <2>1. over = Over(p, <<live'[p].value, s>>, AddressLimit) /\ s \in Int /\ AddressLimit \in Int
    BY <1>3, Limits
  <2>2. live'[p].value \in Int
    BY <1>1, <1>2, AddingIsTyped, Limits DEF CountersTyped
  <2> QED BY <1>2, <2>1, <2>2, OverIsTyped
<1>5. attempt' = [attempt EXCEPT ![h] = l]
  BY DEF ReserveAddress, Continue
<1> HIDE DEF over
<1>6. l \in Attempts /\ attempt'[h] = l
  <2>1. blocked \in SUBSET Blocks
    BY <1>1, <1>4 DEF Attempts
  <2> HIDE DEF blocked
  <2>2. l \in Attempts
    BY <1>1, <2>1 DEF Attempts
  <2> QED BY <1>1, <1>5, <2>2 DEF LoginTypes, LoginsTyped
<1>7. /\ l.account = attempt[h].account /\ l.address = p /\ l.blocked = blocked
      /\ l.pc = IF blocked = {} THEN "check" ELSE "refused"
  BY <1>1 DEF Attempts
<1> HIDE DEF l, blocked
<1>8. counted'[h] = counted[h] \cup {p} /\ p \notin counted[h]
  <2>1. counted'[h] = CountedNow(h)
    BY <1>1, <1>5, <1>6, <1>7, OthersKept DEF Others, LoginTypes, LoginsTyped
  <2>2. p \in DOMAIN live' /\ {k \in counted[h] : Same(k)} = counted[h]
    BY <1>1, <1>2, AddingIsTyped DEF Added
  <2>3. attempt'[h].pc \in {"check", "refused"}
    BY <1>6, <1>7
  <2>4. CountedNow(h) = {k \in counted[h] : Same(k)} \cup {p}
    BY <1>1, <2>2, <2>3 DEF CountedNow
  <2> QED BY <1>1, <2>1, <2>2, <2>4
<1>9. \A k : Ending(h, k).failed = 0 /\ Ending(h, k).refused = 0 /\ Ending(h, k).unowed = 0
  BY <1>1, EndingIsOne DEF One, Reject, Refuse, ReleaseAddress
<1>10. ASSUME NEW k \in DOMAIN live' PROVE Explained(h, k)
  <2>1. CASE k # p
    BY <1>1, <1>2, <1>8, <1>9, <2>1, AddingIsTyped DEF Explained, One
  <2>2. CASE k = p
    BY <1>1, <1>2, <1>8, <1>9, <2>2, AddingIsTyped, Limits DEF Explained, One, Same, LoginTypes, CountersTyped
  <2> QED BY <2>1, <2>2
<1>11. ASSUME NEW a \in Accounts, a \in DOMAIN live' PROVE WithinLimit(h, a)
  <2>1. Same(a)
    BY <1>1, <1>2, <1>11, AddingIsTyped
  <2>2. h \in Trying(a)' => h \in Trying(a)
    BY <1>2, <1>6, <1>7, <1>8 DEF Trying, Pending, blocked
  <2> QED BY <1>9, <2>1, <2>2 DEF WithinLimit, One
<1>12. WaitReaches(h)'
  <2> SUFFICES ASSUME NEW b \in blocked, b.counter \in counted'[h]
               PROVE  live'[b.counter].expires <= now' + 2 * b.seconds + 1
    BY <1>6, <1>7 DEF WaitReaches
  <2>1. CASE b \in over
    BY <1>2, <1>3, <1>4, <2>1 DEF Added
  <2>2. CASE b \in attempt[h].blocked
    <3>1. b.counter = attempt[h].account
      BY <1>1, <2>2 DEF Consistent
    <3>2. b.counter \in counted[h] /\ live'[b.counter] = live[b.counter] /\ now' = now
      BY <1>1, <1>2, <1>8, <3>1 DEF Added
    <3> QED BY <2>2, <3>2 DEF BInv, Waits, WaitReaches
  <2> QED BY <2>1, <2>2 DEF blocked
<1>13. FewWaits(h)'
  <2>1. PICK x \in Int : \A b \in attempt[h].blocked : b.seconds = x
    BY <1>1 DEF BInv, Waits, FewWaits
  <2>2. \A b \in blocked : b.seconds \in {x, s}
    BY <1>4, <2>1 DEF blocked
  <2>3. attempt'[h].blocked = blocked /\ attempt'[h].pc # "address"
    BY <1>6, <1>7
  <2> QED BY <2>2, <2>3 DEF FewWaits
<1>14. Consistent(h)'
  BY <1>1, <1>6, <1>7, <1>8 DEF Consistent
<1>15. CountersTyped' /\ now' >= now /\ \A k \in DOMAIN live : k \in DOMAIN live' => live'[k].expires = live[k].expires
  BY <1>1, <1>2, AddingIsTyped
<1>16. \A a \in Accounts : WithinLimit(h, a)
  BY <1>11 DEF WithinLimit
<1> QED BY <1>5, <1>6, <1>10, <1>12, <1>13, <1>14, <1>15, <1>16, StepIsSafe

\* A login that ends: its thread is free again.
LEMMA FreeAgain ==
    ASSUME LoginTypes, NEW h \in Handlers, Continue(h, NoLogin), Keep(h)
    PROVE  /\ NoLogin \in Attempts /\ attempt'[h] = NoLogin /\ counted'[h] = {} /\ Others(h)
           /\ Consistent(h)' /\ WaitReaches(h)' /\ FewWaits(h)'
           /\ \A k : h \notin Trying(k)'
<1>1. NoLogin \in Attempts /\ attempt'[h] = NoLogin /\ Others(h)
  BY DEF NoLogin, Attempts, Continue, Others, LoginTypes, LoginsTyped
<1>2. counted'[h] = {}
  BY <1>1, OthersKept DEF NoLogin
<1>3. Consistent(h)' /\ WaitReaches(h)' /\ FewWaits(h)'
  BY <1>1, <1>2 DEF Consistent, WaitReaches, FewWaits, NoLogin
<1> QED BY <1>1, <1>2, <1>3 DEF Trying, Pending
LEMMA EndIsSafe ==
    ASSUME BInv, NEW h \in Handlers, Refuse(h) \/ Reject(h), Keep(h)
    PROVE  BInv'
<1>1. LoginTypes /\ Continue(h, NoLogin) /\ UNCHANGED <<live, now>>
  BY DEF BInv, Refuse, Reject, NoCall
<1>2. \A k : /\ Ending(h, k).failed + Ending(h, k).refused = One(k \in counted[h])
             /\ Ending(h, k).unowed = 0
             /\ attempt[h].pc = "refused" => Ending(h, k).failed = 0
  BY <1>1, EndingIsOne DEF One, Reject, Refuse, ReleaseAddress
<1>3. \A k \in DOMAIN live' : Explained(h, k)
  BY <1>1, <1>2, Untouched, FreeAgain, EndingIsOne DEF Explained, One
<1>4. ASSUME NEW a \in Accounts, a \in DOMAIN live' PROVE WithinLimit(h, a)
  <2>1. Same(a) /\ h \notin Trying(a)'
    BY <1>1, <1>4, Untouched, FreeAgain
  <2>2. CASE attempt[h].pc = "refused"
    BY <1>2, <2>1, <2>2 DEF WithinLimit, One
  <2>3. CASE attempt[h].pc = "check"
    <3>1. attempt[h].blocked = {}
      BY <2>3 DEF BInv, LoginTypes, LoginsTyped, Consistent
    <3>2. One(a \in counted[h]) = One(h \in Trying(a))
      BY <3>1 DEF Trying, Pending, One
    <3>3. Ending(h, a).failed <= One(a \in counted[h])
      BY <1>1, EndingIsOne DEF One
    <3> QED BY <2>1, <3>2, <3>3, <1>1, EndingIsOne DEF WithinLimit, One
  <2> QED BY <2>2, <2>3 DEF Refuse, Reject
<1>5. \A a \in Accounts : WithinLimit(h, a)
  BY <1>4 DEF WithinLimit
<1> QED BY <1>1, <1>3, <1>5, Untouched, FreeAgain, StepIsSafe DEF Continue

LEMMA ClearAccountIsSafe ==
    ASSUME ~FailsOpen, BInv, NEW h \in Handlers, ClearAccount(h), Keep(h)
    PROVE  BInv'
<1> SUFFICES ASSUME NEW a, a = attempt[h].account PROVE BInv'
  OBVIOUS
<1>1. /\ LoginTypes /\ attempt[h] \in Attempts /\ attempt[h].pc = "check" /\ Consistent(h)
      /\ attempt[h].blocked = {} /\ attempt[h].account = a /\ attempt[h].address \in Addresses
      /\ counted[h] \subseteq {a, attempt[h].address} /\ a \in Accounts
  BY DEF BInv, LoginTypes, LoginsTyped, Consistent, ClearAccount
<1>2. /\ now' = now /\ DOMAIN live' = DOMAIN live \ {a}
      /\ live' = Without(live, {a}) /\ \A k \in DOMAIN live' : live'[k] = live[k]
  BY DEF ClearAccount, Delete, Operate, Without
<1>3. CountersTyped'
  BY <1>1, <1>2 DEF LoginTypes, CountersTyped, Without
<1> DEFINE l == [attempt[h] EXCEPT !.pc = "release"]
<1>4. attempt' = [attempt EXCEPT ![h] = l] /\ l \in Attempts /\ attempt'[h] = l
  BY <1>1 DEF ClearAccount, Continue, Attempts, LoginTypes, LoginsTyped
<1>5. l.pc = "release" /\ l.account = a /\ l.address = attempt[h].address /\ l.blocked = {}
  BY <1>1 DEF Attempts
<1> HIDE DEF l
<1>6. counted'[h] = {k \in counted[h] : Same(k)}
  <2>1. counted'[h] = CountedNow(h)
    BY <1>1, <1>4, <1>5, OthersKept DEF Others, LoginTypes, LoginsTyped
  <2> QED BY <1>1, <1>4, <1>5, <2>1 DEF CountedNow
<1>7. \A k \in DOMAIN live' : Same(k) /\ live[k].value \in Int
  BY <1>1, <1>2, Limits DEF Same, LoginTypes, CountersTyped
<1>8. \A k : Ending(h, k).failed = 0 /\ Ending(h, k).refused = 0 /\ Ending(h, k).unowed = 0
  <2>1. ~Continue(h, NoLogin)
    BY <1>1, <1>4, <1>5 DEF Continue, NoLogin, LoginTypes, LoginsTyped
  <2> QED BY <1>1, <2>1, EndingIsOne DEF One, Reject, Refuse, ReleaseAddress
<1>9. ASSUME NEW k \in DOMAIN live' PROVE Explained(h, k)
  <2>1. One(k \in counted'[h]) = One(k \in counted[h]) /\ One(k \in counted[h]) \in Int
    BY <1>6, <1>7 DEF One
  <2>2. live'[k] = live[k] /\ Same(k) /\ live[k].value \in Int
    BY <1>2, <1>7
  <2> DEFINE i == One(k \in counted[h])   v == live[k].value
  <2>3. v = v - i + 0 + 0 - 0 + i
    <3> HIDE DEF i, v
    <3> QED BY <2>1, <2>2 DEF i, v
  <2> QED BY <1>8, <2>1, <2>2, <2>3 DEF Explained
<1>10. \A b \in Accounts : WithinLimit(h, b)
  BY <1>1, <1>6, <1>7, <1>8 DEF WithinLimit, Trying, Pending, One
<1>11. WaitReaches(h)' /\ FewWaits(h)'
  BY <1>4, <1>5 DEF WaitReaches, FewWaits
<1>12. Consistent(h)'
  BY <1>1, <1>2, <1>4, <1>5, <1>6 DEF Consistent, Same
<1>13. now' >= now /\ \A k \in DOMAIN live : k \in DOMAIN live' => live'[k].expires = live[k].expires
  <2>1. now' = now /\ now \in Nat
    BY <1>1, <1>2 DEF LoginTypes, CountersTyped
  <2>2. \A k \in DOMAIN live' : live'[k].expires = live[k].expires
    BY <1>2
  <2> QED BY <2>1, <2>2
<1> QED BY <1>3, <1>4, <1>9, <1>10, <1>11, <1>12, <1>13, StepIsSafe

LEMMA ReleaseAddressIsSafe ==
    ASSUME ~FailsOpen, BInv, NEW h \in Handlers, ReleaseAddress(h), Keep(h)
    PROVE  BInv'
<1> SUFFICES ASSUME NEW p, p = attempt[h].address PROVE BInv'
  OBVIOUS
<1>1. /\ LoginTypes /\ attempt[h].pc = "release" /\ attempt[h].blocked = {} /\ p \in Addresses
      /\ counted[h] \subseteq {p} /\ counted[h] \subseteq DOMAIN live
  BY DEF BInv, LoginTypes, LoginsTyped, Consistent, ReleaseAddress
<1>2. p \in Counters /\ p \notin Accounts /\ Added(p, -1) /\ Continue(h, NoLogin)
  BY <1>1, AddAdds, Limits DEF LoginTypes, ReleaseAddress
<1>3. \A k : /\ Ending(h, k).failed = 0 /\ Ending(h, k).refused = 0
             /\ Ending(h, k).unowed = One(k = p /\ k \notin counted[h])
  BY <1>1, EndingIsOne DEF One, Reject, Refuse
<1>4. ASSUME NEW k \in DOMAIN live' PROVE Explained(h, k)
  <2>1. CASE k # p
    BY <1>1, <1>2, <1>3, <2>1, FreeAgain, AddingIsTyped DEF Explained, One
  <2>2. CASE k = p
    <3>1. live'[p].value = (IF Same(p) THEN live[p].value ELSE 0) - 1 /\ counted'[h] = {}
      <4>1. -1 \in Int
        OBVIOUS
      <4>2. live'[p].value = (IF Same(p) THEN live[p].value ELSE 0) + (-1)
        BY <1>1, <1>2, <4>1, AddingIsTyped
      <4>3. counted'[h] = {}
        BY <1>1, <1>2, FreeAgain
      <4> QED BY <4>2, <4>3
    <3>2. Same(p) => live[p].value \in Int
      BY <1>1, Limits DEF Same, LoginTypes, CountersTyped
    <3>3. p \in counted[h] => Same(p)
      BY <1>1, <1>2, AddingIsTyped
    <3> QED BY <1>3, <2>2, <3>1, <3>2, <3>3 DEF Explained, One
  <2> QED BY <2>1, <2>2
<1>5. ASSUME NEW a \in Accounts, a \in DOMAIN live' PROVE WithinLimit(h, a)
  <2>1. Same(a) /\ h \notin Trying(a)'
    BY <1>1, <1>2, <1>5, FreeAgain, AddingIsTyped
  <2> QED BY <1>3, <2>1 DEF WithinLimit, One
<1>6. CountersTyped' /\ now' >= now /\ \A k \in DOMAIN live : k \in DOMAIN live' => live'[k].expires = live[k].expires
  BY <1>1, <1>2, AddingIsTyped
<1>7. \A a \in Accounts : WithinLimit(h, a)
  BY <1>5 DEF WithinLimit
<1> QED BY <1>1, <1>2, <1>4, <1>6, <1>7, FreeAgain, StepIsSafe DEF Continue

LEMMA TickIsSafe ==
    ASSUME BInv, NEW h \in Handlers, LTick, Keep(h) PROVE BInv'
<1>1. /\ LoginTypes /\ attempt' = attempt /\ now' = now + 1 /\ Consistent(h) /\ Others(h)
      /\ attempt[h] \in Attempts /\ attempt' = [attempt EXCEPT ![h] = attempt[h]]
  BY DEF BInv, LTick, TTick, LoginTypes, LoginsTyped, Others
<1>2. /\ DOMAIN live' = {k \in DOMAIN live : ~(live[k].expires <= now')}
      /\ live' = [k \in DOMAIN live' |-> live[k]]
  BY DEF LTick, TTick, Without, Expired
<1>3. CountersTyped'
  BY <1>1, <1>2 DEF LoginTypes, CountersTyped
<1>4. \A k \in DOMAIN live' : Same(k) /\ live'[k] = live[k] /\ live[k].value \in Int
  BY <1>1, <1>2, Limits DEF Same, LoginTypes, CountersTyped
<1>5. counted'[h] = {k \in counted[h] : Same(k)}
  BY <1>1, OthersKept DEF CountedNow, Consistent
<1>6. \A k : Ending(h, k).failed = 0 /\ Ending(h, k).refused = 0 /\ Ending(h, k).unowed = 0
  <2>1. ~Continue(h, NoLogin) \/ attempt[h].pc = "idle"
    BY <1>1 DEF Continue, NoLogin, LoginTypes, LoginsTyped
  <2> QED BY <1>1, <2>1, EndingIsOne DEF One, Reject, Refuse, ReleaseAddress
<1>7. \A k \in DOMAIN live' : Explained(h, k)
  BY <1>4, <1>5, <1>6 DEF Explained, One
<1>8. \A a \in Accounts : WithinLimit(h, a)
  BY <1>1, <1>4, <1>5, <1>6 DEF WithinLimit, Trying, Pending, One
<1>9. WaitReaches(h)'
  <2> SUFFICES ASSUME NEW b \in attempt[h].blocked, b.counter \in counted'[h]
               PROVE  live'[b.counter].expires <= now' + 2 * b.seconds + 1
    BY <1>1 DEF WaitReaches
  <2>1. b.counter \in counted[h] /\ live'[b.counter] = live[b.counter] /\ live[b.counter].expires \in Int
    BY <1>1, <1>4, <1>5 DEF Same, LoginTypes, CountersTyped
  <2>2. live[b.counter].expires <= now + 2 * b.seconds + 1 /\ b.seconds \in Int /\ now \in Nat
    BY <1>1, <2>1 DEF BInv, Waits, WaitReaches, Attempts, Blocks, LoginTypes, CountersTyped
  <2> QED BY <1>1, <2>1, <2>2
<1>10. FewWaits(h)'
  BY <1>1 DEF BInv, Waits, FewWaits
<1>11. Consistent(h)'
  BY <1>1, <1>5 DEF Consistent
<1>12. now' >= now
  BY <1>1 DEF LoginTypes, CountersTyped
<1> QED BY <1>1, <1>3, <1>4, <1>7, <1>8, <1>9, <1>10, <1>11, <1>12, StepIsSafe

LEMMA RestartIsSafe ==
    ASSUME BInv, NEW h \in Handlers, LRestart, Keep(h) PROVE BInv'
<1>1. DOMAIN live' = {} /\ live' = NoEntries /\ now' = now /\ attempt' = [g \in Handlers |-> NoLogin]
  BY DEF LRestart, Restart, NoEntries
<1>2. counted' = [g \in Handlers |-> {}]
  BY <1>1 DEF Keep, NoLogin
<1>3. books' = [k \in Counters |-> Nothing]
  BY <1>1 DEF Keep
<1>4. CountersTyped'
  BY <1>1 DEF BInv, LoginTypes, CountersTyped, NoEntries
<1>5. LoginsTyped'
  BY <1>1, <1>2 DEF LoginsTyped, Consistent, Attempts, NoLogin
<1>6. BooksTyped'
  BY <1>3, Limits DEF BooksTyped, Nothing
<1>7. Balanced'
  BY <1>1 DEF Balanced
<1>8. ASSUME NEW a \in Accounts PROVE books'[a].failed + Cardinality(Trying(a))' <= AccountLimit
  <2>1. Trying(a)' = {}
    BY <1>2 DEF Trying, Pending
  <2> QED BY <1>3, <2>1, Limits, FS_EmptySet DEF Nothing
<1>9. Waits'
  BY <1>1 DEF Waits, WaitReaches, FewWaits, NoLogin
<1> QED BY <1>4, <1>5, <1>6, <1>7, <1>8, <1>9 DEF BInv, LoginTypes, Limited
-------------------------------------------------------------------------------
LEMMA InitBInv == BInit => BInv
<1> SUFFICES ASSUME BInit PROVE BInv
  OBVIOUS
<1>1. /\ live = NoEntries /\ DOMAIN live = {} /\ now = 0 /\ attempt = [h \in Handlers |-> NoLogin]
      /\ counted = [h \in Handlers |-> {}] /\ books = [k \in Counters |-> Nothing]
  BY DEF BInit, LInit, TInit, NoEntries
<1>2. LoginTypes
  BY <1>1, Limits DEF LoginTypes, CountersTyped, LoginsTyped, BooksTyped, Consistent, Attempts,
                      NoLogin, NoEntries, Nothing
<1>3. Balanced /\ Waits
  BY <1>1 DEF Balanced, Waits, WaitReaches, FewWaits, NoLogin
<1>4. ASSUME NEW a \in Accounts PROVE books[a].failed + Cardinality(Trying(a)) <= AccountLimit
  <2>1. Trying(a) = {}
    BY <1>1 DEF Trying, Pending
  <2> QED BY <1>1, <2>1, Limits, FS_EmptySet DEF Nothing
<1> QED BY <1>2, <1>3, <1>4 DEF BInv, Limited

LEMMA NextBInv == ASSUME ~FailsOpen, BInv, [BNext]_bvars PROVE BInv'
<1>1. CASE UNCHANGED bvars
  BY <1>1 DEF bvars, lvars, BInv, LoginTypes, CountersTyped, LoginsTyped, BooksTyped, Consistent, Balanced,
              Limited, Trying, Pending, Waits, WaitReaches, FewWaits
<1>2. ASSUME NEW h \in Handlers, Login(h), Keep(h) PROVE BInv'
  BY <1>2, ReserveAccountIsSafe, ReserveAddressIsSafe, EndIsSafe, ClearAccountIsSafe, ReleaseAddressIsSafe
     DEF Login
<1>3. ASSUME NEW h \in Handlers, LTick \/ LRestart, Keep(h) PROVE BInv'
  BY <1>3, TickIsSafe, RestartIsSafe
<1> QED BY <1>1, <1>2, <1>3 DEF BNext

\* With a store that answers, the login limit and its observer keep BInv.
THEOREM BInvHolds == ASSUME ~FailsOpen PROVE BSpec => []BInv
<1>1. BInv /\ [BNext]_bvars => BInv'
  BY NextBInv
<1> QED BY InitBInv, <1>1, PTL DEF BSpec

\* With a store that answers, every counter is accounted for: its value is the attempts of its
\* window that failed, were refused or are in flight, less what successes that ended in a later
\* window than they were counted in gave back (reserve_ and release_login_attempt).
THEOREM CounterExplainedHolds == ASSUME ~FailsOpen PROVE BSpec => []CounterExplained
<1>1. BInv => CounterExplained
  <2> SUFFICES ASSUME BInv PROVE CounterExplained
    OBVIOUS
  <2>1. ASSUME NEW h \in Handlers
        PROVE  /\ attempt[h].pc \in {"idle", "address", "check", "refused", "release"}
               /\ counted[h] \subseteq {attempt[h].account, attempt[h].address}
               /\ (attempt[h].pc = "refused") => attempt[h].blocked # {}
    BY DEF BInv, LoginTypes, LoginsTyped, Attempts, Consistent
  <2>2. BTypeOK
    BY <2>1 DEF BInv, LoginTypes, CountersTyped, BooksTyped, BTypeOK
  <2> QED BY <2>2 DEF BInv, Balanced, CounterExplained
<1> QED BY <1>1, BInvHolds, PTL

\* With a store that answers, no more passwords are tried on one counter of an account than
\* its limit, however many logins are in flight: "the increment itself is the check".
THEOREM AccountLimitHoldsAlways == ASSUME ~FailsOpen PROVE BSpec => []AccountLimitHolds
<1>1. BInv => AccountLimitHolds
  <2> SUFFICES ASSUME BInv, NEW a \in Accounts
               PROVE  books[a].failed + Cardinality({h \in Pending(a) : attempt[h].pc = "check"}) <= AccountLimit
    BY DEF AccountLimitHolds
  <2> DEFINE C == {h \in Pending(a) : attempt[h].pc = "check"}
  <2>1. C \in SUBSET Trying(a)
    BY DEF Trying, Pending, BInv, LoginTypes, LoginsTyped, Consistent
  <2>2. Cardinality(C) \in Nat /\ Cardinality(C) <= Cardinality(Trying(a)) /\ Cardinality(Trying(a)) \in Nat
    BY <2>1, FiniteLogins, FS_Subset, FS_CardinalityType
  <2>3. books[a].failed + Cardinality(Trying(a)) <= AccountLimit /\ books[a].failed \in Nat
    BY Limits DEF BInv, Limited, LoginTypes, BooksTyped
  <2> HIDE DEF C
  <2>4. books[a].failed + Cardinality(C) <= AccountLimit
    BY <2>2, <2>3, Limits
  <2> QED BY <2>4 DEF C
<1> QED BY <1>1, BInvHolds, PTL

\* With a store that answers, a login is refused for its address only when the failures, the
\* refusals and the other logins in flight of that window fill the limit: successes give back
\* what they took.
THEOREM NoUndueRefusalHolds == ASSUME ~FailsOpen PROVE BSpec => NoUndueRefusal
<1>1. ASSUME ~FailsOpen, BInv, [BNext]_bvars, NEW h \in Handlers,
             attempt[h].pc = "address", attempt[h].blocked = {}, attempt'[h].pc = "refused",
             NEW p, p = attempt[h].address
      PROVE  books[p].failed + books[p].refused + Cardinality(Pending(p)) >= AddressLimit
  <2>1. LoginTypes /\ p \in Counters /\ attempt \in [Handlers -> Attempts]
    BY <1>1, Limits DEF BInv, LoginTypes, LoginsTyped, Consistent
  <2>2. ReserveAddress(h)
    <3>1. attempt'[h] # attempt[h] /\ attempt'[h] # NoLogin
      BY <1>1 DEF NoLogin
    <3>2. \A g \in Handlers : Login(g) => g = h
      BY <2>1, <3>1 DEF Login, ReserveAccount, ReserveAddress, Refuse, Reject, ClearAccount, ReleaseAddress, Continue
    <3>3. ~LTick /\ ~LRestart
      BY <3>1 DEF LTick, LRestart
    <3>4. Login(h)
      BY <1>1, <3>1, <3>2, <3>3 DEF BNext, bvars, lvars
    <3> QED BY <1>1, <3>4 DEF Login, ReserveAccount, Refuse, Reject, ClearAccount, ReleaseAddress
  <2>3. Added(p, 1)
    BY <1>1, <2>1, <2>2, AddAdds DEF ReserveAddress, LoginTypes
  <2>4. PICK s \in 1..MaxTtl : answer' = <<live'[p].value, s>>
    BY <2>3 DEF Added
  <2>5. live'[p].value > AddressLimit
    <3>1. Over(p, answer', AddressLimit) # {}
      BY <1>1, <2>1, <2>2 DEF ReserveAddress, Continue, Attempts
    <3> QED BY <2>4, <3>1 DEF Over
  <2>6. p \in DOMAIN live /\ live[p].value + 1 > AddressLimit
    BY <2>3, <2>5, Limits DEF Added
  <2>7. live[p].value = books[p].failed + books[p].refused + Cardinality(Pending(p)) - books[p].unowed
    BY <1>1, <2>6 DEF BInv, Balanced
  <2>8. /\ books[p].failed \in Nat /\ books[p].refused \in Nat /\ books[p].unowed \in Nat
        /\ Cardinality(Pending(p)) \in Nat
    BY <2>1, FiniteLogins DEF LoginTypes, BooksTyped
  <2> QED BY <2>6, <2>7, <2>8, Limits
<1>2. ~FailsOpen /\ BInv /\ [BNext]_bvars =>
        \A h \in Handlers :
          (attempt[h].pc = "address" /\ attempt[h].blocked = {} /\ attempt'[h].pc = "refused") =>
             LET p == attempt[h].address
             IN  books[p].failed + books[p].refused + Cardinality(Pending(p)) >= AddressLimit
  BY <1>1
<1> QED BY <1>2, BInvHolds, PTL DEF BSpec, NoUndueRefusal

\* The longer of two waits.
LEMMA MaxOfTwo ==
    ASSUME NEW x \in Int, NEW y \in Int, NEW S \in SUBSET {x, y}, NEW e \in S
    PROVE  e <= Max(S) /\ Max(S) \in S
<1>1. \E m \in S : \A z \in S : m >= z
  <2>1. CASE \A z \in S : e >= z
    BY <2>1
  <2>2. CASE ~ \A z \in S : e >= z
    <3>1. PICK z \in S : ~(e >= z)
      BY <2>2
    <3> QED BY <3>1
  <2> QED BY <2>1, <2>2
<1>2. Max(S) \in S /\ \A z \in S : Max(S) >= z
  BY <1>1 DEF Max
<1> QED BY <1>2

\* With a store that answers, a Retry-After is long enough: the counters that refused the login
\* are gone when it is over, up to half a second of rounding.
THEOREM RetryAfterSufficesHolds == ASSUME ~FailsOpen PROVE BSpec => RetryAfterSuffices
<1>1. ASSUME BInv, NEW h \in Handlers, Refuse(h),
             NEW b \in attempt[h].blocked, b.counter \in counted[h]
      PROVE  live[b.counter].expires <= now + 2 * RetryAfter(h) + 1
  <2>1. PICK x, y \in Int : \A c \in attempt[h].blocked : c.seconds \in {x, y}
    BY <1>1 DEF BInv, Waits, FewWaits
  <2> DEFINE S == {c.seconds : c \in attempt[h].blocked}
  <2>2. S \in SUBSET {x, y} /\ b.seconds \in S
    BY <2>1
  <2>3. b.seconds <= Max(S)
    BY <2>2, MaxOfTwo
  <2>4. Max(S) \in Int
    <3>1. Max(S) \in S
      BY <2>2, MaxOfTwo
    <3> HIDE DEF S
    <3> QED BY <2>2, <3>1
  <2>5. live[b.counter].expires <= now + 2 * b.seconds + 1
    BY <1>1 DEF BInv, Waits, WaitReaches
  <2>6. now \in Nat /\ b.seconds \in Int /\ live[b.counter].expires \in Int
    BY <1>1 DEF BInv, LoginTypes, CountersTyped, LoginsTyped, Attempts, Blocks
  <2> QED BY <2>3, <2>4, <2>5, <2>6 DEF RetryAfter
<1>2. BInv =>
        \A h \in Handlers : Refuse(h) =>
          \A b \in attempt[h].blocked : b.counter \in counted[h] =>
             live[b.counter].expires <= now + 2 * RetryAfter(h) + 1
  BY <1>1
<1> QED BY <1>2, BInvHolds, PTL DEF BSpec, RetryAfterSuffices
===============================================================================
