------------------------------ MODULE LoginHistory ------------------------------
(***************************************************************************)
(* LoginRateLimit watched by an observer who keeps the books the limiter   *)
(* has only the sums of: for every counter in force, how the attempts it   *)
(* counted ended, and which logins in flight it still counts.              *)
(***************************************************************************)
EXTENDS LoginRateLimit

VARIABLES
    counted,   \* per handler, the counters in force that count its login
    books      \* per counter in force: attempts failed, refused and given back unowed

bvars == <<lvars, counted, books>>

Nothing == [failed |-> 0, refused |-> 0, unowed |-> 0]

\* The counter under k before this step and the one after it are the same.
Same(k) == k \in DOMAIN live /\ k \in DOMAIN live'

\* The counters that count h's login once this step is over, were it not to end.
CountedNow(h) ==
    {k \in counted[h] : Same(k)}
    \cup (IF attempt[h].pc = "idle" /\ attempt'[h].pc = "address"
          THEN {attempt'[h].account} \cap DOMAIN live' ELSE {})
    \cup (IF attempt[h].pc = "address" /\ attempt'[h].pc \in {"check", "refused"}
          THEN {attempt[h].address} \cap DOMAIN live' ELSE {})

\* How h's login ends in this step: a 401, a 429, or with one given back that is not owed.
Ending(h, k) ==
    [failed  |-> IF Reject(h) /\ k \in counted[h] THEN 1 ELSE 0,
     refused |-> IF Refuse(h) /\ k \in counted[h] THEN 1 ELSE 0,
     unowed  |-> IF ReleaseAddress(h) /\ k = attempt[h].address /\ k \notin counted[h]
                 THEN 1 ELSE 0]

Entered(b, e) == [failed |-> b.failed + e.failed, refused |-> b.refused + e.refused,
                  unowed |-> b.unowed + e.unowed]

BInit == LInit /\ counted = [h \in Handlers |-> {}] /\ books = [k \in Counters |-> Nothing]

Keep(h) ==
    /\ counted' = [g \in Handlers |-> IF attempt'[g].pc = "idle" THEN {} ELSE CountedNow(g)]
    /\ books' = [k \in Counters |->
          IF k \notin DOMAIN live' THEN Nothing
          ELSE Entered(IF Same(k) THEN books[k] ELSE Nothing, Ending(h, k))]

BNext == \/ \E h \in Handlers : Login(h) /\ Keep(h)
         \/ (LTick \/ LRestart) /\ \E h \in Handlers : Keep(h)

BSpec == BInit /\ [][BNext]_bvars
-------------------------------------------------------------------------------
Pending(k) == {h \in Handlers : k \in counted[h]}

BTypeOK ==
    /\ DOMAIN live \subseteq Counters
    /\ \A k \in DOMAIN live : live[k].value \in -MaxCount..MaxCount /\ live[k].expires > now
    /\ \A h \in Handlers : /\ attempt[h].pc \in {"idle", "address", "check", "refused", "release"}
                           /\ counted[h] \subseteq {attempt[h].account, attempt[h].address}
                           /\ (attempt[h].pc = "refused") => attempt[h].blocked # {}
    /\ \A k \in Counters : k \notin DOMAIN live => books[k] = Nothing

\* Every counter is accounted for: its value is the attempts that failed or were refused in
\* its window and those still in flight, less what late successes gave back to it.
CounterExplained ==
    /\ BTypeOK
    /\ \A k \in DOMAIN live :
        live[k].value = books[k].failed + books[k].refused + Cardinality(Pending(k)) - books[k].unowed

\* "The increment itself is the check": however many logins are in flight, no more
\* passwords are tried on one counter of an account than its limit.
AccountLimitHolds ==
    \A a \in Accounts :
        books[a].failed + Cardinality({h \in Pending(a) : attempt[h].pc = "check"}) <= AccountLimit

\* The same of an address: no more failures in one window than its limit.
AddressLimitHolds == \A p \in Addresses : books[p].failed <= AddressLimit

\* Successful logins never use up an address: when one is refused for its address, the
\* failures, the refusals and the other logins in flight of that window fill the limit.
NoUndueRefusal ==
    [][\A h \in Handlers :
          (attempt[h].pc = "address" /\ attempt[h].blocked = {} /\ attempt'[h].pc = "refused") =>
             LET p == attempt[h].address
             IN  books[p].failed + books[p].refused + Cardinality(Pending(p)) >= AddressLimit]_bvars

\* A Retry-After is long enough: the counters that refused the login, and still count it,
\* are gone when it is over, up to half a second of rounding.
RetryAfterSuffices ==
    [][\A h \in Handlers : Refuse(h) =>
          \A b \in attempt[h].blocked : b.counter \in counted[h] =>
             live[b.counter].expires <= now + 2 * RetryAfter(h) + 1]_bvars
=================================================================================
