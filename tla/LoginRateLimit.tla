----------------------------- MODULE LoginRateLimit -----------------------------
(***************************************************************************)
(* POST /api/auth/login and its rate limit (core/rate_limit.py) over the   *)
(* contract of the short-lived store: a login is one step per call it      *)
(* makes of the store, any number of logins are in flight, and the windows *)
(* of the counters run on meanwhile.                                       *)
(***************************************************************************)
EXTENDS TtlStore, FiniteSetsExt

CONSTANTS
    Accounts,       \* the counters of the e-mail addresses, lower-cased
    Addresses,      \* the counters of the client addresses
    Handlers,       \* the server's worker threads
    AccountLimit,   \* LOGIN_MAX_FAILURES_PER_ACCOUNT
    AddressLimit,   \* LOGIN_MAX_FAILURES_PER_IP
    Window          \* LOGIN_WINDOW_SECONDS

ASSUME LoginAssumption == /\ Counters = Accounts \cup Addresses
                          /\ IsFiniteSet(Handlers)
                          /\ Accounts \cap Addresses = {}
                          /\ Window \in 1..MaxTtl
                          /\ {AccountLimit, AddressLimit} \subseteq Nat \ {0}

VARIABLE attempt   \* the login each handler serves

lvars == <<live, now, answer, attempt>>

NoLogin == [pc |-> "idle", account |-> NULL, address |-> NULL, blocked |-> {}]

LInit == TInit /\ attempt = [h \in Handlers |-> NoLogin]

NoCall == answer' = NULL /\ UNCHANGED <<live, now>>

Continue(h, login) == attempt' = [attempt EXCEPT ![h] = login]

\* Mutant: one more is let through.
OverByTwo(k, answered, limit) ==
    IF answered[1] > limit + 1 THEN {[counter |-> k, seconds |-> answered[2]]} ELSE {}

\* The counter and its seconds to wait, when what add answered exceeds the limit.
Over(k, answered, limit) ==
    IF answered[1] > limit THEN {[counter |-> k, seconds |-> answered[2]]} ELSE {}

\* reserve_login_attempt: one more on the account, then one more on the address.
ReserveAccount(h, a, p) ==
    /\ attempt[h].pc = "idle"
    /\ Add(a, 1, Window)
    /\ Continue(h, [pc |-> "address", account |-> a, address |-> p,
                    blocked |-> Over(a, answer', AccountLimit)])

\* Over neither limit, the login goes on to its password; over one of them it ends in 429.
ReserveAddress(h) ==
    /\ attempt[h].pc = "address"
    /\ Add(attempt[h].address, 1, Window)
    /\ LET blocked == attempt[h].blocked \cup Over(attempt[h].address, answer', AddressLimit)
       IN  Continue(h, [attempt[h] EXCEPT !.blocked = blocked,
                                          !.pc = IF blocked = {} THEN "check" ELSE "refused"])

\* Mutant: the shortest wait is answered.
ShortestWait(h) == Min({b.seconds : b \in attempt[h].blocked})

\* The Retry-After of a 429.
RetryAfter(h) == Max({b.seconds : b \in attempt[h].blocked})

Refuse(h) == /\ attempt[h].pc = "refused"
             /\ Continue(h, NoLogin)
             /\ NoCall

\* 401: the e-mail is unknown or the password wrong; the attempt stays counted.
Reject(h) == /\ attempt[h].pc = "check"
             /\ Continue(h, NoLogin)
             /\ NoCall

\* release_login_attempt: the account's counter goes, and the address gets one back.
ClearAccount(h) ==
    /\ attempt[h].pc = "check"
    /\ Delete(attempt[h].account)
    /\ Continue(h, [attempt[h] EXCEPT !.pc = "release"])

\* Mutant: the address gets nothing back.
KeepAddress(h) ==
    /\ attempt[h].pc = "release"
    /\ Continue(h, NoLogin)
    /\ NoCall

ReleaseAddress(h) ==
    /\ attempt[h].pc = "release"
    /\ Add(attempt[h].address, -1, Window)
    /\ Continue(h, NoLogin)

LTick == TTick /\ UNCHANGED attempt

\* The process ends, and the counters with it, which it keeps in its memory.
LRestart == Restart /\ attempt' = [h \in Handlers |-> NoLogin]

Login(h) ==
    \/ \E a \in Accounts, p \in Addresses : ReserveAccount(h, a, p)
    \/ ReserveAddress(h) \/ Refuse(h) \/ Reject(h) \/ ClearAccount(h) \/ ReleaseAddress(h)

LNext == (\E h \in Handlers : Login(h)) \/ LTick \/ LRestart

LSpec == LInit /\ [][LNext]_lvars
=================================================================================
