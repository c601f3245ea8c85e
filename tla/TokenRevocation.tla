---------------------------- MODULE TokenRevocation ----------------------------
(***************************************************************************)
(* Access tokens from login to expiry: core/security.py issues and decodes *)
(* them, POST /api/auth/logout revokes one (core/revocation.py) and every  *)
(* authenticated request asks the short-lived store whether its token was  *)
(* revoked (core/deps.py).  Requests and logouts of one token overlap.     *)
(***************************************************************************)
EXTENDS TtlStore

CONSTANTS
    Tokens,     \* the tokens that are issued, named by their jti
    Handlers,   \* the server's worker threads
    Lifetime    \* ACCESS_TOKEN_EXPIRE_MINUTES, in seconds

ASSUME TokenAssumption == Tokens \subseteq Texts /\ Lifetime \in 1..MaxTtl

VARIABLES
    exp,        \* per token issued, its exp: whole seconds
    handling    \* the request each handler serves

rvars == <<live, now, answer, exp, handling>>

Free == [pc |-> "idle", token |-> NULL, logout |-> FALSE]

RInit == /\ TInit
         /\ exp = [t \in {} |-> NULL]
         /\ handling = [h \in Handlers |-> Free]

NoCall == answer' = NULL /\ UNCHANGED <<live, now>>

\* create_access_token: a NumericDate has no fraction of a second.
Issue(t) ==
    /\ t \notin DOMAIN exp
    /\ exp' = [u \in DOMAIN exp \cup {t} |-> IF u = t THEN (now + 2 * Lifetime) \div 2 ELSE exp[u]]
    /\ NoCall
    /\ UNCHANGED handling

\* decode_access_token: the token is accepted while the clock is before its exp.
Unexpired(t) == now < 2 * exp[t]

\* get_token_claims decodes the token; an expired one is answered 401 there.
Decode(h, t, logout) ==
    /\ handling[h].pc = "idle"
    /\ t \in DOMAIN exp
    /\ Unexpired(t)
    /\ handling' = [handling EXCEPT ![h] = [pc |-> "check", token |-> t, logout |-> logout]]
    /\ NoCall
    /\ UNCHANGED exp

\* Mutant: one entry for all the tokens of a member.
MemberKey(t) == CHOOSE u \in Tokens : TRUE

\* _key: the entry of one token.
Key(t) == t

\* is_token_revoked: the token that is denied ends in a 401, the other goes on.
CheckRevoked(h) ==
    /\ handling[h].pc = "check"
    /\ Get(Key(handling[h].token))
    /\ handling' = [handling EXCEPT ![h] =
                       CASE answer' # NULL               -> Free
                         [] answer' = NULL /\ @.logout   -> [@ EXCEPT !.pc = "revoke"]
                         [] answer' = NULL /\ ~@.logout  -> [@ EXCEPT !.pc = "accepted"]]
    /\ UNCHANGED exp

\* Mutant: the entry ends a second earlier than it might.
RemainingShort(t) == IF 2 * exp[t] > now + 2 THEN (2 * exp[t] - now) \div 2 - 1 ELSE 0

\* Mutant: the fraction of a second is rounded up.
RemainingLong(t) == IF 2 * exp[t] > now THEN (2 * exp[t] - now + 1) \div 2 ELSE 0

\* int(exp - now): the fraction of a second is cut off.
Remaining(t) == IF 2 * exp[t] > now THEN (2 * exp[t] - now) \div 2 ELSE 0

\* revoke_token: nothing is stored when no whole second is left.  Reading the clock and
\* storing the entry are within one instant.
Revoke(h) ==
    /\ handling[h].pc = "revoke"
    /\ LET t == handling[h].token
       IN  IF Remaining(t) > 0 THEN \E v \in Values : Set(Key(t), v, Remaining(t)) ELSE NoCall
    /\ handling' = [handling EXCEPT ![h].pc = "logged_out"]
    /\ UNCHANGED exp

\* The request is answered: 2xx, or 204 to a logout.
Answer(h) ==
    /\ handling[h].pc \in {"accepted", "logged_out"}
    /\ handling' = [handling EXCEPT ![h] = Free]
    /\ NoCall
    /\ UNCHANGED exp

RTick == TTick /\ UNCHANGED <<exp, handling>>

\* The process ends, with the entries it kept in its memory; tokens outlive it.
RRestart == Restart /\ handling' = [h \in Handlers |-> Free] /\ UNCHANGED exp

RNext == \/ \E t \in Tokens : Issue(t)
         \/ \E h \in Handlers, t \in Tokens, logout \in BOOLEAN : Decode(h, t, logout)
         \/ \E h \in Handlers : CheckRevoked(h) \/ Revoke(h) \/ Answer(h)
         \/ RTick
         \/ RRestart

RSpec == RInit /\ [][RNext]_rvars
===============================================================================
