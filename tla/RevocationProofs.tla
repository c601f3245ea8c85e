---------------------------- MODULE RevocationProofs ----------------------------
(***************************************************************************)
(* A logout reaches its own token and no other, is not forgotten before    *)
(* the token's last second, and its entry ends with the token: for every   *)
(* number of tokens and threads, every lifetime, and whatever the fraction *)
(* of the second in which a token is issued or revoked.                    *)
(***************************************************************************)
EXTENDS RevocationHistory, TLAPS

Handled == [pc : {"idle", "check", "accepted", "revoke", "logged_out"},
            token : Tokens \cup {NULL}, logout : BOOLEAN]

TokenTypes ==
    /\ now \in Nat
    /\ DOMAIN exp \subseteq Tokens
    /\ \A t \in DOMAIN exp : exp[t] \in Nat
    /\ handling \in [Handlers -> Handled]
    /\ \A h \in Handlers : handling[h].pc # "idle" => handling[h].token \in DOMAIN exp
    /\ loggedOut \subseteq DOMAIN exp

\* What lies in the denylist: entries of tokens, none of which outlives its token.
Entries ==
    /\ DOMAIN live \subseteq DOMAIN exp
    /\ \A t \in DOMAIN live : /\ live[t].value \in Values
                              /\ live[t].expires \in Int /\ live[t].expires <= 2 * exp[t]

Ending(t) == \E h \in Handlers : handling[h].pc = "logged_out" /\ handling[h].token = t

\* The logout of t has been carried out, whether or not it was answered yet.
Revoked(t) == t \in loggedOut \/ Ending(t)

LateArrivals == \A h \in late : /\ h \in Handlers /\ handling[h].pc # "idle"
                                /\ handling[h].token \in loggedOut

WInv == TokenTypes /\ Entries /\ OnlyLoggedOutAreDenied /\ LateArrivals

\* A revoked token is in the denylist until half a second before its end, or has less than a
\* second left: what the truncation to whole seconds may cost.
Denied ==
    \A t \in DOMAIN exp : Revoked(t) =>
        \/ t \in DOMAIN live /\ live[t].expires >= 2 * exp[t] - 1
        \/ 2 * exp[t] - now < 2
-------------------------------------------------------------------------------
LEMMA Lifetimes == Lifetime \in Nat /\ Tokens \subseteq Texts /\ NULL \notin Values
BY TokenAssumption, TtlAssumption, KeysAssumption

LEMMA FreeIsHandled == Free \in Handled
BY DEF Free, Handled

\* The entry a logout stores ends with the token or half a second before it, and none is
\* stored only when less than a second is left.
LEMMA RemainingIsTruncated ==
    ASSUME TokenTypes, NEW t \in DOMAIN exp
    PROVE  /\ Remaining(t) \in Nat
           /\ Remaining(t) > 0 => /\ now + 2 * Remaining(t) <= 2 * exp[t]
                                  /\ now + 2 * Remaining(t) >= 2 * exp[t] - 1
           /\ ~(Remaining(t) > 0) => 2 * exp[t] - now < 2
BY DEF Remaining, TokenTypes

\* What the observer notes in a step that is no restart.
Observed ==
    /\ loggedOut' = loggedOut \cup {handling[h].token : h \in LoggingOut}
    /\ late' = {h \in Handlers : /\ handling'[h].pc # "idle"
                                 /\ \/ h \in late
                                    \/ /\ handling[h].pc = "idle"
                                       /\ handling'[h].token \in loggedOut}

\* A request keeps its token until it is answered, and a logout that was carried out is
\* answered before its thread does anything else.
StepOf(h) ==
    /\ handling[h].pc # "idle" /\ handling'[h].pc # "idle" => handling'[h].token = handling[h].token
    /\ handling[h].pc = "logged_out" => handling'[h].pc \in {"logged_out", "idle"}

\* Then what the observer has noted stays true, and a logout stays carried out.
LEMMA ObservingIsSafe ==
    ASSUME WInv, Observed, \A h \in Handlers : StepOf(h), DOMAIN exp \subseteq DOMAIN exp'
    PROVE  /\ loggedOut' \subseteq DOMAIN exp'
           /\ LateArrivals'
           /\ \A t \in DOMAIN exp : Revoked(t) => Revoked(t)'
<1>1. \A h \in LoggingOut : h \in Handlers /\ handling[h].token \in DOMAIN exp
  BY DEF LoggingOut, WInv, TokenTypes
<1>2. loggedOut' \subseteq DOMAIN exp'
  BY <1>1 DEF Observed, WInv, TokenTypes
<1>3. LateArrivals'
  BY DEF Observed, WInv, LateArrivals, StepOf
<1>4. ASSUME NEW t \in DOMAIN exp, Revoked(t) PROVE Revoked(t)'
  <2>1. CASE t \in loggedOut
    BY <2>1 DEF Observed, Revoked
  <2>2. ASSUME NEW h \in Handlers, handling[h].pc = "logged_out", handling[h].token = t
        PROVE  Revoked(t)'
    <3>1. CASE handling'[h].pc = "idle"
      BY <2>2, <3>1 DEF Observed, LoggingOut, Revoked
    <3>2. CASE handling'[h].pc # "idle"
      BY <2>2, <3>2 DEF StepOf, Revoked, Ending
    <3> QED BY <3>1, <3>2
  <2> QED BY <1>4, <2>1, <2>2 DEF Revoked, Ending
<1> QED BY <1>2, <1>3, <1>4

\* What is left to show of a step that stores nothing: that the entries it leaves are those
\* that were there.
LEMMA KeepingIsSafe ==
    ASSUME WInv, Observed, \A h \in Handlers : StepOf(h),
           now' \in Nat, DOMAIN exp \subseteq DOMAIN exp', DOMAIN exp' \subseteq Tokens,
           \A t \in DOMAIN exp' : exp'[t] \in Nat,
           \A t \in DOMAIN exp : exp'[t] = exp[t],
           handling' \in [Handlers -> Handled],
           \A h \in Handlers : handling'[h].pc # "idle" => handling'[h].token \in DOMAIN exp',
           DOMAIN live' \subseteq DOMAIN live, \A t \in DOMAIN live' : live'[t] = live[t]
    PROVE  WInv'
<1>1. TokenTypes' /\ LateArrivals' /\ \A t \in DOMAIN exp : Revoked(t) => Revoked(t)'
  BY ObservingIsSafe DEF TokenTypes, Handled
<1>2. Entries'
  BY DEF WInv, Entries
<1>3. OnlyLoggedOutAreDenied'
  BY <1>1 DEF WInv, OnlyLoggedOutAreDenied, Revoked, Ending, Entries
<1> QED BY <1>1, <1>2, <1>3 DEF WInv

\* A step of one thread.
LEMMA ThreadIsSafe ==
    ASSUME WInv, Observed, NEW h \in Handlers, NEW r \in Handled, handling' = [handling EXCEPT ![h] = r],
           r.pc # "idle" => r.token \in DOMAIN exp, UNCHANGED <<live, now, exp>>,
           handling[h].pc # "idle" /\ r.pc # "idle" => r.token = handling[h].token,
           handling[h].pc = "logged_out" => r.pc = "idle"
    PROVE  WInv'
<1>1. handling' \in [Handlers -> Handled] /\ \A g \in Handlers : handling'[g] = IF g = h THEN r ELSE handling[g]
  BY DEF WInv, TokenTypes
<1>2. \A g \in Handlers : StepOf(g)
  BY <1>1 DEF StepOf
<1>3. \A g \in Handlers : handling'[g].pc # "idle" => handling'[g].token \in DOMAIN exp'
  BY <1>1 DEF WInv, TokenTypes
<1> QED BY <1>1, <1>2, <1>3, KeepingIsSafe DEF WInv, TokenTypes

LEMMA IssueIsSafe ==
    ASSUME WInv, Observed, NEW t \in Tokens, Issue(t) PROVE WInv'
<1>1. /\ DOMAIN exp' = DOMAIN exp \cup {t} /\ exp'[t] \in Nat
      /\ \A u \in DOMAIN exp : exp'[u] = exp[u] /\ exp[u] \in Nat
  <2>1. (now + 2 * Lifetime) \div 2 \in Nat
    BY Lifetimes DEF WInv, TokenTypes
  <2> QED BY <2>1 DEF Issue, WInv, TokenTypes
<1>2. \A h \in Handlers : StepOf(h)
  BY DEF Issue, StepOf
<1> QED BY <1>1, <1>2, KeepingIsSafe DEF Issue, NoCall, WInv, TokenTypes

LEMMA DecodeIsSafe ==
    ASSUME WInv, Observed, NEW h \in Handlers, NEW t \in Tokens, NEW logout \in BOOLEAN, Decode(h, t, logout)
    PROVE  WInv'
<1> DEFINE r == [pc |-> "check", token |-> t, logout |-> logout]
<1>1. r \in Handled
  BY DEF Handled
<1> QED BY <1>1, ThreadIsSafe DEF Decode, NoCall

LEMMA CheckRevokedIsSafe ==
    ASSUME WInv, Observed, NEW h \in Handlers, CheckRevoked(h) PROVE WInv'
<1>1. handling[h] \in Handled /\ handling[h].token \in DOMAIN exp /\ handling[h].pc = "check"
  BY DEF WInv, TokenTypes, CheckRevoked
<1>2. PICK r \in Handled : /\ handling' = [handling EXCEPT ![h] = r]
                           /\ r.pc # "idle" => r.token = handling[h].token
  <2>1. CASE answer' # NULL
    BY <1>1, <2>1, FreeIsHandled DEF CheckRevoked, Free, WInv, TokenTypes
  <2>2. CASE answer' = NULL /\ handling[h].logout
    <3>1. [handling[h] EXCEPT !.pc = "revoke"] \in Handled
      BY <1>1 DEF Handled
    <3> QED BY <1>1, <2>2, <3>1 DEF CheckRevoked, WInv, TokenTypes, Handled
  <2>3. CASE answer' = NULL /\ ~handling[h].logout
    <3>1. [handling[h] EXCEPT !.pc = "accepted"] \in Handled
      BY <1>1 DEF Handled
    <3> QED BY <1>1, <2>3, <3>1 DEF CheckRevoked, WInv, TokenTypes, Handled
  <2> QED BY <2>1, <2>2, <2>3
<1>3. UNCHANGED <<live, now, exp>>
  BY DEF CheckRevoked, Get, Operate
<1> QED BY <1>1, <1>2, <1>3, ThreadIsSafe

LEMMA AnswerIsSafe ==
    ASSUME WInv, Observed, NEW h \in Handlers, Answer(h) PROVE WInv'
BY FreeIsHandled, ThreadIsSafe DEF Answer, NoCall, Free

\* The entry of a logout is that of its own token, and does not outlive it.
LEMMA RevokeIsSafe ==
    ASSUME WInv, Observed, NEW h \in Handlers, Revoke(h) PROVE WInv'
<1> SUFFICES ASSUME NEW t, t = handling[h].token PROVE WInv'
  OBVIOUS
<1> DEFINE r == [handling[h] EXCEPT !.pc = "logged_out"]
<1>1. handling[h] \in Handled /\ t \in DOMAIN exp /\ handling[h].pc = "revoke"
  BY DEF WInv, TokenTypes, Revoke
<1>2. handling' = [handling EXCEPT ![h] = r] /\ r \in Handled /\ UNCHANGED exp
  BY <1>1 DEF Revoke, WInv, TokenTypes, Handled
<1>3. CASE UNCHANGED <<live, now>>
  BY <1>1, <1>2, <1>3, ThreadIsSafe DEF Handled
<1>4. ASSUME NEW v \in Values, Remaining(t) > 0, now' = now,
             live' = With(live, t, [value |-> v, expires |-> now + 2 * Remaining(t)])
      PROVE  WInv'
  <2>1. /\ handling' \in [Handlers -> Handled] /\ handling'[h] = r
        /\ \A g \in Handlers \ {h} : handling'[g] = handling[g]
    BY <1>2 DEF WInv, TokenTypes
  <2>2. r.pc = "logged_out" /\ r.token = t
    BY <1>1 DEF Handled
  <2>3. \A g \in Handlers : StepOf(g)
    BY <1>1, <2>1, <2>2 DEF StepOf
  <2>4. loggedOut' \subseteq DOMAIN exp' /\ LateArrivals' /\ \A u \in DOMAIN exp : Revoked(u) => Revoked(u)'
    BY <1>2, <2>3, ObservingIsSafe
  <2>5. TokenTypes'
    BY <1>1, <1>2, <1>4, <2>1, <2>2, <2>4 DEF WInv, TokenTypes, Handled
  <2>6. /\ DOMAIN live' = DOMAIN live \cup {t}
        /\ live'[t] = [value |-> v, expires |-> now + 2 * Remaining(t)]
        /\ \A u \in DOMAIN live \ {t} : live'[u] = live[u]
    BY <1>4 DEF With
  <2>7. Entries'
    <3>1. /\ live'[t].value = v /\ live'[t].expires = now + 2 * Remaining(t)
          /\ now + 2 * Remaining(t) \in Int /\ now + 2 * Remaining(t) <= 2 * exp[t]
      BY <1>1, <1>4, <2>6, RemainingIsTruncated DEF WInv, TokenTypes
    <3> QED BY <1>1, <1>2, <2>6, <3>1 DEF WInv, Entries
  <2>8. Ending(t)'
    BY <2>1, <2>2 DEF Ending
  <2>9. OnlyLoggedOutAreDenied'
    <3> SUFFICES ASSUME NEW u \in DOMAIN live' PROVE Revoked(u)'
      BY DEF OnlyLoggedOutAreDenied, Revoked, Ending
    <3>1. CASE u = t
      BY <2>8, <3>1 DEF Revoked
    <3>2. CASE u # t
      BY <2>4, <2>6, <3>2 DEF WInv, Entries, OnlyLoggedOutAreDenied, Revoked, Ending
    <3> QED BY <3>1, <3>2
  <2> QED BY <2>4, <2>5, <2>7, <2>9 DEF WInv
<1>5. now' = now /\ (\/ UNCHANGED live
                     \/ Remaining(t) > 0 /\ \E v \in Values :
                            live' = With(live, t, [value |-> v, expires |-> now + 2 * Remaining(t)]))
  BY DEF Revoke, NoCall, Set, Operate, Key
<1> QED BY <1>3, <1>4, <1>5

LEMMA TimeIsSafe ==
    ASSUME WInv, Observed, RTick PROVE WInv'
<1>1. /\ now' \in Nat /\ UNCHANGED <<exp, handling>>
      /\ DOMAIN live' \subseteq DOMAIN live /\ \A t \in DOMAIN live' : live'[t] = live[t]
  BY DEF RTick, TTick, Without, WInv, TokenTypes
<1>2. \A h \in Handlers : StepOf(h)
  BY <1>1 DEF StepOf
<1> QED BY <1>1, <1>2, KeepingIsSafe DEF WInv, TokenTypes

LEMMA RestartIsSafe ==
    ASSUME WInv, RRestart, loggedOut' = {}, late' = {} PROVE WInv'
<1>1. DOMAIN live' = {} /\ handling' = [h \in Handlers |-> Free] /\ UNCHANGED <<now, exp>>
  BY DEF RRestart, Restart, NoEntries
<1>2. TokenTypes'
  BY <1>1, FreeIsHandled DEF WInv, TokenTypes, Free
<1> QED BY <1>1, <1>2 DEF WInv, Entries, OnlyLoggedOutAreDenied, LateArrivals

LEMMA NextWInv == WInv /\ [WNext]_wvars => WInv'
<1> SUFFICES ASSUME WInv, [WNext]_wvars PROVE WInv'
  OBVIOUS
<1>1. CASE RRestart /\ loggedOut' = {} /\ late' = {}
  BY <1>1, RestartIsSafe
<1>2. CASE RNext /\ ~RRestart /\ Observed
  BY <1>2, IssueIsSafe, DecodeIsSafe, CheckRevokedIsSafe, RevokeIsSafe, AnswerIsSafe, TimeIsSafe
     DEF RNext
<1>3. CASE UNCHANGED wvars
  BY <1>3 DEF wvars, rvars, WInv, TokenTypes, Entries, OnlyLoggedOutAreDenied, LateArrivals, Handled
<1> QED BY <1>1, <1>2, <1>3 DEF WNext, Observed

LEMMA InitWInv == WInit => WInv
BY FreeIsHandled DEF WInit, RInit, TInit, NoEntries, Free, WInv, TokenTypes, Entries,
                     OnlyLoggedOutAreDenied, LateArrivals
-------------------------------------------------------------------------------
\* Tokens, requests, entries and the observer's notes fit together in every reachable state.
THEOREM WInvHolds == WSpec => []WInv
BY InitWInv, NextWInv, PTL DEF WSpec

\* The state is well typed, and nothing is in the denylist but tokens that were issued.
THEOREM TypeCorrectness == WSpec => []WTypeOK
<1>1. WInv => WTypeOK
  BY DEF WInv, TokenTypes, Entries, Handled, WTypeOK
<1> QED BY <1>1, WInvHolds, PTL

\* No denylist entry outlives its token, whatever fraction of a second the logout fell in.
THEOREM EntryEndsWithTokenHolds == WSpec => []EntryEndsWithToken
<1>1. WInv => EntryEndsWithToken
  BY DEF WInv, Entries, EntryEndsWithToken
<1> QED BY <1>1, WInvHolds, PTL

\* Only a token that was logged out is ever denied.
THEOREM OnlyLoggedOutAreDeniedHolds == WSpec => []OnlyLoggedOutAreDenied
<1>1. WInv => OnlyLoggedOutAreDenied
  BY DEF WInv
<1> QED BY <1>1, WInvHolds, PTL
-------------------------------------------------------------------------------
(***************************************************************************)
(* The rest needs a store that answers: one that is out of reach lets      *)
(* every token through, which is what failing open means.                  *)
(***************************************************************************)

\* A revoked token stays revoked in the denylist as long as its entry is kept.
LEMMA DeniedWhileKept ==
    ASSUME WInv, Denied, UNCHANGED exp,
           \A t \in DOMAIN exp : Revoked(t)' => Revoked(t),
           now' \in Nat, now' >= now,
           \A t \in DOMAIN live : \/ t \in DOMAIN live' /\ live'[t] = live[t]
                                  \/ live[t].expires <= now'
    PROVE  Denied'
<1> SUFFICES ASSUME NEW t \in DOMAIN exp, Revoked(t)'
             PROVE  \/ t \in DOMAIN live' /\ live'[t].expires >= 2 * exp[t] - 1
                    \/ 2 * exp[t] - now' < 2
  BY DEF Denied
<1>1. Revoked(t) /\ exp[t] \in Nat /\ now \in Nat
  BY DEF WInv, TokenTypes
<1>2. CASE t \in DOMAIN live /\ live[t].expires >= 2 * exp[t] - 1
  BY <1>1, <1>2 DEF WInv, Entries
<1>3. CASE 2 * exp[t] - now < 2
  BY <1>1, <1>3
<1> QED BY <1>1, <1>2, <1>3 DEF Denied

\* Nobody is newly revoked by a step in which no logout is carried out.
LEMMA NoneRevoked ==
    ASSUME WInv, Observed, \A h \in Handlers : StepOf(h),
           \A h \in Handlers : handling'[h].pc = "logged_out" => handling[h] = handling'[h]
    PROVE  \A t : Revoked(t)' => Revoked(t)
<1> SUFFICES ASSUME NEW t, Revoked(t)' PROVE Revoked(t)
  OBVIOUS
<1>1. CASE t \in loggedOut'
  BY <1>1 DEF Observed, LoggingOut, Revoked, Ending
<1>2. CASE t \notin loggedOut'
  BY <1>2 DEF Revoked, Ending
<1> QED BY <1>1, <1>2

LEMMA NextDenied ==
    ASSUME ~FailsOpen, WInv, Denied, [WNext]_wvars PROVE Denied'
<1>1. CASE RRestart /\ loggedOut' = {} /\ late' = {}
  BY <1>1 DEF RRestart, Denied, Revoked, Ending, Free
<1>2. CASE UNCHANGED wvars
  BY <1>2 DEF wvars, rvars, Denied, Revoked, Ending
<1>3. ASSUME Observed, RNext, ~RRestart PROVE Denied'
  <2>1. ASSUME NEW t \in Tokens, Issue(t) PROVE Denied'
    <3>1. \A u : Revoked(u)' => Revoked(u)
      BY <1>3, <2>1, NoneRevoked DEF Issue, StepOf
    <3>2. \A u : Revoked(u) => u \in DOMAIN exp
      BY DEF WInv, TokenTypes, Revoked, Ending
    <3>3. DOMAIN exp' = DOMAIN exp \cup {t} /\ \A u \in DOMAIN exp : exp'[u] = exp[u]
      BY <2>1 DEF Issue
    <3> QED BY <2>1, <3>1, <3>2, <3>3 DEF Denied, Issue, NoCall
  <2>2. ASSUME NEW h \in Handlers, NEW t \in Tokens, NEW logout \in BOOLEAN, Decode(h, t, logout)
        PROVE  Denied'
    <3>1. \A g \in Handlers : StepOf(g) /\ (handling'[g].pc = "logged_out" => handling[g] = handling'[g])
      BY <2>2 DEF Decode, StepOf, WInv, TokenTypes
    <3> QED BY <1>3, <2>2, <3>1, NoneRevoked, DeniedWhileKept DEF Decode, NoCall, WInv, TokenTypes
  <2>3. ASSUME NEW h \in Handlers, CheckRevoked(h) PROVE Denied'
    <3>1. handling[h] \in Handled /\ handling[h].pc = "check"
      BY <2>3 DEF CheckRevoked, WInv, TokenTypes
    <3>2. /\ \A g \in Handlers \ {h} : handling'[g] = handling[g]
          /\ handling'[h].pc \in {"idle", "revoke", "accepted"}
          /\ handling'[h].pc # "idle" => handling'[h].token = handling[h].token
      BY <2>3, <3>1 DEF CheckRevoked, Free, WInv, TokenTypes, Handled
    <3>3. \A g \in Handlers : StepOf(g) /\ (handling'[g].pc = "logged_out" => handling[g] = handling'[g])
      BY <3>1, <3>2 DEF StepOf
    <3>4. UNCHANGED <<live, now, exp>>
      BY <2>3 DEF CheckRevoked, Get, Operate
    <3> QED BY <1>3, <3>3, <3>4, NoneRevoked, DeniedWhileKept DEF WInv, TokenTypes
  <2>4. ASSUME NEW h \in Handlers, Revoke(h) PROVE Denied'
    <3> SUFFICES ASSUME NEW t, t = handling[h].token PROVE Denied'
      OBVIOUS
    <3>1. handling[h] \in Handled /\ handling[h].pc = "revoke" /\ t \in DOMAIN exp /\ exp[t] \in Nat
      BY <2>4 DEF Revoke, WInv, TokenTypes
    <3>2. /\ \A g \in Handlers \ {h} : handling'[g] = handling[g]
          /\ handling'[h].pc = "logged_out" /\ handling'[h].token = t
          /\ UNCHANGED <<now, exp>>
      BY <2>4, <3>1 DEF Revoke, WInv, TokenTypes, Handled, NoCall, Set
    <3>3. ASSUME NEW u \in DOMAIN exp \ {t}, Revoked(u)' PROVE Revoked(u)
      BY <1>3, <3>1, <3>2, <3>3 DEF Observed, LoggingOut, Revoked, Ending
    <3>4. CASE Remaining(t) > 0
      <4>1. PICK v \in Values : live' = With(live, t, [value |-> v, expires |-> now + 2 * Remaining(t)])
        BY <2>4, <3>4 DEF Revoke, Set, Operate, Key
      <4>2. /\ t \in DOMAIN live' /\ live'[t].expires = now + 2 * Remaining(t)
            /\ \A u \in DOMAIN live \ {t} : u \in DOMAIN live' /\ live'[u] = live[u]
        BY <4>1 DEF With
      <4>3. live'[t].expires >= 2 * exp[t] - 1
        BY <3>1, <3>4, <4>2, RemainingIsTruncated DEF WInv
      <4> QED BY <3>2, <3>3, <4>2, <4>3 DEF Denied
    <3>5. CASE ~(Remaining(t) > 0)
      <4>1. 2 * exp[t] - now < 2
        BY <3>1, <3>5, RemainingIsTruncated DEF WInv
      <4>2. UNCHANGED live
        BY <2>4, <3>5 DEF Revoke, NoCall
      <4> QED BY <3>2, <3>3, <4>1, <4>2 DEF Denied
    <3> QED BY <3>4, <3>5
  <2>5. ASSUME NEW h \in Handlers, Answer(h) PROVE Denied'
    <3>1. \A g \in Handlers : StepOf(g) /\ (handling'[g].pc = "logged_out" => handling[g] = handling'[g])
      BY <2>5 DEF Answer, Free, StepOf, WInv, TokenTypes
    <3> QED BY <1>3, <2>5, <3>1, NoneRevoked, DeniedWhileKept DEF Answer, NoCall, WInv, TokenTypes
  <2>6. CASE RTick
    <3>1. \A g \in Handlers : StepOf(g) /\ (handling'[g].pc = "logged_out" => handling[g] = handling'[g])
      BY <2>6 DEF RTick, StepOf
    <3>2. /\ now' \in Nat /\ now' >= now /\ UNCHANGED exp
          /\ \A t \in DOMAIN live : \/ t \in DOMAIN live' /\ live'[t] = live[t]
                                    \/ live[t].expires <= now'
      BY <2>6 DEF RTick, TTick, Without, Expired, WInv, TokenTypes
    <3> QED BY <1>3, <3>1, <3>2, NoneRevoked, DeniedWhileKept
  <2> QED BY <1>3, <2>1, <2>2, <2>3, <2>4, <2>5, <2>6 DEF RNext
<1> QED BY <1>1, <1>2, <1>3 DEF WNext, Observed

\* The move DeniedUntilLastSecond is about is made by the reading of the denylist alone, and
\* only when the token is not in it.
LEMMA AcceptedWhenAbsent ==
    ASSUME ~FailsOpen, WInv, [WNext]_wvars, NEW h \in late,
           handling[h].pc = "check", handling'[h].pc \in {"accepted", "revoke"}
    PROVE  handling[h].token \notin DOMAIN live
<1>1. h \in Handlers /\ handling[h] \in Handled /\ DOMAIN handling = Handlers
  BY DEF WInv, LateArrivals, TokenTypes
<1>2. handling'[h] # handling[h]
  OBVIOUS
<1>3. RNext
  BY <1>2 DEF WNext, wvars, rvars
<1>4. ASSUME NEW t \in Tokens, NEW logout \in BOOLEAN, NEW g \in Handlers, Decode(g, t, logout)
      PROVE  FALSE
  BY <1>1, <1>2, <1>4 DEF Decode, WInv, TokenTypes
<1>5. ASSUME NEW g \in Handlers, Revoke(g) \/ Answer(g) PROVE FALSE
  BY <1>1, <1>2, <1>5 DEF Revoke, Answer, Free, WInv, TokenTypes
<1>6. ASSUME NEW g \in Handlers, CheckRevoked(g) PROVE handling[h].token \notin DOMAIN live
  <2>1. g = h
    BY <1>1, <1>2, <1>6 DEF CheckRevoked, WInv, TokenTypes
  <2>2. answer' = NULL
    BY <1>1, <1>6, <2>1 DEF CheckRevoked, Free
  <2>3. \A t \in DOMAIN live : live[t].value # NULL
    BY Lifetimes DEF WInv, Entries
  <2>4. answer' = IF handling[h].token \in DOMAIN live THEN live[handling[h].token].value ELSE NULL
    BY <1>6, <2>1 DEF CheckRevoked, Get, Operate, Key
  <2> QED BY <2>2, <2>3, <2>4
<1>7. ASSUME NEW t \in Tokens, Issue(t) PROVE FALSE
  BY <1>2, <1>7 DEF Issue
<1>8. ~RTick
  BY <1>2 DEF RTick
<1>9. ~RRestart
  BY <1>1 DEF RRestart, Free
<1> QED BY <1>3, <1>4, <1>5, <1>6, <1>7, <1>8, <1>9 DEF RNext

LEMMA InitDenied == WInit => Denied
BY DEF WInit, RInit, Denied, Revoked, Ending, Free

\* With a store that answers, a token that was logged out is denied to every request that
\* arrives after the logout was answered, whatever else is in flight, up to the last second
\* before its exp: AuthService.logout and the check in get_current_user.
THEOREM DeniedUntilLastSecondHolds == ASSUME ~FailsOpen PROVE WSpec => DeniedUntilLastSecond
<1>1. WInv /\ Denied /\ [WNext]_wvars => Denied'
  BY NextDenied
<1>2. WInv /\ Denied /\ [WNext]_wvars =>
        \A h \in late : (handling[h].pc = "check" /\ handling'[h].pc \in {"accepted", "revoke"}) =>
           2 * exp[handling[h].token] - now < 2
  <2> SUFFICES ASSUME WInv, Denied, [WNext]_wvars, NEW h \in late,
                      handling[h].pc = "check", handling'[h].pc \in {"accepted", "revoke"}
               PROVE  2 * exp[handling[h].token] - now < 2
    OBVIOUS
  <2>1. handling[h].token \in loggedOut /\ handling[h].token \in DOMAIN exp
    BY DEF WInv, LateArrivals, TokenTypes
  <2>2. handling[h].token \notin DOMAIN live
    BY AcceptedWhenAbsent
  <2> QED BY <2>1, <2>2 DEF Denied, Revoked
<1> QED BY InitDenied, WInvHolds, <1>1, <1>2, PTL DEF WSpec, DeniedUntilLastSecond
===============================================================================
