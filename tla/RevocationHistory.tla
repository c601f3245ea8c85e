--------------------------- MODULE RevocationHistory ---------------------------
(***************************************************************************)
(* TokenRevocation watched by an observer who knows which tokens have been *)
(* logged out and which requests arrived after that.                       *)
(***************************************************************************)
EXTENDS TokenRevocation

VARIABLES
    loggedOut,   \* the tokens whose logout was answered 204, since the store last started
    late         \* the handlers whose request arrived after that

wvars == <<rvars, loggedOut, late>>

WInit == RInit /\ loggedOut = {} /\ late = {}

LoggingOut == {h \in Handlers : handling[h].pc = "logged_out" /\ handling'[h].pc = "idle"}

WNext ==
    /\ RNext
    /\ IF RRestart THEN loggedOut' = {} /\ late' = {}
       ELSE /\ loggedOut' = loggedOut \cup {handling[h].token : h \in LoggingOut}
            /\ late' = {h \in Handlers : /\ handling'[h].pc # "idle"
                                         /\ \/ h \in late
                                            \/ /\ handling[h].pc = "idle"
                                               /\ handling'[h].token \in loggedOut}

WSpec == WInit /\ [][WNext]_wvars
-------------------------------------------------------------------------------
WTypeOK ==
    /\ DOMAIN live \subseteq DOMAIN exp
    /\ \A h \in Handlers : /\ handling[h].pc \in {"idle", "check", "accepted", "revoke", "logged_out"}
                           /\ handling[h].pc # "idle" => handling[h].token \in DOMAIN exp
    /\ loggedOut \subseteq DOMAIN exp

\* The denylist entry of a token never outlives the token, so the denylist holds only
\* tokens that would still be accepted.
EntryEndsWithToken == \A t \in DOMAIN live : live[t].expires <= 2 * exp[t]

\* A token's logout reaches only that token.
OnlyLoggedOutAreDenied ==
    \A t \in DOMAIN live :
        t \in loggedOut \/ \E h \in Handlers : handling[h].pc = "logged_out" /\ handling[h].token = t

\* After a logout the token is denied to every request that arrives later, whatever else is
\* in flight, until the last second before its exp.
DeniedUntilLastSecond ==
    [][\A h \in late :
          (handling[h].pc = "check" /\ handling'[h].pc \in {"accepted", "revoke"}) =>
             2 * exp[handling[h].token] - now < 2]_wvars
===============================================================================
