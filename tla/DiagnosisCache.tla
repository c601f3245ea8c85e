---------------------------- MODULE DiagnosisCache ----------------------------
(***************************************************************************)
(* GET /api/instances/{id}/diagnosis (llm_service.diagnose): a snapshot of *)
(* the instance and its alerts is loaded, then, with no connection held,   *)
(* the short-lived store is asked for an answer to the same question, or   *)
(* the provider, or the rules.  The rows change meanwhile, several         *)
(* requests are in flight and the answers expire.                          *)
(*                                                                         *)
(* An answer is represented by what it answers: the question the provider  *)
(* was asked, so the cached texts are questions.                           *)
(***************************************************************************)
EXTENDS TtlStore

CONSTANTS
    Instances,      \* the instances diagnosed
    Contexts,       \* what the rendered rows may say, alerts included
    Handlers,       \* the server's worker threads
    Rules,          \* the text the rules give
    CacheTtl        \* DIAGNOSIS_CACHE_TTL_SECONDS, 0 to turn the cache off

Questions == Instances \X Contexts

ASSUME DiagnosisAssumption == /\ CacheTtl \in 0..MaxTtl
                              /\ Values = Questions \cup {Rules}
                              /\ Texts = Questions
                              /\ Rules \notin Questions \cup {NULL}

VARIABLES
    rows,      \* per instance, what its rows say now
    asking     \* per handler, the diagnosis it serves

dvars == <<live, now, answer, rows, asking>>

NoDiagnosis == [pc |-> "idle", question |-> NULL, text |-> NULL, source |-> NULL]

DInit == /\ TInit
         /\ rows \in [Instances -> Contexts]
         /\ asking = [h \in Handlers |-> NoDiagnosis]

NoCall == answer' = NULL /\ UNCHANGED <<live, now>>

\* Mutant: the key names only the instance.
KeyOfInstance(q) == <<q[1], CHOOSE c \in Contexts : TRUE>>

\* _cache_key: the hash of the whole question, under the instance's id.
CacheKey(q) == q

\* The controller loads the rows, closes the session and calls diagnose.
Load(h, i) ==
    /\ asking[h].pc = "idle"
    /\ asking' = [asking EXCEPT ![h] = [NoDiagnosis EXCEPT !.question = <<i, rows[i]>>,
                                           !.pc = IF CacheTtl > 0 THEN "lookup" ELSE "provider"]]
    /\ NoCall
    /\ UNCHANGED rows

Answered(h, text, source) ==
    [asking EXCEPT ![h].pc = "answered", ![h].text = text, ![h].source = source]

Lookup(h) ==
    /\ asking[h].pc = "lookup"
    /\ Get(CacheKey(asking[h].question))
    /\ asking' = IF answer' # NULL THEN Answered(h, answer', "llm")
                                  ELSE [asking EXCEPT ![h].pc = "provider"]
    /\ UNCHANGED rows

\* The provider answers the question.
ProviderAnswers(h) ==
    /\ asking[h].pc = "provider"
    /\ asking' = [Answered(h, asking[h].question, "llm") EXCEPT
                     ![h].pc = IF CacheTtl > 0 THEN "store" ELSE "answered"]
    /\ NoCall
    /\ UNCHANGED rows

\* Mutant: the rules' text is stored like the provider's.
RulesCached(h) ==
    /\ asking[h].pc = "provider"
    /\ asking' = [Answered(h, Rules, "rule-based") EXCEPT ![h].pc = "store"]
    /\ NoCall
    /\ UNCHANGED rows

\* No key, no network, no text: the rules answer, and nothing is stored.
RulesAnswer(h) ==
    /\ asking[h].pc = "provider"
    /\ asking' = Answered(h, Rules, "rule-based")
    /\ NoCall
    /\ UNCHANGED rows

Store(h) ==
    /\ asking[h].pc = "store"
    /\ Set(CacheKey(asking[h].question), asking[h].text, CacheTtl)
    /\ asking' = [asking EXCEPT ![h].pc = "answered"]
    /\ UNCHANGED rows

\* Mutant: the text stays behind with the thread.
RespondKeeping(h) ==
    /\ asking[h].pc = "answered"
    /\ asking' = [asking EXCEPT ![h].pc = "idle"]
    /\ NoCall
    /\ UNCHANGED rows

Respond(h) ==
    /\ asking[h].pc = "answered"
    /\ asking' = [asking EXCEPT ![h] = NoDiagnosis]
    /\ NoCall
    /\ UNCHANGED rows

\* Requests and scans change the rows.
Change(i) == /\ \E c \in Contexts \ {rows[i]} : rows' = [rows EXCEPT ![i] = c]
             /\ NoCall
             /\ UNCHANGED asking

DTick == TTick /\ UNCHANGED <<rows, asking>>

DRestart == Restart /\ asking' = [h \in Handlers |-> NoDiagnosis] /\ UNCHANGED rows
-------------------------------------------------------------------------------
DTypeOK ==
    /\ rows \in [Instances -> Contexts]
    /\ DOMAIN live \subseteq Questions
    /\ \A h \in Handlers : LET d == asking[h] IN
         /\ d.pc \in {"idle", "lookup", "provider", "store", "answered"}
         /\ d.pc # "idle" => d.question \in Questions
         /\ d.pc \in {"store", "answered"} <=> d.text # NULL

\* A diagnosis answers the question of its own snapshot: never another instance's, and
\* never one about rows that read otherwise since the cached answer was made.  Rows are what
\* the question renders of them: a change below its precision asks the same question.
AnswersTheQuestion ==
    \A h \in Handlers :
        asking[h].pc = "answered" => asking[h].text \in {asking[h].question, Rules}

\* What is called the model's answer is: the rules' text never comes back from the cache
\* as the model's, and "a key configured" later is not hidden by it.
SourceHonest ==
    \A h \in Handlers :
        asking[h].pc = "answered" => (asking[h].source = "llm" <=> asking[h].text # Rules)
===============================================================================
