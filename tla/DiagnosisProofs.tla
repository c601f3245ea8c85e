---------------------------- MODULE DiagnosisProofs ----------------------------
(***************************************************************************)
(* Every diagnosis answers the question of its own snapshot and names its  *)
(* source truly, and the threads of a process share one client, for every  *)
(* number of threads and instances, every lifetime of the cached answers,  *)
(* and a store and a construction that may fail at any call.               *)
(***************************************************************************)
EXTENDS Diagnosis, TLAPS

Texted == {"store", "answered"}

Asked == [pc : {"idle", "lookup", "provider", "store", "answered"},
          question : Questions \cup {NULL},
          text : Values \cup {NULL},
          source : {"llm", "rule-based", NULL}]

\* What a request has in hand belongs to its own question.
OwnAnswer(d) ==
    /\ d.pc # "idle" => d.question \in Questions
    /\ d.pc \notin Texted => d.text = NULL
    /\ d.pc = "store" => d.text = d.question /\ d.source = "llm"
    /\ d.pc = "answered" => \/ d.text = d.question /\ d.source = "llm"
                            \/ d.text = Rules /\ d.source = "rule-based"

\* Under the key of a question lies the answer to it, and only the provider's.
CacheHonest == DOMAIN live \subseteq Questions /\ \A q \in DOMAIN live : live[q].value = q

AskInv ==
    /\ rows \in [Instances -> Contexts]
    /\ asking \in [Handlers -> Asked]
    /\ CacheHonest
    /\ \A h \in Handlers : OwnAnswer(asking[h])

Places == {"idle", "wait", "check", "build", "release", "return", "using"}

\* Whoever has passed the second check finds the variable as it was then, since it holds
\* the lock; and what was built stays.
SharedClient(c) ==
    /\ caller[c].pc \in {"check", "build", "release"} => lock = c
    /\ At(c, "build") => shared = NONE
    /\ caller[c].pc \in {"release", "return", "using"} => shared # NONE
    /\ At(c, "using") => caller[c].got = shared

ClientInv ==
    /\ caller \in [Callers -> [pc : Places, got : {NONE, 1}]]
    /\ lock \in Callers \cup {NONE}
    /\ \/ shared = NONE /\ built = 0
       \/ shared = 1 /\ built = 1
    /\ \A c \in Callers : SharedClient(c)

\* A thread is in the client's code only while its request is at the provider.
Together == \A h \in Handlers : asking[h].pc # "provider" => At(h, "idle")

GInv == AskInv /\ ClientInv /\ Together
-------------------------------------------------------------------------------
\* A request that moves on with an answer of its own keeps AskInv.
LEMMA AskingIsSafe ==
    ASSUME AskInv, NEW h \in Handlers, NEW d \in Asked, OwnAnswer(d), CacheHonest',
           asking' = [asking EXCEPT ![h] = d], UNCHANGED rows
    PROVE  AskInv'
<1>1. asking' \in [Handlers -> Asked] /\ \A g \in Handlers : asking'[g] = IF g = h THEN d ELSE asking[g]
  BY DEF AskInv
<1>2. \A g \in Handlers : OwnAnswer(asking'[g])
  BY <1>1 DEF AskInv
<1> QED BY <1>1, <1>2 DEF AskInv, OwnAnswer, Asked

LEMMA CacheKept == ASSUME CacheHonest, UNCHANGED live PROVE CacheHonest'
BY DEF CacheHonest

LEMMA NoDiagnosisIsOwn == NoDiagnosis \in Asked /\ OwnAnswer(NoDiagnosis)
BY DEF NoDiagnosis, Asked, OwnAnswer, Texted

\* What the store answers under the key of a question is the answer to it, or nothing, the
\* backend out of reach included.
LEMMA CachedIsAnswer ==
    ASSUME CacheHonest, NEW q \in Questions, Get(q)
    PROVE  answer' \in {q, NULL} /\ UNCHANGED live
BY DEF Get, Operate, CacheHonest

\* Storing the answer to a question under its key keeps the cache honest.
LEMMA StoringIsHonest ==
    ASSUME CacheHonest, NEW q \in Questions, Set(q, q, CacheTtl)
    PROVE  CacheHonest'
<1>1. live' \in {live, With(live, q, [value |-> q, expires |-> now + 2 * CacheTtl])}
  BY DEF Set, Operate
<1> QED BY <1>1 DEF CacheHonest, With

\* The values are the questions and the rules' text, which are told apart, and NULL is none.
LEMMA TextsDiffer ==
    /\ Values = Questions \cup {Rules} /\ NULL \notin Values /\ Rules \notin Questions
    /\ CacheTtl \in Nat
BY DiagnosisAssumption, KeysAssumption, TtlAssumption

LEMMA LoadIsSafe ==
    ASSUME AskInv, NEW h \in Handlers, NEW i \in Instances, Load(h, i) PROVE AskInv'
<1> DEFINE d == [NoDiagnosis EXCEPT !.question = <<i, rows[i]>>,
                                    !.pc = IF CacheTtl > 0 THEN "lookup" ELSE "provider"]
<1>1. <<i, rows[i]>> \in Questions
  BY DEF AskInv, Questions
<1>2. d \in Asked /\ OwnAnswer(d)
  BY <1>1 DEF NoDiagnosis, Asked, OwnAnswer, Texted
<1>3. CacheHonest' /\ asking' = [asking EXCEPT ![h] = d] /\ UNCHANGED rows
  BY CacheKept DEF Load, NoCall, AskInv
<1> QED BY <1>2, <1>3, AskingIsSafe

LEMMA LookupIsSafe ==
    ASSUME AskInv, NEW h \in Handlers, Lookup(h) PROVE AskInv'
<1> DEFINE q == asking[h].question
<1>1. asking[h] \in Asked /\ OwnAnswer(asking[h]) /\ asking[h].pc = "lookup" /\ q \in Questions
  BY DEF AskInv, Lookup, OwnAnswer
<1>2. answer' \in {q, NULL} /\ UNCHANGED <<live, rows>>
  BY <1>1, CachedIsAnswer DEF AskInv, Lookup, CacheKey
<1>3. CASE answer' # NULL
  <2> DEFINE d == [asking[h] EXCEPT !.pc = "answered", !.text = answer', !.source = "llm"]
  <2>1. asking' = [asking EXCEPT ![h] = d]
    BY <1>1, <1>3 DEF Lookup, Answered, AskInv
  <2>2. d \in Asked /\ OwnAnswer(d)
    BY <1>1, <1>2, <1>3, TextsDiffer DEF Asked, OwnAnswer, Texted
  <2> QED BY <1>2, <2>1, <2>2, CacheKept, AskingIsSafe DEF AskInv
<1>4. CASE answer' = NULL
  <2> DEFINE d == [asking[h] EXCEPT !.pc = "provider"]
  <2>1. asking' = [asking EXCEPT ![h] = d]
    BY <1>1, <1>4 DEF Lookup, AskInv
  <2>2. d \in Asked /\ OwnAnswer(d)
    BY <1>1 DEF Asked, OwnAnswer, Texted
  <2> QED BY <1>2, <2>1, <2>2, CacheKept, AskingIsSafe DEF AskInv
<1> QED BY <1>3, <1>4

LEMMA ProviderIsSafe ==
    ASSUME AskInv, NEW h \in Handlers, ProviderAnswers(h) PROVE AskInv'
<1> DEFINE d == [asking[h] EXCEPT !.pc = IF CacheTtl > 0 THEN "store" ELSE "answered",
                                  !.text = asking[h].question, !.source = "llm"]
<1>1. asking[h] \in Asked /\ asking[h].question \in Questions
  BY DEF AskInv, ProviderAnswers, OwnAnswer
<1>2. asking' = [asking EXCEPT ![h] = d] /\ UNCHANGED <<live, rows>>
  BY <1>1 DEF ProviderAnswers, Answered, NoCall, AskInv, Asked
<1>3. d \in Asked /\ OwnAnswer(d)
  BY <1>1, TextsDiffer DEF Asked, OwnAnswer, Texted
<1> QED BY <1>2, <1>3, CacheKept, AskingIsSafe DEF AskInv

LEMMA RulesAreSafe ==
    ASSUME AskInv, NEW h \in Handlers, RulesAnswer(h) PROVE AskInv'
<1> DEFINE d == [asking[h] EXCEPT !.pc = "answered", !.text = Rules, !.source = "rule-based"]
<1>1. asking[h] \in Asked /\ asking[h].question \in Questions
  BY DEF AskInv, RulesAnswer, OwnAnswer
<1>2. asking' = [asking EXCEPT ![h] = d] /\ UNCHANGED <<live, rows>>
  BY <1>1 DEF RulesAnswer, Answered, NoCall, AskInv
<1>3. d \in Asked /\ OwnAnswer(d)
  BY <1>1, TextsDiffer DEF Asked, OwnAnswer, Texted
<1> QED BY <1>2, <1>3, CacheKept, AskingIsSafe DEF AskInv

LEMMA StoreIsSafe ==
    ASSUME AskInv, NEW h \in Handlers, Store(h) PROVE AskInv'
<1> DEFINE d == [asking[h] EXCEPT !.pc = "answered"]
<1>1. /\ asking[h] \in Asked /\ asking[h].question \in Questions
      /\ asking[h].text = asking[h].question /\ asking[h].source = "llm"
  BY DEF AskInv, Store, OwnAnswer
<1>2. asking' = [asking EXCEPT ![h] = d] /\ UNCHANGED rows
  BY <1>1 DEF Store, AskInv
<1>3. CacheHonest'
  BY <1>1, StoringIsHonest DEF Store, CacheKey, AskInv
<1>4. d \in Asked /\ OwnAnswer(d)
  BY <1>1 DEF Asked, OwnAnswer, Texted
<1> QED BY <1>2, <1>3, <1>4, AskingIsSafe

LEMMA RespondIsSafe ==
    ASSUME AskInv, NEW h \in Handlers, Respond(h) PROVE AskInv'
<1>1. CacheHonest' /\ asking' = [asking EXCEPT ![h] = NoDiagnosis] /\ UNCHANGED rows
  BY CacheKept DEF Respond, NoCall, AskInv
<1> QED BY <1>1, NoDiagnosisIsOwn, AskingIsSafe

\* A change of the rows touches no answer in hand: the snapshot was taken before.
LEMMA ChangeIsSafe ==
    ASSUME AskInv, NEW i \in Instances, Change(i) PROVE AskInv'
<1>1. rows' \in [Instances -> Contexts]
  BY DEF Change, AskInv
<1>2. CacheHonest' /\ UNCHANGED asking
  BY CacheKept DEF Change, NoCall, AskInv
<1> QED BY <1>1, <1>2 DEF AskInv, OwnAnswer, Asked

LEMMA TimeIsSafe == ASSUME AskInv, DTick PROVE AskInv'
<1>1. CacheHonest'
  BY DEF DTick, TTick, Without, CacheHonest, AskInv
<1> QED BY <1>1 DEF DTick, AskInv, OwnAnswer, Asked

LEMMA RestartIsSafe == ASSUME AskInv, DRestart PROVE AskInv'
<1>1. CacheHonest'
  BY DEF DRestart, Restart, NoEntries, CacheHonest
<1> QED BY <1>1, NoDiagnosisIsOwn DEF DRestart, AskInv
-------------------------------------------------------------------------------
\* A step of one thread leaves the others where they are.
LEMMA OneThreadMoves ==
    ASSUME ClientInv, NEW c \in Callers, NEW pc \in Places, NEW got \in {NONE, 1}, To(c, pc, got)
    PROVE  /\ caller' \in [Callers -> [pc : Places, got : {NONE, 1}]]
           /\ caller'[c].pc = pc /\ caller'[c].got = got
           /\ \A d \in Callers \ {c} : caller'[d] = caller[d]
BY DEF ClientInv, To

\* Those that wait for the lock, or are inside it, one of them alone.
LEMMA AdvancingIsSafe ==
    ASSUME ClientInv, NEW c \in Callers, Call(c) \/ Advance(c) \/ Raise(c) \/ Use(c)
    PROVE  ClientInv'
<1> USE SingletonAssumption
<1>1. CASE Call(c)
  <2>1. To(c, IF shared = NONE THEN "wait" ELSE "return", NONE)
    BY <1>1 DEF Call
  <2>2. /\ caller' \in [Callers -> [pc : Places, got : {NONE, 1}]]
        /\ caller'[c].pc = IF shared = NONE THEN "wait" ELSE "return"
        /\ \A d \in Callers \ {c} : caller'[d] = caller[d]
    BY <2>1, OneThreadMoves DEF Places
  <2> QED BY <1>1, <2>2 DEF Call, ClientInv, SharedClient, At, Places
<1>2. CASE Acquire(c)
  <2>1. /\ caller' \in [Callers -> [pc : Places, got : {NONE, 1}]]
        /\ caller'[c].pc = "check"
        /\ \A d \in Callers \ {c} : caller'[d] = caller[d]
    BY <1>2, OneThreadMoves DEF Acquire, Places
  <2> QED BY <1>2, <2>1 DEF Acquire, ClientInv, SharedClient, At, Places
<1>3. CASE CheckAgain(c)
  <2>1. To(c, IF shared = NONE THEN "build" ELSE "release", NONE) /\ lock = c
    BY <1>3 DEF CheckAgain, ClientInv, SharedClient, At
  <2>2. /\ caller' \in [Callers -> [pc : Places, got : {NONE, 1}]]
        /\ caller'[c].pc = IF shared = NONE THEN "build" ELSE "release"
        /\ \A d \in Callers \ {c} : caller'[d] = caller[d]
    BY <2>1, OneThreadMoves DEF Places
  <2> QED BY <1>3, <2>1, <2>2 DEF CheckAgain, ClientInv, SharedClient, At, Places
<1>4. CASE Build(c)
  <2>1. shared = NONE /\ built = 0 /\ lock = c
    BY <1>4 DEF Build, ClientInv, SharedClient, At
  <2>2. shared' = 1 /\ built' = 1 /\ lock' = c
    BY <1>4, <2>1 DEF Build
  <2>3. /\ caller' \in [Callers -> [pc : Places, got : {NONE, 1}]]
        /\ caller'[c].pc = "release"
        /\ \A d \in Callers \ {c} : caller'[d] = caller[d]
    BY <1>4, OneThreadMoves DEF Build, Places
  <2>4. ASSUME NEW d \in Callers \ {c} PROVE SharedClient(d)'
    BY <2>1, <2>2, <2>3 DEF ClientInv, SharedClient, At, Places
  <2> QED BY <2>2, <2>3, <2>4 DEF ClientInv, SharedClient, At, Places
<1>5. CASE Raise(c)
  <2>1. lock = c
    BY <1>5 DEF Raise, ClientInv, SharedClient, At
  <2>2. /\ caller' \in [Callers -> [pc : Places, got : {NONE, 1}]]
        /\ caller'[c].pc = "idle"
        /\ \A d \in Callers \ {c} : caller'[d] = caller[d]
    BY <1>5, OneThreadMoves DEF Raise, Places
  <2> QED BY <1>5, <2>1, <2>2 DEF Raise, ClientInv, SharedClient, At, Places
<1>6. CASE Release(c)
  <2>1. lock = c /\ shared # NONE
    BY <1>6 DEF Release, ClientInv, SharedClient, At
  <2>2. /\ caller' \in [Callers -> [pc : Places, got : {NONE, 1}]]
        /\ caller'[c].pc = "return"
        /\ \A d \in Callers \ {c} : caller'[d] = caller[d]
    BY <1>6, OneThreadMoves DEF Release, Places
  <2> QED BY <1>6, <2>1, <2>2 DEF Release, ClientInv, SharedClient, At, Places
<1>7. CASE Return(c)
  <2>1. shared \in {NONE, 1} /\ shared # NONE
    BY <1>7 DEF Return, ClientInv, SharedClient, At
  <2>2. /\ caller' \in [Callers -> [pc : Places, got : {NONE, 1}]]
        /\ caller'[c].pc = "using" /\ caller'[c].got = shared
        /\ \A d \in Callers \ {c} : caller'[d] = caller[d]
    BY <1>7, <2>1, OneThreadMoves DEF Return, Places
  <2> QED BY <1>7, <2>1, <2>2 DEF Return, ClientInv, SharedClient, At, Places
<1>8. CASE Use(c)
  <2>1. /\ caller' \in [Callers -> [pc : Places, got : {NONE, 1}]]
        /\ caller'[c].pc = "idle"
        /\ \A d \in Callers \ {c} : caller'[d] = caller[d]
    BY <1>8, OneThreadMoves DEF Use, Places
  <2> QED BY <1>8, <2>1 DEF Use, ClientInv, SharedClient, At, Places
<1> QED BY <1>1, <1>2, <1>3, <1>4, <1>5, <1>6, <1>7, <1>8 DEF Advance

LEMMA ClientRestartIsSafe == ZRestart => ClientInv'
BY SingletonAssumption DEF ZRestart, ClientInv, SharedClient, Idle, At, Places

LEMMA ClientKept == ClientInv /\ UNCHANGED zvars => ClientInv'
BY DEF zvars, ClientInv, SharedClient, At, Places
-------------------------------------------------------------------------------
LEMMA InitGInv == GInit => GInv
<1> SUFFICES ASSUME GInit PROVE GInv
  OBVIOUS
<1>1. AskInv
  BY NoDiagnosisIsOwn DEF GInit, DInit, TInit, NoEntries, AskInv, CacheHonest
<1>2. ClientInv
  BY SingletonAssumption DEF GInit, ZInit, ClientInv, SharedClient, Idle, At, Places
<1>3. Together
  BY SameThreadsAssumption DEF GInit, ZInit, Together, Idle, At
<1> QED BY <1>1, <1>2, <1>3 DEF GInv

LEMMA DiagnoseIsSafe ==
    ASSUME GInv, NEW h \in Handlers, Diagnose(h) PROVE GInv'
<1> USE SameThreadsAssumption DEF GInv
<1>1. CASE Serve(h)
  <2>1. AskInv' /\ ClientInv'
    BY <1>1, LookupIsSafe, StoreIsSafe, RespondIsSafe, ClientKept DEF Serve
  <2>2. \A g \in Handlers \ {h} : asking'[g] = asking[g]
    BY <1>1 DEF Serve, Lookup, Store, Respond, Answered, AskInv
  <2>3. At(h, "idle") /\ UNCHANGED caller
    BY <1>1 DEF Serve, Lookup, Store, Respond, Together, zvars
  <2> QED BY <2>1, <2>2, <2>3 DEF Together, At
<1>2. CASE FetchClient(h)
  <2>1. AskInv'
    BY <1>2, CacheKept DEF FetchClient, dvars, AskInv, OwnAnswer, Asked
  <2>2. ClientInv'
    BY <1>2, AdvancingIsSafe DEF FetchClient
  <2>3. \A g \in Handlers \ {h} : caller'[g] = caller[g]
    BY <1>2 DEF FetchClient, Call, Advance, Acquire, CheckAgain, Build, Release, Return, To, ClientInv
  <2>4. asking[h].pc = "provider" /\ UNCHANGED asking
    BY <1>2 DEF FetchClient, dvars
  <2> QED BY <2>1, <2>2, <2>3, <2>4 DEF Together, At
<1>3. CASE NoClient(h) \/ AskProvider(h)
  <2>1. AskInv' /\ ClientInv'
    BY <1>3, RulesAreSafe, ProviderIsSafe, AdvancingIsSafe DEF NoClient, AskProvider
  <2>2. \A g \in Handlers \ {h} : asking'[g] = asking[g]
    BY <1>3 DEF NoClient, AskProvider, RulesAnswer, ProviderAnswers, Answered, AskInv
  <2>3. At(h, "idle")' /\ \A g \in Handlers \ {h} : caller'[g] = caller[g]
    BY <1>3 DEF NoClient, AskProvider, Raise, Use, To, ClientInv, At
  <2> QED BY <2>1, <2>2, <2>3 DEF Together, At
<1> QED BY <1>1, <1>2, <1>3 DEF Diagnose

LEMMA NextGInv == GInv /\ [GNext]_gvars => GInv'
<1> SUFFICES ASSUME GInv, [GNext]_gvars PROVE GInv'
  OBVIOUS
<1> USE SameThreadsAssumption DEF GInv
<1>1. ASSUME NEW h \in Handlers, Diagnose(h) PROVE GInv'
  BY <1>1, DiagnoseIsSafe
<1>2. ASSUME NEW h \in Handlers, NEW i \in Instances, Load(h, i), UNCHANGED zvars PROVE GInv'
  <2>1. AskInv' /\ ClientInv'
    BY <1>2, LoadIsSafe, ClientKept
  <2>2. \A g \in Handlers \ {h} : asking'[g] = asking[g]
    BY <1>2 DEF Load, AskInv
  <2>3. At(h, "idle") /\ UNCHANGED caller
    BY <1>2 DEF Load, Together, zvars
  <2> QED BY <2>1, <2>2, <2>3 DEF Together, At
<1>3. ASSUME (\E i \in Instances : Change(i)) \/ DTick, UNCHANGED zvars PROVE GInv'
  <2>1. AskInv' /\ ClientInv'
    BY <1>3, ChangeIsSafe, TimeIsSafe, ClientKept
  <2> QED BY <1>3, <2>1 DEF Change, DTick, Together, At, zvars
<1>4. ASSUME DRestart, ZRestart PROVE GInv'
  <2>1. AskInv' /\ ClientInv'
    BY <1>4, RestartIsSafe, ClientRestartIsSafe
  <2> QED BY <1>4, <2>1 DEF ZRestart, Together, At, Idle
<1>5. ASSUME UNCHANGED gvars PROVE GInv'
  <2>1. AskInv' /\ ClientInv'
    BY <1>5, CacheKept, ClientKept DEF gvars, dvars, AskInv, OwnAnswer, Asked
  <2> QED BY <1>5, <2>1 DEF gvars, dvars, zvars, Together, At
<1> QED BY <1>1, <1>2, <1>3, <1>4, <1>5 DEF GNext

\* What the requests have in hand, what the cache holds and where the threads are in the
\* client's code fit together in every reachable state.
THEOREM GInvHolds == GSpec => []GInv
BY InitGInv, NextGInv, PTL DEF GSpec

\* The state is well typed: no thread is in the client's code without a request, none past
\* the second check without the lock.
THEOREM TypeCorrectness == GSpec => []GTypeOK
<1>1. GInv => DTypeOK
  BY TextsDiffer DEF GInv, AskInv, CacheHonest, OwnAnswer, Texted, Asked, DTypeOK
<1>2. GInv => ZTypeOK
  BY SingletonAssumption DEF GInv, ClientInv, SharedClient, ZTypeOK, At, Places
<1>3. GInv => GTypeOK
  BY <1>1, <1>2 DEF GInv, Together, GTypeOK
<1> QED BY <1>3, GInvHolds, PTL

\* A diagnosis answers the question of its own snapshot: an answer cached for other rows,
\* or for another instance, never reaches it.
THEOREM AnswersTheQuestionHolds == GSpec => []AnswersTheQuestion
<1>1. GInv => AnswersTheQuestion
  BY DEF GInv, AskInv, OwnAnswer, AnswersTheQuestion
<1> QED BY <1>1, GInvHolds, PTL

\* An answer is called the model's exactly when the model gave it, from the cache or not.
THEOREM SourceHonestHolds == GSpec => []SourceHonest
<1>1. GInv => SourceHonest
  BY TextsDiffer DEF GInv, AskInv, OwnAnswer, SourceHonest
<1> QED BY <1>1, GInvHolds, PTL

\* However many threads reach a cold process together, and however often a construction
\* raises, one client is built and every thread uses that one.
THEOREM BuiltOnceHolds == GSpec => []BuiltOnce
<1>1. GInv => BuiltOnce
  BY DEF GInv, ClientInv, SharedClient, At, BuiltOnce
<1> QED BY <1>1, GInvHolds, PTL
===============================================================================
