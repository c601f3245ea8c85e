------------------------------- MODULE Diagnosis -------------------------------
(***************************************************************************)
(* The diagnosis with the client its threads share: _llm_diagnosis takes   *)
(* it from _get_client, which may raise, asks the provider with it, and    *)
(* leaves it to the rules when either fails.                               *)
(***************************************************************************)
EXTENDS DiagnosisCache, LazySingleton

ASSUME SameThreadsAssumption == Callers = Handlers /\ MayRaise

gvars == <<dvars, zvars>>

GInit == DInit /\ ZInit

\* Everything before and after the provider, with the client left alone.
Serve(h) == /\ Lookup(h) \/ Store(h) \/ Respond(h)
            /\ UNCHANGED zvars

FetchClient(h) == /\ asking[h].pc = "provider"
                  /\ Call(h) \/ Advance(h)
                  /\ UNCHANGED dvars

\* Any exception, the construction's included, is caught and the rules answer.
NoClient(h) == Raise(h) /\ RulesAnswer(h)

AskProvider(h) == Use(h) /\ (ProviderAnswers(h) \/ RulesAnswer(h))

Diagnose(h) == Serve(h) \/ FetchClient(h) \/ NoClient(h) \/ AskProvider(h)

GNext ==
    \/ \E h \in Handlers : Diagnose(h) \/ ((\E i \in Instances : Load(h, i)) /\ UNCHANGED zvars)
    \/ ((\E i \in Instances : Change(i)) \/ DTick) /\ UNCHANGED zvars
    \/ DRestart /\ ZRestart

GSpec == GInit /\ [][GNext]_gvars

\* Threads run on, the provider's call ends by its timeout at the latest, and a thread that
\* waits for a lock which keeps becoming free gets it.
FairGSpec ==
    GSpec /\ \A h \in Handlers : WF_gvars(Diagnose(h)) /\ SF_gvars(FetchClient(h) /\ Acquire(h))
-------------------------------------------------------------------------------
\* A thread is at the provider for as long as it is in the client's code, or about to be.
GTypeOK ==
    /\ DTypeOK
    /\ ZTypeOK
    /\ \A h \in Handlers : asking[h].pc # "provider" => At(h, "idle")

\* "A construction failure is not cached: the next call is free to try again", and nobody is
\* left waiting behind it: every diagnosis is answered, whoever else's construction failed.
EveryDiagnosisAnswered == \A h \in Handlers : asking[h].pc # "idle" ~> asking[h].pc = "idle"
===============================================================================
