--------------------------------- MODULE Server --------------------------------
(***************************************************************************)
(* The processes from their start to their answers: every worker runs its  *)
(* startup, and the requests of one of them, Front, are followed through   *)
(* the threads and connections of that process (main.py, database.py).     *)
(*                                                                         *)
(* External: the server accepts connections once the lifespan has yielded; *)
(* a process that ends takes with it the requests it is working on.        *)
(***************************************************************************)
EXTENDS Startup, RequestPool

CONSTANT Front      \* the worker whose requests are followed

ASSUME FrontAssumption == Front \in Workers

SvInit == StInit /\ PInit

\* The requests of the process, when it goes on or comes to its end.
Survive == UNCHANGED pvars

Lost == /\ holders' = {}
        /\ pc' = [r \in Requests |-> IF pc[r] \in {"arrived", "queued", "done"} THEN pc[r] ELSE "failed"]

StartingUp(w) == (Prepare(w) \/ GiveUp(w)) /\ Survive

Killed(w) == Crash(w) /\ IF w = Front THEN Lost ELSE Survive

Request(r) == stage[Front] = "serving" /\ Serve(r) /\ UNCHANGED svars

SvNext == \/ \E w \in Workers : StartingUp(w) \/ Killed(w)
          \/ \E r \in Requests : Request(r)

SvSpec == SvInit /\ [][SvNext]_<<svars, pvars>>

\* Processes run and are started again when they have ended, and a request that can go on does.
FairSvSpec == /\ SvSpec
              /\ \A w \in Workers : WF_<<svars, pvars>>(Prepare(w) /\ Survive)
              /\ \A r \in Requests : WF_<<svars, pvars>>(Request(r))
-------------------------------------------------------------------------------
\* One position more than there are batches, or tables: all of them are behind.
LastPosition(of) == IF of = "seed" THEN Len(Batches) + 1 ELSE Len(Tables) + 1

SvTypeOK ==
    /\ PTypeOK
    /\ schema \subseteq Objects
    /\ rows \in [DOMAIN Batches -> Nat]
    /\ stage \in [Workers -> {"down", "check", "tables", "its index", "indexes", "index", "probe",
                              "seed", "serving"}]
    /\ writer # None => writer \in Workers /\ stage[writer] = "seed"
    /\ \A w \in Workers : /\ at[w] \in 1 .. LastPosition(stage[w])
                          /\ missing[w] \subseteq DOMAIN Tables

\* "The seed is idempotent, so each worker's startup is safe": the demo rows are committed as
\* a whole and at most once, however many workers start, fail and crash, and a process that
\* serves finds every table, every index and all of these rows.
SeededOnce ==
    /\ rows \in {Copies(0), Copies(1)}
    /\ \A w \in Workers : stage[w] = "serving" => schema = Objects /\ rows = Copies(1)

\* Workers that make each other's startup fail all serve in the end.
EveryWorkerServes == \A w \in Workers : <>[](stage[w] = "serving")
===============================================================================
