-------------------------------- MODULE Startup --------------------------------
(***************************************************************************)
(* Worker processes starting on one SQLite file (main.py lifespan, seed.py, *)
(* models.py): each creates the tables it finds missing, then the indexes, *)
(* then the demo rows, statement by statement, and only then serves.       *)
(*                                                                         *)
(* External: sqlite3 begins no transaction before a CREATE, so each one is *)
(* committed by itself, and one before an INSERT, which takes the write    *)
(* lock of the file until the commit; a supervisor starts a process that   *)
(* has ended again, whether it was stopped or its startup raised.          *)
(* One index of a table stands for all of them; that of members is the     *)
(* unique one of the email, which SQLAlchemy makes of unique and index.    *)
(***************************************************************************)
EXTENDS Naturals, Sequences

CONSTANTS
    Workers,       \* the worker processes
    Tables,        \* metadata.sorted_tables: a sequence that begins with "members"
    None,          \* no worker
    MaxCrashes     \* bound of TLC: processes that end for a reason outside the startup

Batches == <<"members", "clients", "instances", "snapshots">>   \* the flushes of seed

Objects == {Tables[i] : i \in DOMAIN Tables} \X {"table", "index"}

EmailIndex == <<"members", "index">>

ASSUME StartupAssumption == /\ Tables \in Seq(STRING) \ {<<>>} /\ Tables[1] = "members"
                            /\ None \notin Workers /\ MaxCrashes \in Nat

VARIABLES
    schema,        \* the tables and indexes of the file
    rows,          \* how often each batch of demo rows has been committed
    writer,        \* the worker whose transaction holds the write lock
    stage,         \* how far each worker has come
    at,            \* the position in that stage: of a table, or of a batch
    missing,       \* the tables each worker has found missing and not created yet
    crashes

svars == <<schema, rows, writer, stage, at, missing, crashes>>
file == <<schema, rows, writer>>

\* The demo rows were committed, or none was.
Copies(n) == [i \in DOMAIN Batches |-> n]

\* An empty file, or one that was seeded before some of its indexes were declared.
StInit == /\ \/ schema = {} /\ rows = Copies(0)
             \/ /\ \E new \in SUBSET {object \in Objects : object[2] = "index"} : schema = Objects \ new
                /\ rows = Copies(1)
          /\ writer = None
          /\ stage = [w \in Workers |-> "down"]
          /\ at = [w \in Workers |-> 1]
          /\ missing = [w \in Workers |-> {}]
          /\ crashes = 0

Go(w, to, position) == stage' = [stage EXCEPT ![w] = to] /\ at' = [at EXCEPT ![w] = position]

\* The process is over: its open transaction is rolled back.
End(w) == /\ Go(w, "down", 1)
          /\ missing' = [missing EXCEPT ![w] = {}]
          /\ writer' = IF writer = w THEN None ELSE writer
          /\ UNCHANGED <<schema, rows>>

\* External: the supervisor starts the process.
Launch(w) == /\ stage[w] = "down"
             /\ Go(w, "check", 1)
             /\ UNCHANGED <<file, missing>>

\* create_all first looks for every table ...
CheckTable(w) ==
    /\ stage[w] = "check"
    /\ IF at[w] \in DOMAIN Tables
       THEN /\ missing' = IF <<Tables[at[w]], "table">> \in schema THEN missing
                          ELSE [missing EXCEPT ![w] = @ \cup {at[w]}]
            /\ Go(w, "check", at[w] + 1)
       ELSE Go(w, "tables", 1) /\ UNCHANGED missing
    /\ UNCHANGED file

\* A CREATE of its own transaction, or the error that the object exists by now.
Create(w, object, to) ==
    /\ writer = None
    /\ \/ object \notin schema /\ schema' = schema \cup {object} /\ to /\ UNCHANGED <<rows, writer>>
       \/ object \in schema /\ End(w)

\* ... and then creates those it missed, each with its indexes.
CreateTable(w) ==
    /\ stage[w] = "tables"
    /\ \/ /\ missing[w] = {}
          /\ Go(w, "indexes", 1)
          /\ UNCHANGED <<file, missing>>
       \/ \E i \in missing[w] :
              /\ \A j \in missing[w] : i <= j
              /\ Create(w, <<Tables[i], "table">>, Go(w, "its index", i) /\ UNCHANGED missing)

CreateItsIndex(w) ==
    /\ stage[w] = "its index"
    /\ Create(w, <<Tables[at[w]], "index">>,
              Go(w, "tables", 1) /\ missing' = [missing EXCEPT ![w] = @ \ {at[w]}])

\* Mutant: the indexes are created without checkfirst.
CreateEveryIndex(w) ==
    /\ stage[w] = "indexes"
    /\ IF at[w] \notin DOMAIN Tables THEN Go(w, "probe", 1) ELSE Go(w, "index", at[w])
    /\ UNCHANGED <<file, missing>>

\* lifespan then looks for every index, and creates it in the next statement if need be.
CheckIndex(w) ==
    /\ stage[w] = "indexes"
    /\ IF at[w] \notin DOMAIN Tables THEN Go(w, "probe", 1)
       ELSE IF <<Tables[at[w]], "index">> \in schema THEN Go(w, "indexes", at[w] + 1)
            ELSE Go(w, "index", at[w])
    /\ UNCHANGED <<file, missing>>

CreateIndex(w) == /\ stage[w] = "index"
                  /\ Create(w, <<Tables[at[w]], "index">>, Go(w, "indexes", at[w] + 1) /\ UNCHANGED missing)

\* seed: any member means that the file has been seeded.
Probe(w) == /\ stage[w] = "probe"
            /\ Go(w, IF rows[1] > 0 THEN "serving" ELSE "seed", 1)
            /\ UNCHANGED <<file, missing>>

\* The first flush takes the write lock, and fails if the emails are there by now.
TakeLock(w) == /\ writer = None
               /\ IF rows[1] > 0 /\ EmailIndex \in schema THEN End(w)
                  ELSE writer' = w /\ Go(w, "seed", 2) /\ UNCHANGED <<schema, rows, missing>>

\* Mutant: each batch is committed by itself.
CommitEach(w) ==
    /\ stage[w] = "seed" /\ at[w] \in DOMAIN Batches
    /\ writer = None
    /\ rows' = [rows EXCEPT ![at[w]] = @ + 1]
    /\ Go(w, "seed", at[w] + 1)
    /\ UNCHANGED <<schema, writer, missing>>

\* The flushes of one transaction, which other connections do not see.
Flush(w) == /\ stage[w] = "seed" /\ at[w] \in DOMAIN Batches
            /\ \/ at[w] = 1 /\ TakeLock(w)
               \/ at[w] > 1 /\ Go(w, "seed", at[w] + 1) /\ UNCHANGED <<file, missing>>

CommitSeed(w) == /\ stage[w] = "seed" /\ at[w] = Len(Batches) + 1
                 /\ rows' = IF writer = w THEN [i \in DOMAIN rows |-> rows[i] + 1] ELSE rows
                 /\ writer' = None
                 /\ Go(w, "serving", 1)
                 /\ UNCHANGED <<schema, missing>>

\* The lock stays taken for longer than the busy timeout: the startup raises.
LockTimeout(w) == /\ writer \notin {None, w}
                  /\ \/ stage[w] \in {"its index", "index"}
                     \/ stage[w] = "tables" /\ missing[w] # {}
                     \/ stage[w] = "seed"
                  /\ End(w)

\* One statement of the startup of w.
Statement(w) == \/ CheckTable(w) \/ CreateTable(w) \/ CreateItsIndex(w) \/ CheckIndex(w)
                \/ CreateIndex(w) \/ Probe(w) \/ Flush(w) \/ CommitSeed(w)

Prepare(w) == (Launch(w) \/ Statement(w)) /\ UNCHANGED crashes

GiveUp(w) == LockTimeout(w) /\ UNCHANGED crashes

\* External: the process is killed, in its startup or while it serves.
Crash(w) == /\ crashes < MaxCrashes /\ stage[w] # "down"
            /\ crashes' = crashes + 1
            /\ End(w)
===============================================================================
