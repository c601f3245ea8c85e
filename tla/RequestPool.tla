------------------------------ MODULE RequestPool ------------------------------
(***************************************************************************)
(* How the requests in flight share the server's worker threads and the    *)
(* connections of the engine's pool (database.py, controllers).            *)
(*                                                                         *)
(* External: FastAPI runs every synchronous dependency and every endpoint  *)
(* as a call of its own on one of the AnyIO threads, so a request gives    *)
(* its thread back between them; a Session takes a connection at its first *)
(* statement and keeps it until it is closed; a thread that finds no       *)
(* connection waits for one, up to the pool's timeout.  The call of the    *)
(* provider ends, by its own timeout if need be.                           *)
(***************************************************************************)
EXTENDS Naturals, FiniteSets

CONSTANTS
    Logins,        \* requests whose first statement is made by the endpoint
    Listings,      \* requests whose first statement loads the current member
    Diagnoses,     \* requests of a member that go on to the provider
    Threads,       \* the limit of AnyIO's threads
    Connections    \* POOL_SIZE + MAX_OVERFLOW

Requests == Logins \cup Listings \cup Diagnoses

ASSUME PoolAssumption == Threads \in Nat \ {0} /\ Connections \in Nat \ {0}

VARIABLES
    pc,        \* how far each request has come
    holders    \* the requests whose session holds a connection

pvars == <<pc, holders>>

Running == {r \in Requests : pc[r] \in {"get_member", "loaded", "connect", "endpoint", "provider"}}

PInit == /\ pc = [r \in Requests |-> IF r \in Logins THEN "queued" ELSE "arrived"]
         /\ holders = {}

Move(r, from, to) == pc[r] = from /\ pc' = [pc EXCEPT ![r] = to]

\* A thread takes up a dependency or an endpoint.
Start(r, from, to) == /\ Cardinality(Running) < Threads
                      /\ Move(r, from, to)
                      /\ UNCHANGED holders

\* Mutant: the pool opens one connection too many.
OneMoreFree == Cardinality(holders) <= Connections

\* Mutant: the overflow of the pool is not counted in.
WithoutOverflow == Cardinality(holders) < Connections - 1

\* The pool gives the session of r a connection.
ConnectionFree == Cardinality(holders) < Connections

Connect(r, from, to) == /\ ConnectionFree
                        /\ Move(r, from, to)
                        /\ holders' = holders \cup {r}

\* get_current_member: db.get takes the connection the session keeps, and the thread is
\* given back when the dependency returns.
GetMember(r) == \/ Start(r, "arrived", "get_member")
                \/ Connect(r, "get_member", "loaded")
                \/ Move(r, "loaded", "between") /\ UNCHANGED holders

\* The endpoint, on the session the dependency used; a login's has no connection yet.
Endpoint(r) == \/ Start(r, "between", "endpoint")
               \/ Start(r, "queued", "connect")
               \/ Connect(r, "connect", "endpoint")
               \/ r \notin Diagnoses /\ Move(r, "endpoint", "returned") /\ UNCHANGED holders

\* Mutant: the session is kept open while the provider is asked.
AskConnected(r) ==
    \/ r \in Diagnoses /\ Move(r, "endpoint", "provider") /\ UNCHANGED holders
    \/ Move(r, "provider", "returned") /\ UNCHANGED holders

\* Mutant: the provider is called without a timeout, and does not answer.
AskForEver(r) ==
    \/ r \in Diagnoses /\ Move(r, "endpoint", "provider") /\ holders' = holders \ {r}
    \/ Move(r, "provider", "provider") /\ UNCHANGED holders

\* diagnose_instance calls db.close() and only then asks the provider.
AskProvider(r) ==
    \/ r \in Diagnoses /\ Move(r, "endpoint", "provider") /\ holders' = holders \ {r}
    \/ Move(r, "provider", "returned") /\ UNCHANGED holders

\* get_db's finally: the session is closed, if it still was open.
Close(r) == Move(r, "returned", "done") /\ holders' = holders \ {r}

\* No connection within the pool's timeout: the request fails with a 500.
PoolTimeout(r) == /\ ~ConnectionFree
                  /\ Move(r, "get_member", "failed") \/ Move(r, "connect", "failed")
                  /\ UNCHANGED holders

Serve(r) == GetMember(r) \/ Endpoint(r) \/ AskProvider(r) \/ Close(r) \/ PoolTimeout(r)

-------------------------------------------------------------------------------
PTypeOK ==
    /\ pc \in [Requests -> {"arrived", "get_member", "loaded", "between", "queued", "connect",
                            "endpoint", "provider", "returned", "done", "failed"}]
    /\ Cardinality(Running) <= Threads
    /\ holders \subseteq Requests /\ Cardinality(holders) <= Connections

\* "A request waiting on the LLM shall hold no database connection", and neither does one
\* that is over: slow providers and failed requests leave the pool to the others.
NoIdleHolders == \A r \in holders : pc[r] \notin {"provider", "done", "failed"}

\* Every request is answered, with a 500 if need be: requests never wait for each other's
\* threads and connections for ever.
EveryRequestAnswered == \A r \in Requests : <>(pc[r] \in {"done", "failed"})

\* "Sized to serve 40 handlers at once": the threads alone never empty the pool.  When one
\* waits for a connection in vain, it is because of a request that holds one without a
\* thread, between its dependency and its endpoint or before its session is closed.
ThreadsNeverEmptyThePool ==
    Connections >= Threads =>
        \A r \in Requests :
            pc[r] \in {"get_member", "connect"} /\ ~ConnectionFree => \E q \in holders : q \notin Running
===============================================================================
