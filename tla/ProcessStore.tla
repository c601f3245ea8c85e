----------------------------- MODULE ProcessStore -----------------------------
(***************************************************************************)
(* core/store.py, get_store: the store a process uses for its whole life,  *)
(* in its own memory or in Redis as settings.REDIS_URL says.               *)
(***************************************************************************)
EXTENDS MemoryStore

VARIABLES
    backend,   \* the class the process built
    kv,        \* the keys of Redis
    reply      \* what Redis's last operation returned

Redis == INSTANCE RedisStore WITH answer <- reply

PInit == /\ backend \in {"memory", "redis"}
         /\ MInit
         /\ Redis!RInit

PNext == /\ UNCHANGED backend
         /\ \/ backend = "memory" /\ MNext /\ UNCHANGED <<kv, reply>>
            \/ backend = "redis" /\ Redis!RNext /\ UNCHANGED <<data, lastPurge, answer>>

PSpec == PInit /\ [][PNext]_<<svars, backend, kv, reply>>
-------------------------------------------------------------------------------
\* The two backends are interchangeable: what a caller sees of Redis is the contract that
\* MemoryStore implements, plus answers that nothing is stored when Redis is out of reach.
RedisImplementsContract == Redis!ImplementsContract
===============================================================================
