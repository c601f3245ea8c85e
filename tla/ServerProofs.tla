----------------------------- MODULE ServerProofs -----------------------------
(***************************************************************************)
(* However many workers start on one file, fail and are killed, the demo   *)
(* rows are committed whole and once, and who serves finds all of them;    *)
(* and whatever the requests and their process do, nobody keeps a          *)
(* connection who is not using it, nor do the threads alone, where there   *)
(* is a connection for each, ever keep one of them waiting.                *)
(***************************************************************************)
EXTENDS Server, FiniteSetTheorems, TLAPS

wvars == <<svars, pvars>>

Positions == DOMAIN Tables

Stages == {"down", "check", "tables", "its index", "indexes", "index", "probe", "seed", "serving"}

StartupTypes ==
    /\ schema \subseteq Objects
    /\ stage \in [Workers -> Stages]
    /\ at \in [Workers -> Nat \ {0}]
    /\ missing \in [Workers -> SUBSET Positions]
    /\ writer \in Workers \cup {None}

HasTable(i) == <<Tables[i], "table">> \in schema
HasIndex(i) == <<Tables[i], "index">> \in schema

\* What a worker knows of the file: objects never go away, so what it has found or created
\* is still there.
Knows(w) ==
    /\ stage[w] = "check" => \A i \in Positions : i < at[w] /\ i \notin missing[w] => HasTable(i)
    /\ stage[w] \in {"tables", "its index"} => \A i \in Positions \ missing[w] : HasTable(i)
    /\ stage[w] = "its index" => at[w] \in Positions /\ HasTable(at[w])
    /\ stage[w] \in {"indexes", "index"} =>
          \A i \in Positions : HasTable(i) /\ (i < at[w] => HasIndex(i))
    /\ stage[w] = "index" => at[w] \in Positions
    /\ stage[w] \in {"probe", "seed", "serving"} => schema = Objects

\* The rows of the open transaction are the first ones: its worker found no member when it
\* took the lock, and nobody else can have committed any since.
Locked(w) ==
    /\ stage[w] = "seed" => (at[w] = 1 \/ writer = w) /\ at[w] >= 1
    /\ writer = w => stage[w] = "seed" /\ at[w] > 1 /\ rows = Copies(0)

StartupInv ==
    /\ StartupTypes
    /\ rows \in {Copies(0), Copies(1)}
    /\ \A w \in Workers : Knows(w) /\ Locked(w)
    /\ \A w \in Workers : stage[w] = "serving" => rows = Copies(1)

LEMMA TablesHavePositions == Positions = 1 .. Len(Tables) /\ Len(Tables) \in Nat /\ 1 \in Positions
BY StartupAssumption DEF Positions

LEMMA FirstPosition == 1 \in Nat \ {0}
OBVIOUS

LEMMA RowsOfCopies == \A n : Copies(n)[1] = n /\ DOMAIN Copies(n) = 1 .. 4
BY DEF Copies, Batches

LEMMA OneMoreCopy ==
    /\ Copies(0) # Copies(1)
    /\ [i \in DOMAIN Copies(0) |-> Copies(0)[i] + 1] = Copies(1)
BY DEF Copies, Batches

LEMMA AllObjects ==
    ASSUME schema \subseteq Objects, \A i \in Positions : HasTable(i) /\ HasIndex(i)
    PROVE  schema = Objects
<1> SUFFICES ASSUME NEW object \in Objects PROVE object \in schema
  OBVIOUS
<1>1. PICK i \in Positions : object = <<Tables[i], "table">> \/ object = <<Tables[i], "index">>
  BY DEF Objects, Positions
<1> QED BY <1>1 DEF HasTable, HasIndex

\* What a worker that does not move knows stays true, since no object is ever dropped.
LEMMA KnowledgeKept ==
    ASSUME NEW v \in Workers, Knows(v), schema \subseteq schema', schema' \subseteq Objects,
           stage'[v] = stage[v], at'[v] = at[v], missing'[v] = missing[v]
    PROVE  Knows(v)'
BY DEF Knows, HasTable, HasIndex

\* What is left to show of a step of w that creates no rows and leaves the lock alone.
LEMMA MoveIsSafe ==
    ASSUME StartupInv, NEW w \in Workers, NEW to \in Stages, NEW position \in Nat \ {0},
           Go(w, to, position), schema \subseteq schema', schema' \subseteq Objects,
           missing' \in [Workers -> SUBSET Positions],
           \A v \in Workers \ {w} : missing'[v] = missing[v],
           UNCHANGED <<rows, writer>>,
           Knows(w)', Locked(w)', to = "serving" => rows = Copies(1)
    PROVE  StartupInv'
<1>1. /\ stage' \in [Workers -> Stages] /\ at' \in [Workers -> Nat \ {0}]
      /\ stage'[w] = to /\ at'[w] = position
      /\ \A v \in Workers \ {w} : stage'[v] = stage[v] /\ at'[v] = at[v]
  BY DEF StartupInv, StartupTypes, Go
<1>2. StartupTypes'
  BY <1>1 DEF StartupInv, StartupTypes
<1>3. (rows \in {Copies(0), Copies(1)})'
  BY DEF StartupInv, Copies
<1>4. ASSUME NEW v \in Workers \ {w} PROVE Knows(v)' /\ Locked(v)'
  <2>1. Knows(v)'
    BY <1>1, KnowledgeKept DEF StartupInv
  <2>2. Locked(v)'
    BY <1>1 DEF StartupInv, Locked, Copies
  <2> QED BY <2>1, <2>2
<1>5. ASSUME NEW v \in Workers, stage'[v] = "serving" PROVE rows' = Copies(1)
  BY <1>1, <1>5 DEF StartupInv
<1>6. (\A v \in Workers : stage[v] = "serving" => rows = Copies(1))'
  BY <1>5 DEF Copies
<1> QED BY <1>2, <1>3, <1>4, <1>6 DEF StartupInv

\* A process that ends leaves the file as it was committed.
LEMMA EndIsSafe ==
    ASSUME StartupInv, NEW w \in Workers, End(w) PROVE StartupInv'
<1>1. /\ stage' \in [Workers -> Stages] /\ at' \in [Workers -> Nat \ {0}]
      /\ missing' \in [Workers -> SUBSET Positions]
      /\ stage'[w] = "down"
      /\ \A v \in Workers \ {w} :
            stage'[v] = stage[v] /\ at'[v] = at[v] /\ missing'[v] = missing[v]
  <2>1. /\ stage' = [stage EXCEPT ![w] = "down"] /\ at' = [at EXCEPT ![w] = 1]
        /\ missing' = [missing EXCEPT ![w] = {}]
    BY DEF End, Go
  <2>2. "down" \in Stages /\ 1 \in Nat \ {0}
    BY DEF Stages
  <2> QED BY <2>1, <2>2 DEF StartupInv, StartupTypes
<1>2. /\ UNCHANGED <<schema, rows>>
      /\ writer' # w /\ (writer # w => writer' = writer) /\ (writer = w => writer' = None)
      /\ \A v \in Workers : v # None
  BY StartupAssumption DEF End
<1>3. StartupTypes'
  BY <1>1, <1>2 DEF StartupInv, StartupTypes
<1>4. (rows \in {Copies(0), Copies(1)})'
  BY <1>2 DEF StartupInv, Copies
<1>5. ASSUME NEW v \in Workers PROVE Knows(v)' /\ Locked(v)'
  <2>1. CASE v = w
    BY <1>1, <1>2, <2>1 DEF Knows, Locked
  <2>2. CASE v # w
    <3>1. Knows(v)'
      BY <1>1, <1>2, <2>2, KnowledgeKept DEF StartupInv, StartupTypes
    <3>2. Locked(v)'
      BY <1>1, <1>2, <2>2 DEF StartupInv, Locked, Copies
    <3> QED BY <3>1, <3>2
  <2> QED BY <2>1, <2>2
<1>6. (\A v \in Workers : stage[v] = "serving" => rows = Copies(1))'
  BY <1>1, <1>2 DEF StartupInv, Copies
<1> QED BY <1>3, <1>4, <1>5, <1>6 DEF StartupInv

\* A move outside the seed, for which the lock has no say.
LEMMA PreparationIsSafe ==
    ASSUME StartupInv, NEW w \in Workers, stage[w] # "seed",
           NEW to \in Stages \ {"seed"}, NEW position \in Nat \ {0}, Go(w, to, position),
           schema \subseteq schema', schema' \subseteq Objects,
           missing' \in [Workers -> SUBSET Positions],
           \A v \in Workers \ {w} : missing'[v] = missing[v],
           UNCHANGED <<rows, writer>>,
           Knows(w)', to = "serving" => rows = Copies(1)
    PROVE  StartupInv'
<1>1. stage'[w] = to
  BY DEF Go, StartupInv, StartupTypes
<1>2. Locked(w)'
  BY <1>1 DEF Locked, StartupInv
<1> QED BY <1>2, MoveIsSafe

\* One that only looks at the file.
LEMMA LookingIsSafe ==
    ASSUME StartupInv, NEW w \in Workers, stage[w] # "seed",
           NEW to \in Stages \ {"seed"}, NEW position \in Nat \ {0}, Go(w, to, position),
           UNCHANGED <<schema, rows, writer, missing>>,
           Knows(w)', to = "serving" => rows = Copies(1)
    PROVE  StartupInv'
<1>1. /\ schema \subseteq schema' /\ schema' \subseteq Objects
      /\ missing' \in [Workers -> SUBSET Positions]
      /\ \A v \in Workers \ {w} : missing'[v] = missing[v]
  BY DEF StartupInv, StartupTypes
<1> QED BY <1>1, PreparationIsSafe

LEMMA LaunchIsSafe ==
    ASSUME StartupInv, NEW w \in Workers, Launch(w) PROVE StartupInv'
<1>1. /\ Go(w, "check", 1) /\ UNCHANGED <<schema, rows, writer, missing>> /\ stage[w] = "down"
  BY DEF Launch, file
<1>2. stage'[w] = "check" /\ at'[w] = 1
  BY <1>1 DEF Go, StartupInv, StartupTypes
<1>3. \A i \in Positions : ~(i < 1)
  BY TablesHavePositions
<1>4. Knows(w)'
  BY <1>2, <1>3 DEF Knows
<1> QED BY <1>1, <1>4, FirstPosition, LookingIsSafe DEF Stages

LEMMA CheckTableIsSafe ==
    ASSUME StartupInv, NEW w \in Workers, CheckTable(w) PROVE StartupInv'
<1>1. stage[w] = "check" /\ UNCHANGED <<schema, rows, writer>> /\ at[w] \in Nat \ {0}
  BY DEF CheckTable, file, StartupInv, StartupTypes
<1>2. schema \subseteq schema' /\ schema' \subseteq Objects
  BY <1>1 DEF StartupInv, StartupTypes
<1>3. Knows(w)
  BY DEF StartupInv
<1>4. CASE at[w] \in Positions
  <2>1. /\ Go(w, "check", at[w] + 1)
        /\ missing' = IF HasTable(at[w]) THEN missing ELSE [missing EXCEPT ![w] = @ \cup {at[w]}]
    BY <1>4 DEF CheckTable, Positions, HasTable
  <2>2. /\ missing' \in [Workers -> SUBSET Positions]
        /\ \A v \in Workers \ {w} : missing'[v] = missing[v]
        /\ missing[w] \subseteq missing'[w] /\ (HasTable(at[w]) \/ at[w] \in missing'[w])
    BY <1>4, <2>1 DEF StartupInv, StartupTypes
  <2>3. stage'[w] = "check" /\ at'[w] = at[w] + 1
    BY <2>1 DEF Go, StartupInv, StartupTypes
  <2>4. \A i \in Positions : i < at[w] + 1 => i < at[w] \/ i = at[w]
    BY <1>1, TablesHavePositions
  <2>5. \A i \in Positions : i < at'[w] /\ i \notin missing'[w] => HasTable(i)
    BY <1>1, <1>3, <2>2, <2>3, <2>4 DEF Knows
  <2>6. Knows(w)'
    BY <1>1, <2>3, <2>5 DEF Knows, HasTable, HasIndex
  <2>7. at[w] + 1 \in Nat \ {0}
    BY <1>1
  <2> QED BY <1>1, <1>2, <2>1, <2>2, <2>6, <2>7, PreparationIsSafe DEF Stages
<1>5. CASE at[w] \notin Positions
  <2>1. Go(w, "tables", 1) /\ UNCHANGED missing
    BY <1>5 DEF CheckTable, Positions
  <2>2. stage'[w] = "tables"
    BY <2>1 DEF Go, StartupInv, StartupTypes
  <2>3. \A i \in Positions : i < at[w]
    BY <1>1, <1>5, TablesHavePositions
  <2>4. Knows(w)'
    BY <1>1, <1>3, <2>1, <2>2, <2>3 DEF Knows, HasTable, HasIndex
  <2> QED BY <1>1, <2>1, <2>4, FirstPosition, LookingIsSafe DEF Stages
<1> QED BY <1>4, <1>5

LEMMA CreatedIsAnObject ==
    ASSUME StartupInv, NEW i \in Positions, NEW kind \in {"table", "index"},
           schema' = schema \cup {<<Tables[i], kind>>}
    PROVE  schema \subseteq schema' /\ schema' \subseteq Objects
<1>1. <<Tables[i], kind>> \in Objects
  BY DEF Objects, Positions
<1> QED BY <1>1 DEF StartupInv, StartupTypes

LEMMA MissingKept ==
    ASSUME StartupInv, NEW w \in Workers, UNCHANGED missing
    PROVE  /\ missing' \in [Workers -> SUBSET Positions]
           /\ \A v \in Workers \ {w} : missing'[v] = missing[v]
BY DEF StartupInv, StartupTypes

LEMMA CreateTableIsSafe ==
    ASSUME StartupInv, NEW w \in Workers, CreateTable(w) PROVE StartupInv'
<1>1. stage[w] = "tables" /\ Knows(w)
  BY DEF CreateTable, StartupInv
<1>2. CASE missing[w] = {} /\ Go(w, "indexes", 1) /\ UNCHANGED <<schema, rows, writer, missing>>
  <2>1. stage'[w] = "indexes" /\ at'[w] = 1
    BY <1>2 DEF Go, StartupInv, StartupTypes
  <2>2. \A i \in Positions : ~(i < 1)
    BY TablesHavePositions
  <2>3. Knows(w)'
    BY <1>1, <1>2, <2>1, <2>2 DEF Knows, HasTable, HasIndex
  <2> QED BY <1>1, <1>2, <2>3, FirstPosition, LookingIsSafe DEF Stages
<1>3. ASSUME NEW i \in missing[w], Go(w, "its index", i),
             schema' = schema \cup {<<Tables[i], "table">>}, UNCHANGED <<rows, writer, missing>>
      PROVE  StartupInv'
  <2>1. i \in Positions /\ i \in Nat \ {0}
    BY TablesHavePositions DEF StartupInv, StartupTypes
  <2>2. schema \subseteq schema' /\ schema' \subseteq Objects
    BY <1>3, <2>1, CreatedIsAnObject
  <2>3. stage'[w] = "its index" /\ at'[w] = i
    BY <1>3 DEF Go, StartupInv, StartupTypes
  <2>4. Knows(w)'
    BY <1>1, <1>3, <2>1, <2>3 DEF Knows, HasTable, HasIndex
  <2> QED BY <1>1, <1>3, <2>1, <2>2, <2>4, MissingKept, PreparationIsSafe DEF Stages
<1> QED BY <1>2, <1>3, EndIsSafe DEF CreateTable, Create, file

LEMMA CreateItsIndexIsSafe ==
    ASSUME StartupInv, NEW w \in Workers, CreateItsIndex(w) PROVE StartupInv'
<1>1. stage[w] = "its index" /\ Knows(w)
  BY DEF CreateItsIndex, StartupInv
<1>2. ASSUME Go(w, "tables", 1), missing' = [missing EXCEPT ![w] = @ \ {at[w]}],
             schema' = schema \cup {<<Tables[at[w]], "index">>}, UNCHANGED <<rows, writer>>
      PROVE  StartupInv'
  <2>1. at[w] \in Positions /\ HasTable(at[w])
    BY <1>1 DEF Knows
  <2>2. schema \subseteq schema' /\ schema' \subseteq Objects
    BY <1>2, <2>1, CreatedIsAnObject
  <2>3. /\ missing' \in [Workers -> SUBSET Positions] /\ missing'[w] = missing[w] \ {at[w]}
        /\ \A v \in Workers \ {w} : missing'[v] = missing[v]
    BY <1>2 DEF StartupInv, StartupTypes
  <2>4. stage'[w] = "tables"
    BY <1>2 DEF Go, StartupInv, StartupTypes
  <2>5. \A i \in Positions \ missing'[w] : HasTable(i)
    BY <1>1, <2>1, <2>3 DEF Knows
  <2>6. Knows(w)'
    BY <2>2, <2>4, <2>5 DEF Knows, HasTable, HasIndex
  <2> QED BY <1>1, <1>2, <2>2, <2>3, <2>6, FirstPosition, PreparationIsSafe DEF Stages
<1> QED BY <1>2, EndIsSafe DEF CreateItsIndex, Create

LEMMA CheckIndexIsSafe ==
    ASSUME StartupInv, NEW w \in Workers, CheckIndex(w) PROVE StartupInv'
<1>1. /\ stage[w] = "indexes" /\ UNCHANGED <<schema, rows, writer, missing>>
      /\ at[w] \in Nat \ {0} /\ Knows(w)
  BY DEF CheckIndex, file, StartupInv, StartupTypes
<1>2. \A i \in Positions : i < at[w] + 1 => i < at[w] \/ i = at[w]
  BY <1>1, TablesHavePositions
<1>3. CASE at[w] \notin Positions /\ Go(w, "probe", 1)
  <2>1. \A i \in Positions : i < at[w]
    BY <1>1, <1>3, TablesHavePositions
  <2>2. schema = Objects
    BY <1>1, <2>1, AllObjects DEF Knows, StartupInv, StartupTypes
  <2>3. stage'[w] = "probe"
    BY <1>3 DEF Go, StartupInv, StartupTypes
  <2>4. Knows(w)'
    BY <1>1, <2>2, <2>3 DEF Knows, Objects
  <2> QED BY <1>1, <1>3, <2>4, FirstPosition, LookingIsSafe DEF Stages
<1>4. CASE at[w] \in Positions /\ HasIndex(at[w]) /\ Go(w, "indexes", at[w] + 1)
  <2>1. stage'[w] = "indexes" /\ at'[w] = at[w] + 1
    BY <1>4 DEF Go, StartupInv, StartupTypes
  <2>2. Knows(w)'
    BY <1>1, <1>2, <1>4, <2>1 DEF Knows, HasTable, HasIndex
  <2>3. at[w] + 1 \in Nat \ {0}
    BY <1>1
  <2> QED BY <1>1, <1>4, <2>2, <2>3, LookingIsSafe DEF Stages
<1>5. CASE at[w] \in Positions /\ Go(w, "index", at[w])
  <2>1. stage'[w] = "index" /\ at'[w] = at[w]
    BY <1>5 DEF Go, StartupInv, StartupTypes
  <2>2. Knows(w)'
    BY <1>1, <1>5, <2>1 DEF Knows, HasTable, HasIndex
  <2> QED BY <1>1, <1>5, <2>2, LookingIsSafe DEF Stages
<1> QED BY <1>3, <1>4, <1>5 DEF CheckIndex, Positions, HasIndex

LEMMA CreateIndexIsSafe ==
    ASSUME StartupInv, NEW w \in Workers, CreateIndex(w) PROVE StartupInv'
<1>1. stage[w] = "index" /\ Knows(w) /\ at[w] \in Nat \ {0} /\ at[w] \in Positions
  BY DEF CreateIndex, StartupInv, StartupTypes, Knows
<1>2. \A i \in Positions : i < at[w] + 1 => i < at[w] \/ i = at[w]
  BY <1>1, TablesHavePositions
<1>3. ASSUME Go(w, "indexes", at[w] + 1), schema' = schema \cup {<<Tables[at[w]], "index">>},
             UNCHANGED <<rows, writer, missing>>
      PROVE  StartupInv'
  <2>1. schema \subseteq schema' /\ schema' \subseteq Objects
    BY <1>1, <1>3, CreatedIsAnObject
  <2>2. stage'[w] = "indexes" /\ at'[w] = at[w] + 1
    BY <1>3 DEF Go, StartupInv, StartupTypes
  <2>3. Knows(w)'
    BY <1>1, <1>2, <1>3, <2>2 DEF Knows, HasTable, HasIndex
  <2>4. at[w] + 1 \in Nat \ {0}
    BY <1>1
  <2> QED BY <1>1, <1>3, <2>1, <2>3, <2>4, MissingKept, PreparationIsSafe DEF Stages
<1> QED BY <1>3, EndIsSafe DEF CreateIndex, Create

LEMMA ProbeIsSafe ==
    ASSUME StartupInv, NEW w \in Workers, Probe(w) PROVE StartupInv'
<1>1. /\ stage[w] = "probe" /\ schema = Objects /\ rows \in {Copies(0), Copies(1)}
      /\ UNCHANGED <<schema, rows, writer, missing>>
  BY DEF Probe, file, StartupInv, Knows
<1>2. CASE rows = Copies(1) /\ Go(w, "serving", 1)
  <2>1. stage'[w] = "serving"
    BY <1>2 DEF Go, StartupInv, StartupTypes
  <2>2. Knows(w)'
    BY <1>1, <2>1 DEF Knows, Objects
  <2> QED BY <1>1, <1>2, <2>2, FirstPosition, LookingIsSafe DEF Stages
<1>3. CASE Go(w, "seed", 1)
  <2>1. stage'[w] = "seed" /\ at'[w] = 1
    BY <1>3 DEF Go, StartupInv, StartupTypes
  <2>2. Knows(w)'
    BY <1>1, <2>1 DEF Knows, Objects
  <2>3. Locked(w)'
    BY <1>1, <2>1 DEF Locked, StartupInv
  <2>4. schema \subseteq schema' /\ schema' \subseteq Objects
    BY <1>1 DEF StartupInv, StartupTypes
  <2> QED BY <1>1, <1>3, <2>2, <2>3, <2>4, FirstPosition, MissingKept, MoveIsSafe DEF Stages
<1>4. rows = Copies(0) => ~(rows[1] > 0)
  BY RowsOfCopies
<1> QED BY <1>1, <1>2, <1>3, <1>4 DEF Probe

\* The first flush: with all indexes there, the unique one of the email among them, the lock
\* is only ever taken for a file without demo rows.
LEMMA TakeLockIsSafe ==
    ASSUME StartupInv, NEW w \in Workers, stage[w] = "seed", TakeLock(w) PROVE StartupInv'
<1>1. schema = Objects /\ EmailIndex \in schema
  BY TablesHavePositions, StartupAssumption DEF StartupInv, Knows, EmailIndex, Objects, Positions
<1>2. CASE End(w)
  BY <1>2, EndIsSafe
<1>3. CASE /\ ~(rows[1] > 0) /\ writer = None /\ writer' = w /\ Go(w, "seed", 2)
           /\ UNCHANGED <<schema, rows, missing>>
  <2>1. rows = Copies(0)
    BY <1>3, RowsOfCopies DEF StartupInv
  <2>2. /\ stage' \in [Workers -> Stages] /\ at' \in [Workers -> Nat \ {0}]
        /\ stage'[w] = "seed" /\ at'[w] = 2
        /\ \A v \in Workers \ {w} : stage'[v] = stage[v] /\ at'[v] = at[v]
    <3>1. "seed" \in Stages /\ 2 \in Nat \ {0}
      BY DEF Stages
    <3> QED BY <1>3, <3>1 DEF Go, StartupInv, StartupTypes
  <2>3. StartupTypes'
    BY <1>3, <2>2 DEF StartupInv, StartupTypes
  <2>4. (rows \in {Copies(0), Copies(1)})'
    BY <1>3, <2>1 DEF Copies
  <2>5. ASSUME NEW v \in Workers PROVE Knows(v)'
    BY <1>1, <1>3, <2>2, KnowledgeKept DEF StartupInv, StartupTypes, Knows, Objects
  <2>6. ASSUME NEW v \in Workers PROVE Locked(v)'
    <3>1. CASE v = w
      BY <1>3, <2>1, <2>2, <3>1 DEF Locked, Copies
    <3>2. CASE v # w
      BY <1>3, <2>2, <3>2, StartupAssumption DEF StartupInv, Locked
    <3> QED BY <3>1, <3>2
  <2>7. (\A v \in Workers : stage[v] = "serving" => rows = Copies(1))'
    BY <1>3, <2>2 DEF StartupInv, Copies
  <2> QED BY <2>3, <2>4, <2>5, <2>6, <2>7 DEF StartupInv
<1> QED BY <1>1, <1>2, <1>3 DEF TakeLock

LEMMA FlushIsSafe ==
    ASSUME StartupInv, NEW w \in Workers, Flush(w) PROVE StartupInv'
<1>1. stage[w] = "seed" /\ Knows(w) /\ Locked(w) /\ at[w] \in Nat \ {0}
  BY DEF Flush, StartupInv, StartupTypes
<1>2. CASE TakeLock(w)
  BY <1>1, <1>2, TakeLockIsSafe
<1>3. CASE at[w] > 1 /\ Go(w, "seed", at[w] + 1) /\ UNCHANGED <<schema, rows, writer, missing>>
  <2>1. stage'[w] = "seed" /\ at'[w] = at[w] + 1 /\ at[w] + 1 \in Nat \ {0}
    BY <1>1, <1>3 DEF Go, StartupInv, StartupTypes
  <2>2. Knows(w)'
    BY <1>1, <1>3, <2>1 DEF Knows, Objects
  <2>3. Locked(w)'
    BY <1>1, <1>3, <2>1 DEF Locked, Copies
  <2>4. schema \subseteq schema' /\ schema' \subseteq Objects
    BY <1>3 DEF StartupInv, StartupTypes
  <2> QED BY <1>3, <2>1, <2>2, <2>3, <2>4, MissingKept, MoveIsSafe DEF Stages
<1> QED BY <1>2, <1>3 DEF Flush, file

LEMMA CommitSeedIsSafe ==
    ASSUME StartupInv, NEW w \in Workers, CommitSeed(w) PROVE StartupInv'
<1>1. /\ stage[w] = "seed" /\ at[w] = 5 /\ Go(w, "serving", 1) /\ writer' = None
      /\ UNCHANGED <<schema, missing>>
  BY DEF CommitSeed, Batches
<1>2. writer = w /\ rows = Copies(0) /\ schema = Objects
  <2>1. Knows(w) /\ Locked(w)
    BY DEF StartupInv
  <2>2. at[w] # 1
    BY <1>1
  <2>3. writer = w
    BY <1>1, <2>1, <2>2 DEF Locked
  <2> QED BY <1>1, <2>1, <2>3 DEF Locked, Knows
<1>3. rows' = Copies(1)
  BY <1>2, OneMoreCopy DEF CommitSeed
<1>4. /\ stage' \in [Workers -> Stages] /\ at' \in [Workers -> Nat \ {0}]
      /\ stage'[w] = "serving"
      /\ \A v \in Workers \ {w} : stage'[v] = stage[v] /\ at'[v] = at[v]
  <2>1. "serving" \in Stages
    BY DEF Stages
  <2> QED BY <1>1, <2>1, FirstPosition DEF Go, StartupInv, StartupTypes
<1>5. StartupTypes'
  BY <1>1, <1>4 DEF StartupInv, StartupTypes
<1>6. (rows \in {Copies(0), Copies(1)})'
  BY <1>3 DEF Copies
<1>7. ASSUME NEW v \in Workers PROVE Knows(v)'
  <2>1. CASE v = w
    BY <1>1, <1>2, <1>4, <2>1 DEF Knows, Objects
  <2>2. CASE v # w
    BY <1>1, <1>4, <2>2, KnowledgeKept DEF StartupInv, StartupTypes
  <2> QED BY <2>1, <2>2
<1>8. ASSUME NEW v \in Workers PROVE Locked(v)'
  <2>1. None \notin Workers
    BY StartupAssumption
  <2>2. CASE v = w
    BY <1>1, <1>4, <2>1, <2>2 DEF Locked
  <2>3. CASE v # w
    BY <1>1, <1>2, <1>4, <2>1, <2>3 DEF StartupInv, Locked
  <2> QED BY <2>2, <2>3
<1>9. (\A v \in Workers : stage[v] = "serving" => rows = Copies(1))'
  BY <1>3 DEF Copies
<1> QED BY <1>5, <1>6, <1>7, <1>8, <1>9 DEF StartupInv

LEMMA InitStartupInv == SvInit => StartupInv
<1> SUFFICES ASSUME StInit PROVE StartupInv
  BY DEF SvInit
<1>1. "down" \in Stages
  BY DEF Stages
<1>2. StartupTypes
  BY <1>1, FirstPosition DEF StInit, StartupTypes
<1>3. \A w \in Workers : Knows(w) /\ Locked(w)
  BY StartupAssumption DEF StInit, Knows, Locked
<1> QED BY <1>2, <1>3 DEF StInit, StartupInv

LEMMA NextStartupInv == StartupInv /\ [SvNext]_wvars => StartupInv'
<1> SUFFICES ASSUME StartupInv, [SvNext]_wvars PROVE StartupInv'
  OBVIOUS
<1>1. ASSUME UNCHANGED svars PROVE StartupInv'
  BY <1>1 DEF svars, StartupInv, StartupTypes, Knows, Locked, HasTable, HasIndex, Copies
<1>2. ASSUME NEW w \in Workers, Prepare(w) PROVE StartupInv'
  BY <1>2, LaunchIsSafe, CheckTableIsSafe, CreateTableIsSafe, CreateItsIndexIsSafe,
     CheckIndexIsSafe, CreateIndexIsSafe, ProbeIsSafe, FlushIsSafe, CommitSeedIsSafe
     DEF Prepare, Statement
<1>3. ASSUME NEW w \in Workers, GiveUp(w) \/ Crash(w) PROVE StartupInv'
  BY <1>3, EndIsSafe DEF GiveUp, LockTimeout, Crash
<1>4. ASSUME NEW r \in Requests, Request(r) PROVE StartupInv'
  BY <1>1, <1>4 DEF Request
<1> QED BY <1>1, <1>2, <1>3, <1>4 DEF SvNext, StartingUp, Killed, wvars

\* The demo rows are committed whole and at most once, and whoever serves finds the whole
\* schema and all of them: for every number of workers, tables and crashes.
THEOREM SeededOnceHolds == SvSpec => []SeededOnce
<1>1. StartupInv => SeededOnce
  BY DEF StartupInv, SeededOnce, Knows
<1> QED BY <1>1, InitStartupInv, NextStartupInv, PTL DEF SvSpec, wvars
-------------------------------------------------------------------------------
RequestStages == {"arrived", "get_member", "loaded", "between", "queued", "connect",
                  "endpoint", "provider", "returned", "done", "failed"}

Using == {"loaded", "between", "endpoint", "returned"}

\* Who holds a connection is between its first statement and the close of its session.
HoldersUse == \A r \in holders : r \in Requests /\ pc[r] \in Using

PoolInv == pc \in [Requests -> RequestStages] /\ HoldersUse

\* A request that is to hold a connection after its move must be using it.
LEMMA MovingKeepsPoolInv ==
    ASSUME PoolInv, NEW r \in Requests, NEW from \in RequestStages, NEW to \in RequestStages,
           Move(r, from, to), holders' \subseteq holders \cup {r}, r \in holders' => to \in Using
    PROVE  PoolInv'
<1>1. pc' \in [Requests -> RequestStages] /\ pc'[r] = to /\ \A q \in Requests \ {r} : pc'[q] = pc[q]
  BY DEF Move, PoolInv
<1>2. ASSUME NEW q \in holders' PROVE q \in Requests /\ pc'[q] \in Using
  BY <1>1, <1>2 DEF PoolInv, HoldersUse
<1>3. HoldersUse'
  BY <1>2 DEF HoldersUse, Using
<1> QED BY <1>1, <1>3 DEF PoolInv, RequestStages

\* One that has not been using a connection has none to keep.
LEMMA HolderStages ==
    ASSUME PoolInv, NEW r \in Requests, r \in holders PROVE pc[r] \in Using
BY DEF PoolInv, HoldersUse

LEMMA ServingKeepsPoolInv ==
    ASSUME PoolInv, NEW r \in Requests, Serve(r) PROVE PoolInv'
<1>1. ASSUME NEW from \in RequestStages, NEW to \in RequestStages, Move(r, from, to),
             holders' \subseteq holders, from \in Using => to \in Using \/ r \notin holders'
      PROVE  PoolInv'
  <2>1. r \in holders' => from \in Using
    BY <1>1, HolderStages DEF Move
  <2> QED BY <1>1, <2>1, MovingKeepsPoolInv
<1>2. ASSUME NEW from \in RequestStages, NEW to \in Using, Connect(r, from, to) PROVE PoolInv'
  <2>1. to \in RequestStages
    BY DEF Using, RequestStages
  <2> QED BY <1>2, <2>1, MovingKeepsPoolInv DEF Connect
<1>3. CASE GetMember(r)
  BY <1>1, <1>2, <1>3 DEF GetMember, Start, Using, RequestStages
<1>4. CASE Endpoint(r)
  BY <1>1, <1>2, <1>4 DEF Endpoint, Start, Using, RequestStages
<1>5. CASE AskProvider(r)
  BY <1>1, <1>5 DEF AskProvider, Using, RequestStages
<1>6. CASE Close(r)
  BY <1>1, <1>6 DEF Close, Using, RequestStages
<1>7. CASE PoolTimeout(r)
  BY <1>1, <1>7 DEF PoolTimeout, Using, RequestStages
<1> QED BY <1>3, <1>4, <1>5, <1>6, <1>7 DEF Serve

LEMMA NextPoolInv == PoolInv /\ [SvNext]_wvars => PoolInv'
<1> SUFFICES ASSUME PoolInv, [SvNext]_wvars PROVE PoolInv'
  OBVIOUS
<1>1. ASSUME UNCHANGED pvars PROVE PoolInv'
  BY <1>1 DEF pvars, PoolInv, HoldersUse, Using, RequestStages
<1>2. ASSUME Lost PROVE PoolInv'
  <2>1. pc' \in [Requests -> RequestStages]
    BY <1>2 DEF Lost, PoolInv, RequestStages
  <2> QED BY <1>2, <2>1 DEF Lost, PoolInv, HoldersUse, RequestStages
<1>3. ASSUME NEW r \in Requests, Request(r) PROVE PoolInv'
  BY <1>3, ServingKeepsPoolInv DEF Request
<1> QED BY <1>1, <1>2, <1>3 DEF SvNext, StartingUp, Killed, Survive, wvars

\* No request that asks the provider, is answered or has failed keeps a connection: for
\* every number of requests, threads and connections, and whatever ends the process.
THEOREM NoIdleHoldersHolds == SvSpec => []NoIdleHolders
<1>1. SvInit => PoolInv
  BY DEF SvInit, PInit, PoolInv, HoldersUse, RequestStages
<1>2. PoolInv => NoIdleHolders
  BY DEF PoolInv, HoldersUse, NoIdleHolders, Using
<1> QED BY <1>1, <1>2, NextPoolInv, PTL DEF SvSpec, wvars
-------------------------------------------------------------------------------
(***************************************************************************)
(* The limits of the pools.  Nothing is assumed of how many requests there *)
(* are: only those on a thread, and those with a connection, are counted.  *)
(***************************************************************************)

RunningStages == {"get_member", "loaded", "connect", "endpoint", "provider"}

LimitInv ==
    /\ IsFiniteSet(Running) /\ Cardinality(Running) <= Threads
    /\ IsFiniteSet(holders) /\ Cardinality(holders) <= Connections

LEMMA PoolSizes == Threads \in Nat \ {0} /\ Connections \in Nat \ {0}
BY PoolAssumption

LEMMA SmallerIsWithin ==
    ASSUME NEW S, IsFiniteSet(S), NEW n \in Nat, Cardinality(S) <= n, NEW T \in SUBSET S
    PROVE  IsFiniteSet(T) /\ Cardinality(T) <= n
<1>1. IsFiniteSet(T) /\ Cardinality(T) <= Cardinality(S)
  BY FS_Subset
<1> QED BY <1>1, FS_CardinalityType

LEMMA OneMoreIsWithin ==
    ASSUME NEW S, IsFiniteSet(S), NEW n \in Nat, Cardinality(S) < n, NEW x, NEW T \in SUBSET (S \cup {x})
    PROVE  IsFiniteSet(T) /\ Cardinality(T) <= n
<1>0. Cardinality(S) \in Nat
  BY FS_CardinalityType
<1>1. /\ IsFiniteSet(S \cup {x})
      /\ Cardinality(S \cup {x}) = IF x \in S THEN Cardinality(S) ELSE Cardinality(S) + 1
  BY FS_AddElement
<1>2. Cardinality(S \cup {x}) <= n /\ Cardinality(S \cup {x}) \in Nat
  BY <1>0, <1>1
<1> QED BY <1>1, <1>2, SmallerIsWithin

\* Who is on a thread after r has moved.
LEMMA RunningAfter ==
    ASSUME PoolInv, NEW r \in Requests, NEW from \in RequestStages, NEW to \in RequestStages, Move(r, from, to)
    PROVE  /\ Running' \subseteq Running \cup {r}
           /\ from \in RunningStages \/ to \notin RunningStages => Running' \subseteq Running
<1>1. pc[r] = from /\ pc' = [pc EXCEPT ![r] = to] /\ DOMAIN pc = Requests
  BY DEF Move, PoolInv
<1>2. pc'[r] = to /\ \A q \in Requests \ {r} : pc'[q] = pc[q]
  BY <1>1
<1> QED BY <1>1, <1>2 DEF Running, RunningStages

LEMMA ServingKeepsLimits ==
    ASSUME PoolInv, LimitInv, NEW r \in Requests, Serve(r) PROVE LimitInv'
<1>1. ASSUME NEW from \in RequestStages, NEW to \in RequestStages, Start(r, from, to) PROVE LimitInv'
  <2>1. Running' \subseteq Running \cup {r} /\ Cardinality(Running) < Threads /\ holders' = holders
    BY <1>1, RunningAfter DEF Start
  <2> QED BY <2>1, OneMoreIsWithin, PoolSizes DEF LimitInv
<1>2. ASSUME NEW from \in RequestStages, NEW to \in RequestStages, Connect(r, from, to), from \in RunningStages
      PROVE  LimitInv'
  <2>1. Running' \subseteq Running /\ Cardinality(holders) < Connections /\ holders' = holders \cup {r}
    BY <1>2, RunningAfter DEF Connect, ConnectionFree
  <2> QED BY <2>1, OneMoreIsWithin, SmallerIsWithin, PoolSizes DEF LimitInv
<1>3. ASSUME NEW from \in RequestStages, NEW to \in RequestStages, Move(r, from, to), holders' \subseteq holders,
             from \in RunningStages \/ to \notin RunningStages
      PROVE  LimitInv'
  <2>1. Running' \subseteq Running
    BY <1>3, RunningAfter
  <2> QED BY <1>3, <2>1, SmallerIsWithin, PoolSizes DEF LimitInv
<1>4. CASE GetMember(r)
  BY <1>1, <1>2, <1>3, <1>4 DEF GetMember, RequestStages, RunningStages
<1>5. CASE Endpoint(r)
  BY <1>1, <1>2, <1>3, <1>5 DEF Endpoint, RequestStages, RunningStages
<1>6. CASE AskProvider(r)
  BY <1>3, <1>6 DEF AskProvider, RequestStages, RunningStages
<1>7. CASE Close(r)
  BY <1>3, <1>7 DEF Close, RequestStages, RunningStages
<1>8. CASE PoolTimeout(r)
  BY <1>3, <1>8 DEF PoolTimeout, RequestStages, RunningStages
<1> QED BY <1>4, <1>5, <1>6, <1>7, <1>8 DEF Serve

LEMMA NextLimitInv == PoolInv /\ LimitInv /\ [SvNext]_wvars => LimitInv'
<1> SUFFICES ASSUME PoolInv, LimitInv, [SvNext]_wvars PROVE LimitInv'
  OBVIOUS
<1>1. ASSUME UNCHANGED pvars PROVE LimitInv'
  BY <1>1 DEF pvars, LimitInv, Running
<1>2. ASSUME Lost PROVE LimitInv'
  <2>1. Running' = {} /\ holders' = {}
    BY <1>2 DEF Lost, Running
  <2> QED BY <2>1, FS_EmptySet, PoolSizes DEF LimitInv
<1>3. ASSUME NEW r \in Requests, Request(r) PROVE LimitInv'
  BY <1>3, ServingKeepsLimits DEF Request
<1> QED BY <1>1, <1>2, <1>3 DEF SvNext, StartingUp, Killed, Survive, wvars

LEMMA InitPool == SvInit => PoolInv /\ LimitInv
<1> SUFFICES ASSUME PInit PROVE PoolInv /\ LimitInv
  BY DEF SvInit
<1>1. PoolInv
  BY DEF PInit, PoolInv, HoldersUse, RequestStages
<1>2. Running = {} /\ holders = {}
  BY DEF PInit, Running
<1> QED BY <1>1, <1>2, FS_EmptySet, PoolSizes DEF LimitInv

\* With a connection for every thread, a request that waits for one in vain waits for a
\* request that keeps one without a thread: for every number of requests, threads and
\* connections ("sized to serve 40 handlers at once", database.py).
THEOREM ThreadsNeverEmptyThePoolHolds == SvSpec => []ThreadsNeverEmptyThePool
<1>1. PoolInv /\ LimitInv => ThreadsNeverEmptyThePool
  <2> SUFFICES ASSUME PoolInv, LimitInv, Connections >= Threads, NEW r \in Requests,
                      pc[r] \in {"get_member", "connect"}, ~ConnectionFree,
                      \A q \in holders : q \in Running
               PROVE  FALSE
    BY DEF ThreadsNeverEmptyThePool
  <2>1. r \in Running /\ r \notin holders
    BY DEF Running, PoolInv, HoldersUse, Using
  <2>2. holders \in SUBSET (Running \ {r})
    BY <2>1
  <2>3. /\ IsFiniteSet(Running \ {r}) /\ Cardinality(Running \ {r}) = Cardinality(Running) - 1
        /\ Cardinality(Running) \in Nat
    BY <2>1, FS_RemoveElement, FS_CardinalityType DEF LimitInv
  <2>4. Cardinality(holders) <= Cardinality(Running \ {r}) /\ Cardinality(holders) \in Nat
    BY <2>2, <2>3, FS_Subset, FS_CardinalityType
  <2> QED BY <2>3, <2>4, PoolSizes DEF ConnectionFree, LimitInv
<1> QED BY <1>1, InitPool, NextPoolInv, NextLimitInv, PTL DEF SvSpec, wvars
-------------------------------------------------------------------------------
\* A worker is nowhere past the end of its stage.
PlaceInv == \A w \in Workers : at[w] \in 1 .. LastPosition(stage[w])

\* Where the statements of the startup go next.
LEMMA GoingIsPlaced ==
    ASSUME PlaceInv, StartupTypes, NEW w \in Workers, NEW to, NEW position,
           Go(w, to, position), position \in 1 .. LastPosition(to)
    PROVE  PlaceInv'
BY DEF Go, PlaceInv, StartupTypes, LastPosition

LEMMA Lengths ==
    /\ Len(Batches) = 4 /\ DOMAIN Batches = 1 .. 4
    /\ \A to : 1 \in 1 .. LastPosition(to)
    /\ \A to, i : to # "seed" /\ i \in Positions => i \in 1 .. LastPosition(to) /\ i + 1 \in 1 .. LastPosition(to)
BY TablesHavePositions DEF Batches, LastPosition

LEMMA EndIsPlaced == ASSUME PlaceInv, StartupTypes, NEW w \in Workers, End(w) PROVE PlaceInv'
BY Lengths, GoingIsPlaced DEF End

LEMMA PreparingIsPlaced ==
    ASSUME PlaceInv, StartupInv, NEW w \in Workers, Launch(w) \/ Statement(w) PROVE PlaceInv'
<1>1. StartupTypes /\ Knows(w)
  BY DEF StartupInv
<1>2. ASSUME NEW to, Go(w, to, 1) PROVE PlaceInv'
  BY <1>1, <1>2, Lengths, GoingIsPlaced
<1>3. ASSUME NEW to, NEW i \in Positions, to # "seed", Go(w, to, i) \/ Go(w, to, i + 1) PROVE PlaceInv'
  BY <1>1, <1>3, Lengths, GoingIsPlaced
<1>4. CASE Launch(w)
  BY <1>2, <1>4 DEF Launch
<1>5. CASE CheckTable(w)
  BY <1>2, <1>3, <1>5 DEF CheckTable, Positions
<1>6. CASE CreateTable(w)
  <2>1. missing[w] \subseteq Positions
    BY <1>1 DEF StartupTypes
  <2> QED BY <1>1, <1>2, <1>3, <1>6, <2>1, EndIsPlaced DEF CreateTable, Create
<1>7. CASE CreateItsIndex(w)
  BY <1>1, <1>2, <1>7, EndIsPlaced DEF CreateItsIndex, Create
<1>8. CASE CheckIndex(w)
  BY <1>2, <1>3, <1>8 DEF CheckIndex, Positions
<1>9. CASE CreateIndex(w)
  BY <1>1, <1>3, <1>9, EndIsPlaced DEF CreateIndex, Create, Knows
<1>10. CASE Probe(w)
  BY <1>2, <1>10 DEF Probe
<1>11. CASE Flush(w)
  <2>1. at[w] \in 1 .. 4
    BY <1>11, Lengths DEF Flush
  <2>2. 2 \in 1 .. LastPosition("seed") /\ at[w] + 1 \in 1 .. LastPosition("seed")
    BY <2>1, Lengths DEF LastPosition
  <2> QED BY <1>1, <1>11, <2>2, GoingIsPlaced, EndIsPlaced DEF Flush, TakeLock
<1>12. CASE CommitSeed(w)
  BY <1>2, <1>12 DEF CommitSeed
<1> QED BY <1>4, <1>5, <1>6, <1>7, <1>8, <1>9, <1>10, <1>11, <1>12 DEF Statement

LEMMA NextPlaceInv == StartupInv /\ PlaceInv /\ [SvNext]_wvars => PlaceInv'
<1> SUFFICES ASSUME StartupInv, PlaceInv, [SvNext]_wvars PROVE PlaceInv'
  OBVIOUS
<1>1. StartupTypes
  BY DEF StartupInv
<1>2. ASSUME UNCHANGED svars PROVE PlaceInv'
  BY <1>2 DEF svars, PlaceInv, LastPosition
<1>3. ASSUME NEW w \in Workers, Prepare(w) PROVE PlaceInv'
  BY <1>3, PreparingIsPlaced DEF Prepare
<1>4. ASSUME NEW w \in Workers, GiveUp(w) \/ Crash(w) PROVE PlaceInv'
  BY <1>1, <1>4, EndIsPlaced DEF GiveUp, LockTimeout, Crash
<1>5. ASSUME NEW r \in Requests, Request(r) PROVE PlaceInv'
  BY <1>2, <1>5 DEF Request
<1> QED BY <1>2, <1>3, <1>4, <1>5 DEF SvNext, StartingUp, Killed, wvars

LEMMA InitPlaceInv == SvInit => PlaceInv
BY Lengths DEF SvInit, StInit, PlaceInv

\* The server is well typed, its pools are within their limits, and the write lock is held by
\* a worker in the middle of its seed or by nobody.
THEOREM TypeCorrectness == SvSpec => []SvTypeOK
<1>1. StartupInv /\ PlaceInv /\ PoolInv /\ LimitInv => SvTypeOK
  <2> SUFFICES ASSUME StartupInv, PlaceInv, PoolInv, LimitInv PROVE SvTypeOK
    OBVIOUS
  <2>1. PTypeOK
    BY DEF PTypeOK, PoolInv, LimitInv, HoldersUse, RequestStages
  <2>2. rows \in [DOMAIN Batches -> Nat]
    BY DEF StartupInv, Copies
  <2>3. writer # None => writer \in Workers /\ stage[writer] = "seed"
    BY DEF StartupInv, StartupTypes, Locked
  <2> QED BY <2>1, <2>2, <2>3 DEF SvTypeOK, StartupInv, StartupTypes, Stages, PlaceInv, Positions
<1> QED BY <1>1, InitStartupInv, NextStartupInv, InitPlaceInv, NextPlaceInv, InitPool, NextPoolInv,
           NextLimitInv, PTL DEF SvSpec, wvars
===============================================================================
