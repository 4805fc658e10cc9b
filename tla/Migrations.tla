----------------------------- MODULE Migrations -----------------------------
(***************************************************************************)
(* The migration runner of database/migrations.py on PostgreSQL, as the    *)
(* replicas of a gateway run it when they start (api/server.py) and an     *)
(* operator runs it by hand.  migrate_up() is one transaction under an     *)
(* advisory lock that PostgreSQL frees with the transaction; statements    *)
(* and records become visible together at its commit (external).           *)
(* Replicas may be of different releases, which know different files.      *)
(***************************************************************************)
EXTENDS Integers, Sequences, FiniteSets, SequencesExt, Selections

CONSTANTS
    Replicas,
    Release,       \* of each replica: how many migration files it has
    Broken,        \* the migrations that have a statement that may fail
    NoDown,        \* the migrations without a .down.sql file
    MaxStarts      \* bound: starts of a replica

ASSUME MigrationsAssumption ==
    Release \in [Replicas -> Nat] /\ MaxStarts \in Nat /\ "nobody" \notin Replicas

VARIABLES
    records,   \* _schema_migrations, in the order of its ids
    schema,    \* how often the statements of each migration are in effect
    replica,   \* per replica: where it is and its open transaction
    mlock,     \* the holder of the advisory lock
    downs,     \* history: an operator has rolled back
    starts

migVars == <<records, schema, replica, mlock, downs, starts>>

Versions == UNION {1..Release[r] : r \in Replicas}

\* A replica outside a transaction
Outside(at, why) == [at |-> at, pending |-> << >>, did |-> << >>, why |-> why]

NoTxn == Outside("off", "none")

NoReplica == "nobody"

MigrationsInit ==
    /\ records = << >>
    /\ schema = [m \in Versions |-> 0]
    /\ replica = [r \in Replicas |-> NoTxn]
    /\ mlock = NoReplica
    /\ downs = FALSE
    /\ starts = [r \in Replicas |-> 0]

\* lifespan() calls migrate_up(), which asks for the lock.
StartReplica(r) ==
    /\ replica[r].at \in {"off", "failed"} /\ starts[r] < MaxStarts
    /\ starts' = [starts EXCEPT ![r] = @ + 1]
    /\ replica' = [replica EXCEPT ![r] = Outside("waiting", "none")]
    /\ UNCHANGED <<records, schema, mlock, downs>>

\* Mutant: the lock is not taken on this dialect.
LockFreeAlways == TRUE

\* pg_advisory_xact_lock (external): granted when nobody has it.
LockFree == mlock = NoReplica

\* _get_applied and _discover_migrations: the files that are not recorded.
Pending(r) ==
    Picked([m \in 1..Release[r] |-> m], {m \in 1..Release[r] : m \notin ToSet(records)})

\* The lock is granted, and the replica learns what is pending.
TakeMigrationLock(r) ==
    /\ replica[r].at = "waiting" /\ LockFree
    /\ mlock' = r
    /\ replica' = [replica EXCEPT ![r].at = "migrating", ![r].pending = Pending(r)]
    /\ UNCHANGED <<records, schema, downs, starts>>

Freed(r) == IF mlock = r THEN NoReplica ELSE mlock

\* One file: its statements, and its row, in the open transaction.
ApplyFile(r) ==
    /\ replica[r].at = "migrating" /\ replica[r].pending # << >>
    /\ replica' = [replica EXCEPT ![r].pending = Tail(@),
                                  ![r].did = Append(@, Head(replica[r].pending))]
    /\ UNCHANGED <<records, schema, mlock, downs, starts>>

\* A statement raises: the transaction is rolled back, and the start fails.
FileFails(r) ==
    /\ replica[r].at = "migrating" /\ replica[r].pending # << >>
    /\ Head(replica[r].pending) \in Broken
    /\ replica' = [replica EXCEPT ![r] = Outside("failed", "statement")]
    /\ mlock' = Freed(r)
    /\ UNCHANGED <<records, schema, downs, starts>>

\* get_session() commits, unless a row of the same filename has been committed
\* meanwhile (filename is UNIQUE): then the start fails.
CommitMigrations(r) ==
    /\ replica[r].at = "migrating" /\ replica[r].pending = << >>
    /\ mlock' = Freed(r)
    /\ IF ToSet(replica[r].did) \intersect ToSet(records) = {}
       THEN /\ records' = records \o replica[r].did
            /\ schema' = [m \in Versions |->
                  schema[m] + (IF m \in ToSet(replica[r].did) THEN 1 ELSE 0)]
            /\ replica' = [replica EXCEPT ![r] = Outside("serving", "none")]
       ELSE /\ replica' = [replica EXCEPT ![r] = Outside("failed", "duplicate")]
            /\ UNCHANGED <<records, schema>>
    /\ UNCHANGED <<downs, starts>>

\* The process is killed: PostgreSQL rolls back and frees the lock.
KillReplica(r) ==
    /\ replica[r].at \notin {"off", "failed"}
    /\ replica' = [replica EXCEPT ![r] = NoTxn]
    /\ mlock' = Freed(r)
    /\ UNCHANGED <<records, schema, downs, starts>>

\* migrate_down(n): of the last n rows, those that have a down script.
Reverts(n) == {records[i] : i \in (Len(records) - n + 1)..Len(records)} \ NoDown

\* migrate_down() takes no lock: one transaction, beside everything else.
MigrateDown(n) ==
    /\ n <= Len(records)
    /\ records' = Picked(records, {i \in DOMAIN records : records[i] \notin Reverts(n)})
    /\ schema' = [m \in Versions |->
          schema[m] - (IF m \in Reverts(n) \ NoDown THEN 1 ELSE 0)]
    /\ downs' = TRUE
    /\ UNCHANGED <<replica, mlock, starts>>

MigrationsNext ==
    \/ \E r \in Replicas : \/ StartReplica(r) \/ TakeMigrationLock(r) \/ ApplyFile(r)
                           \/ FileFails(r) \/ CommitMigrations(r) \/ KillReplica(r)
    \/ \E n \in Versions : MigrateDown(n)

MigrationsSpec == MigrationsInit /\ [][MigrationsNext]_migVars

-----------------------------------------------------------------------------
\* "A half-migrated DB must not serve", and "replicas starting together: one
\* migrates, the others wait, then find nothing pending": the records say
\* exactly which migrations are in effect, each once; a start fails only for a
\* statement that fails; and unless an operator rolls back, a replica that
\* serves has every migration of its release, whoever was killed or started
\* when, and whichever release migrated first.
MigrationsSound ==
    /\ \A m \in Versions : schema[m] = (IF m \in ToSet(records) THEN 1 ELSE 0)
    /\ \A r \in Replicas : replica[r].at = "failed" => replica[r].why = "statement"
    /\ ~downs => \A r \in Replicas :
          replica[r].at = "serving" => 1..Release[r] \subseteq ToSet(records)

=============================================================================
