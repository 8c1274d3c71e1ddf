-------------------------- MODULE SchemaMigrations --------------------------
(***************************************************************************)
(* bootstrap.Migrations and the artisan command that runs them.  The       *)
(* schema is the set of tables, columns and indexes that exist, each as    *)
(* <<table, part>>.  The runner is the framework's: migrate takes the      *)
(* migrations that are not logged in their order and logs each after its   *)
(* Up, rollback takes the last one and strikes it out after its Down.      *)
(* PostgreSQL runs the statements of an Up or a Down as one transaction,   *)
(* MySQL commits every one of them by itself.                              *)
(***************************************************************************)
EXTENDS Integers, Sequences

CONSTANTS
  Connections,     \* "mysql", "postgres": database.default
  Deployed,        \* how many migrations may have been run when we look
  MaxInterrupts,   \* bound: commands cut short, by an error or by dying
  MaxRollbacks     \* bound: migrations taken back

VARIABLES
  connection,
  schema,    \* the tables, columns and indexes that exist
  logged,    \* how many of the migrations the log table holds
  command,   \* the Up or Down under way
  cut,       \* <<m, way>> for the Ups and Downs that were cut short
  used       \* budgets spent

migrating == <<connection, schema, logged, command, cut, used>>

(***************************************************************************)
(* Statements.  The blueprint of a new table yields one for the table and  *)
(* one per index, that of an existing one a statement per new column.      *)
(***************************************************************************)
Self    == ""
NoGuard == <<Self, Self>>

Table(t)        == <<t, Self>>
Add(guard, t, p) ==
  [op |-> "add", table |-> t, parts |-> {p}, guard |-> guard]
DropIfExists(t) ==
  [op |-> "drop table", table |-> t, parts |-> {}, guard |-> NoGuard]
DropColumns(t, ps) ==
  [op |-> "drop columns", table |-> t, parts |-> ps, guard |-> NoGuard]
AlterNull(allow) ==
  [op |-> IF allow THEN "allow null" ELSE "forbid null",
   table |-> "image_outputs", parts |-> {"expires_at NULL"}, guard |-> NoGuard]

Named(st) == {<<st.table, p>> : p \in st.parts}

Requires(st) ==
  CASE st.op = "drop table"   -> {}
    [] st.op = "drop columns" -> Named(st)
    [] OTHER                  -> {Table(st.table)} \ Named(st)

\* nulls: the column a statement is to make NOT NULL holds a NULL.
Accepts(st, nulls) ==
  /\ Requires(st) \subseteq schema
  /\ st.op = "add" => Named(st) \cap schema = {}
  /\ st.op = "forbid null" => ~nulls

After(st) ==
  CASE st.op \in {"add", "allow null"}           -> schema \cup Named(st)
    [] st.op \in {"drop columns", "forbid null"} -> schema \ Named(st)
    [] st.op = "drop table" -> {e \in schema : e[1] # st.table}

(***************************************************************************)
(* The migrations: the statements of Up, each with the guard of its block, *)
(* and those of Down.                                                      *)
(***************************************************************************)
\* HasTable and Create: the table, and its index or column p.
Creates(t, p) == Add(Table(t), t, p)

\* HasColumn and Table: column p, where the first of the block is missing.
Adds(t, first, p) == Add(<<t, first>>, t, p)

AddsColumn(t, c) ==
  [up |-> <<Adds(t, c, c)>>, down |-> <<DropColumns(t, {c})>>]

AddsColumns(t, c, d) ==
  [up |-> <<Adds(t, c, c), Adds(t, c, d)>>, down |-> <<DropColumns(t, {c, d})>>]

CreatesTable(t, index) ==
  [up |-> <<Creates(t, Self), Creates(t, index)>>, down |-> <<DropIfExists(t)>>]

CreateJobsTable ==
  [up   |-> <<Creates("jobs", Self), Creates("jobs", "queue"),
              Creates("failed_jobs", Self), Creates("failed_jobs", "uuid")>>,
   down |-> <<DropIfExists("jobs"), DropIfExists("failed_jobs")>>]

CreateRequestsTable == CreatesTable("image_processing_requests", "status")

CreateRequestSizesTable ==
  CreatesTable("image_processing_request_sizes", "image_processing_request_id")

CreateImageOutputsTable ==
  [up   |-> <<Creates("image_outputs", Self),
              Creates("image_outputs", "image_processing_request_id"),
              Creates("image_outputs", "image_processing_request_size_id"),
              Creates("image_outputs", "expires_at")>>,
   down |-> <<DropIfExists("image_outputs")>>]

AddSourceDimensions ==
  AddsColumns("image_processing_requests", "source_width", "source_height")

\* A version that asks for a column of another migration.
AddInputTypeMisguarded ==
  LET add(p) == Adds("image_processing_requests", "source_width", p)
  IN [up   |-> <<add("input_type"), add("source_file_path")>>,
      down |-> <<DropColumns("image_processing_requests",
                             {"input_type", "source_file_path"})>>]

AddInputType ==
  AddsColumns("image_processing_requests", "input_type", "source_file_path")

\* A version whose Down does not mind NULLs.
MakeExpiresAtNullableForgiving ==
  [up   |-> <<AlterNull(TRUE)>>,
   down |-> <<DropColumns("image_outputs", {"expires_at NULL"})>>]

MakeExpiresAtNullable ==
  [up |-> <<AlterNull(TRUE)>>, down |-> <<AlterNull(FALSE)>>]

AddOutputHash == AddsColumn("image_processing_requests", "output_hash")

\* A version without its guard.
AddLastHeartbeatAtUnguarded ==
  [up   |-> <<Add(NoGuard, "image_processing_requests", "last_heartbeat_at")>>,
   down |-> <<DropColumns("image_processing_requests", {"last_heartbeat_at"})>>]

AddLastHeartbeatAt == AddsColumn("image_processing_requests", "last_heartbeat_at")

\* A version in which the newest migration was not registered.
MigrationsUnregistered ==
  <<CreateJobsTable, CreateRequestsTable, CreateRequestSizesTable,
    CreateImageOutputsTable, AddSourceDimensions, AddInputType,
    MakeExpiresAtNullable, AddOutputHash>>

Migrations ==
  <<CreateJobsTable, CreateRequestsTable, CreateRequestSizesTable,
    CreateImageOutputsTable, AddSourceDimensions, AddInputType,
    MakeExpiresAtNullable, AddOutputHash, AddLastHeartbeatAt>>

ASSUME MigrationsAssumption ==
  /\ Connections \subseteq {"mysql", "postgres"}
  /\ Deployed \subseteq 0 .. Len(Migrations)
  /\ MaxInterrupts \in Nat /\ MaxRollbacks \in Nat

(***************************************************************************)
(* The command.                                                            *)
(***************************************************************************)
\* left: which of its statements are still to do; before: the schema it met.
Resting == [m |-> 0, way |-> "none", left |-> {}, before |-> {}]
AtRest  == command = Resting

Start(m, way, left) ==
  command' = [m |-> m, way |-> way, left |-> left, before |-> schema]

BeginUp ==
  /\ AtRest /\ logged < Len(Migrations)
  /\ LET up == Migrations[logged + 1].up
     IN Start(logged + 1, "up", {k \in DOMAIN up : up[k].guard \notin schema})
  /\ UNCHANGED <<connection, schema, logged, cut, used>>

BeginDown ==
  /\ AtRest /\ logged > 0
  /\ used.rollbacks < MaxRollbacks
  /\ used' = [used EXCEPT !.rollbacks = @ + 1]
  /\ Start(logged, "down", DOMAIN Migrations[logged].down)
  /\ UNCHANGED <<connection, schema, logged, cut>>

Statement(k) == IF command.way = "up" THEN Migrations[command.m].up[k]
                                      ELSE Migrations[command.m].down[k]

\* The first of those that are left.
IsDue(k) == /\ k \in command.left
            /\ \A j \in command.left : k <= j

\* One statement, when the schema and the rows allow it.
Execute(nulls) ==
  \E k \in command.left :
    /\ IsDue(k)
    /\ Accepts(Statement(k), nulls)
    /\ schema' = After(Statement(k))
    /\ command' = [command EXCEPT !.left = @ \ {k}]
    /\ UNCHANGED <<connection, logged, cut, used>>

\* The command ends here, with statements left or with the log not written.
\* A transaction that is not complete is undone.
Stop ==
  /\ command' = Resting
  /\ schema' = IF connection = "postgres" /\ command.left # {}
                 THEN command.before ELSE schema
  /\ cut' = IF schema' = command.before THEN cut
            ELSE cut \cup {<<command.m, command.way>>}

\* The database refuses a statement, which the migration returns.
Refuse(nulls) ==
  /\ \E k \in command.left : IsDue(k) /\ ~Accepts(Statement(k), nulls)
  /\ Stop
  /\ UNCHANGED <<connection, logged, used>>

Interrupt ==
  /\ ~AtRest
  /\ used.interrupts < MaxInterrupts
  /\ used' = [used EXCEPT !.interrupts = @ + 1]
  /\ Stop
  /\ UNCHANGED <<connection, logged>>

\* A migration whose Down was completed leaves nothing of a cut Up.
Log ==
  /\ ~AtRest /\ command.left = {}
  /\ logged' = IF command.way = "up" THEN command.m ELSE command.m - 1
  /\ cut' = {c \in cut : c[1] = command.m => command.way = "up"}
  /\ command' = Resting
  /\ UNCHANGED <<connection, schema, used>>

Migrate(nulls) == BeginUp \/ BeginDown \/ Execute(nulls) \/ Refuse(nulls)
                  \/ Interrupt \/ Log

\* All a migration creates, when nothing is there yet.
Up(m)     == Migrations[m].up
Parts(m)  == UNION {Named(Up(m)[k]) : k \in DOMAIN Up(m)}
Guards(m) == {Up(m)[k].guard : k \in DOMAIN Up(m)} \ {NoGuard}

MigrateInit ==
  /\ connection \in Connections
  /\ logged \in Deployed
  /\ schema = UNION {Parts(m) : m \in 1 .. logged}
  /\ command = Resting
  /\ cut = {}
  /\ used = [interrupts |-> 0, rollbacks |-> 0]

(***************************************************************************)
(* What the schema owes the program.                                       *)
(***************************************************************************)
\* What the models and the queue use, as of the columns and indexes above:
\* app/models, whose uniqueIndex and index tags are the blueprints' indexes.
Needed ==
  {Table("jobs"), Table("image_processing_requests"),
   Table("image_processing_request_sizes"), Table("image_outputs")}
  \cup {"image_processing_requests"} \X
         {"source_width", "source_height", "input_type", "source_file_path",
          "output_hash", "last_heartbeat_at", "status"}
  \cup {"image_outputs"} \X
         {"expires_at NULL", "image_processing_request_size_id"}
  \cup {<<"image_processing_request_sizes", "image_processing_request_id">>}

MigrationsTypeOK ==
  /\ connection \in Connections
  /\ logged \in 0 .. Len(Migrations)
  /\ schema \subseteq UNION {Parts(m) : m \in 1 .. Len(Migrations)}
  /\ command \in
       [m : 0 .. Len(Migrations), way : {"none", "up", "down"},
        left : SUBSET Nat,
        before : SUBSET UNION {Parts(m) : m \in 1 .. Len(Migrations)}]
  /\ cut \subseteq (1 .. Len(Migrations)) \X {"up", "down"}
  /\ used \in [interrupts : 0 .. MaxInterrupts, rollbacks : 0 .. MaxRollbacks]

\* Logged, and its Down neither under way nor cut short.
Settled(m) == /\ m <= logged
              /\ command.m = m => command.way # "down"
              /\ <<m, "down">> \notin cut

\* What the log calls done is done.  An Up that MySQL cut short is logged when
\* migrate is run again, with only the table or column its guard asks for
\* certain to be there.
LoggedIsApplied ==
  \A m \in 1 .. Len(Migrations) : Settled(m) =>
    /\ Guards(m) \subseteq schema
    /\ connection = "postgres" \/ <<m, "up">> \notin cut =>
         Parts(m) \subseteq schema

\* When migrate has nothing left to do the schema serves the program, whatever
\* was interrupted on the way, but for Downs, and for Ups on MySQL.
MigratedServesProgram ==
  /\ logged = Len(Migrations) /\ AtRest
  /\ \A c \in cut : c[2] = "up" /\ connection = "postgres"
  => Needed \subseteq schema

\* A migrate cut short can be run again: no Up meets a table or column it did
\* not expect, or misses one, unless a rollback was cut short before.
RerunIsAccepted ==
  command.way = "up" /\ (\A c \in cut : c[2] = "up")
  => \A k \in command.left : IsDue(k) => Accepts(Statement(k), TRUE)
=============================================================================
