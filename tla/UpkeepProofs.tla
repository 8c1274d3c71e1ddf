---------------------------- MODULE UpkeepProofs ----------------------------
(***************************************************************************)
(* The migrations and the cleanup job, for both databases, any version to  *)
(* start from, any number of interrupted commands, rollbacks, workers and  *)
(* rows.  First what the nine migrations have in common (AllSound): each   *)
(* makes parts of its own, the one its guard asks for first, and its Down  *)
(* takes them away and nothing of an earlier migration.  The invariant of  *)
(* the migrations (MigrationsInv) needs no more of them: migration by      *)
(* migration it says how the schema fits the log and what was cut, and of  *)
(* the command under way what it has done.  That of the cleanup            *)
(* (CleanupInv) adds what each worker knows of the row in its hand.        *)
(***************************************************************************)
EXTENDS CleanupExpiredImagesJob, TLAPS

(***************************************************************************)
(* The nine migrations, by what the proofs need of them.                   *)
(***************************************************************************)
Numbers == 1 .. Len(Migrations)
Down(m) == Migrations[m].down

\* The migration that creates e.
Owner(e) ==
  IF e[1] \in {"jobs", "failed_jobs"} THEN 1
  ELSE IF e[1] = "image_processing_request_sizes" THEN 3
  ELSE IF e[1] = "image_outputs" THEN IF e[2] = "expires_at NULL" THEN 7 ELSE 4
  ELSE IF e[2] \in {Self, "status"} THEN 2
  ELSE IF e[2] \in {"source_width", "source_height"} THEN 5
  ELSE IF e[2] \in {"input_type", "source_file_path"} THEN 6
  ELSE IF e[2] = "output_hash" THEN 8 ELSE 9

\* e goes with the statement.
Hits(st, e) == IF st.op = "drop table" THEN e[1] = st.table ELSE e \in Named(st)

\* Guards come first, in a block of their own table, and say of the parts of
\* another migration nothing.
\* The table is made by the block itself or by an earlier migration.
TableFirst(m, guard, t) ==
  \/ guard = Table(t)
  \/ \E n \in Numbers : n < m /\ Table(t) \in Guards(n)

StatementIsSound(m, st) ==
  /\ st.op \in {"add", "allow null"}
  /\ (st.op = "add") <=> (st.guard # NoGuard)
  /\ st.table # Self
  /\ \A e \in Named(st) : Owner(e) = m /\ e[1] = st.table
  /\ TableFirst(m, st.guard, st.table)
  /\ st.guard # NoGuard => st.guard[1] = st.table

StatementIsFirst(m, k) ==
  /\ k \in Nat
  /\ StatementIsSound(m, Up(m)[k])
  /\ \A j \in DOMAIN Up(m) \ {k} : Named(Up(m)[j]) \cap Named(Up(m)[k]) = {}
  /\ Up(m)[k].guard # NoGuard =>
       \E j \in DOMAIN Up(m) : /\ j <= k
                               /\ Up(m)[j].guard = Up(m)[k].guard
                               /\ Named(Up(m)[j]) = {Up(m)[k].guard}

UpIsSound(m) == \A k \in DOMAIN Up(m) : StatementIsFirst(m, k)

\* Down takes all of its own away and nothing of an earlier migration.
DownIsSound(m) ==
  /\ \A k \in DOMAIN Down(m) :
       /\ Down(m)[k].op \in {"drop table", "drop columns", "forbid null"}
       /\ IF Down(m)[k].op = "drop table"
            THEN \A e : e[1] = Down(m)[k].table => Owner(e) >= m
            ELSE \A e \in Named(Down(m)[k]) : Owner(e) = m
  /\ \A e \in Parts(m) : \E k \in DOMAIN Down(m) : Hits(Down(m)[k], e)

\* The list of bootstrap.Migrations, by number.
LEMMA NineMigrations ==
  /\ Len(Migrations) = 9
  /\ Numbers = 1 .. 9
  /\ Migrations[1] = CreateJobsTable
  /\ Migrations[2] = CreateRequestsTable
  /\ Migrations[3] = CreateRequestSizesTable
  /\ Migrations[4] = CreateImageOutputsTable
  /\ Migrations[5] = AddSourceDimensions
  /\ Migrations[6] = AddInputType
  /\ Migrations[7] = MakeExpiresAtNullable
  /\ Migrations[8] = AddOutputHash
  /\ Migrations[9] = AddLastHeartbeatAt
  BY DEF Migrations, Numbers

\* A part added under a guard of its own table.
LEMMA OfAdd ==
  ASSUME NEW m, NEW g, NEW t, NEW p, Owner(<<t, p>>) = m, t # Self, g[1] = t, g # NoGuard,
         TableFirst(m, g, t)
  PROVE  /\ StatementIsSound(m, Add(g, t, p))
         /\ Add(g, t, p).guard = g
         /\ Named(Add(g, t, p)) = {<<t, p>>}
  <1>1. /\ Add(g, t, p).op = "add" /\ Add(g, t, p).guard = g
        /\ Add(g, t, p).table = t /\ Add(g, t, p).parts = {p}
    BY DEF Add
  <1>2. Named(Add(g, t, p)) = {<<t, p>>}
    BY <1>1 DEF Named
  <1> QED
    BY <1>1, <1>2 DEF StatementIsSound

\* What the statements of a Down name.
LEMMA OfDrops ==
  ASSUME NEW t
  PROVE  /\ DropIfExists(t).op = "drop table"
         /\ DropIfExists(t).table = t
  BY DEF DropIfExists

\* Two columns dropped in one statement.
LEMMA OfDropColumns ==
  ASSUME NEW t, NEW c, NEW d, NEW x, x = DropColumns(t, {c, d})
  PROVE  /\ x.op = "drop columns"
         /\ \A e : e \in Named(x) <=> e = <<t, c>> \/ e = <<t, d>>
  BY DEF DropColumns, Named

\* One column dropped.
LEMMA OfDropColumn ==
  ASSUME NEW t, NEW c, NEW x, x = DropColumns(t, {c})
  PROVE  /\ x.op = "drop columns"
         /\ \A e : e \in Named(x) <=> e = <<t, c>>
  BY DEF DropColumns, Named

\* Two tables, each with an index: the four statements of one Up.
LEMMA FourStatements ==
  ASSUME NEW m, DOMAIN Up(m) = {1, 2, 3, 4},
         \A k \in DOMAIN Up(m) : StatementIsSound(m, Up(m)[k]),
         \A j, k \in {1, 2, 3, 4} :
           j # k => Named(Up(m)[j]) \cap Named(Up(m)[k]) = {},
         Named(Up(m)[1]) = {Up(m)[1].guard}, Up(m)[2].guard = Up(m)[1].guard,
         Named(Up(m)[3]) = {Up(m)[3].guard}, Up(m)[4].guard = Up(m)[3].guard
  PROVE  UpIsSound(m)
  <1> SUFFICES ASSUME NEW k \in {1, 2, 3, 4}
               PROVE  StatementIsFirst(m, k)
    BY DEF UpIsSound
  <1>1. \A j \in {1, 2, 3, 4} \ {k} : Named(Up(m)[j]) \cap Named(Up(m)[k]) = {}
    OBVIOUS
  <1>2. \E j \in {1, 2, 3, 4} : /\ j <= k
                                /\ Up(m)[j].guard = Up(m)[k].guard
                                /\ Named(Up(m)[j]) = {Up(m)[k].guard}
    <2>1. CASE k \in {1, 2}
      BY <2>1
    <2>2. CASE k \in {3, 4}
      BY <2>2
    <2> QED
      BY <2>1, <2>2
  <1>3. StatementIsSound(m, Up(m)[k]) /\ k \in Nat
    OBVIOUS
  <1> QED
    BY <1>1, <1>2, <1>3 DEF StatementIsFirst

\* The change of a column that exists.
LEMMA OfAlterNull ==
  ASSUME NEW allow \in BOOLEAN, NEW x, x = AlterNull(allow)
  PROVE  /\ x.op = IF allow THEN "allow null" ELSE "forbid null"
         /\ x.guard = NoGuard /\ x.table = "image_outputs"
         /\ Named(x) = {<<"image_outputs", "expires_at NULL">>}
  BY DEF AlterNull, Named

\* A migration that adds two columns under the guard of the first.
LEMMA TwoColumns ==
  ASSUME NEW m \in Numbers, NEW t, NEW c, NEW d, t # Self, c # d, c # Self,
         Migrations[m] = AddsColumns(t, c, d),
         Owner(<<t, c>>) = m, Owner(<<t, d>>) = m,
         TableFirst(m, <<t, c>>, t)
  PROVE  UpIsSound(m) /\ DownIsSound(m)
  <1>1. /\ DOMAIN Up(m) = {1, 2}
        /\ Up(m)[1] = Adds(t, c, c)
        /\ Up(m)[2] = Adds(t, c, d)
    BY DEF Up, AddsColumns
  <1>2. /\ DOMAIN Down(m) = {1}
        /\ Down(m)[1] = DropColumns(t, {c, d})
    BY DEF Down, AddsColumns
  <1>3. <<t, c>> # NoGuard /\ <<t, c>> # <<t, d>> /\ <<t, c>>[1] = t
    BY DEF NoGuard
  <1>4. /\ StatementIsSound(m, Up(m)[1]) /\ Up(m)[1].guard = <<t, c>>
        /\ Named(Up(m)[1]) = {<<t, c>>}
    BY <1>1, <1>3, OfAdd DEF Adds
  <1>5. /\ StatementIsSound(m, Up(m)[2]) /\ Up(m)[2].guard = <<t, c>>
        /\ Named(Up(m)[2]) = {<<t, d>>}
    BY <1>1, <1>3, OfAdd DEF Adds
  <1>6. UpIsSound(m)
    BY <1>1, <1>3, <1>4, <1>5 DEF UpIsSound, StatementIsFirst
  <1>7. /\ Down(m)[1].op = "drop columns"
        /\ \A e : e \in Named(Down(m)[1]) <=> e = <<t, c>> \/ e = <<t, d>>
    <2>1. /\ DropColumns(t, {c, d}).op = "drop columns"
          /\ \A e : e \in Named(DropColumns(t, {c, d}))
                    <=> e = <<t, c>> \/ e = <<t, d>>
      BY ONLY OfDropColumns
    <2> QED
      BY ONLY <1>2, <2>1
  <1>8. Parts(m) = {<<t, c>>, <<t, d>>}
    BY <1>1, <1>4, <1>5 DEF Parts
  <1>9. DownIsSound(m)
    BY <1>2, <1>7, <1>8 DEF DownIsSound, Hits
  <1> QED
    BY <1>6, <1>9

\* A migration that adds one column.
LEMMA OneColumn ==
  ASSUME NEW m \in Numbers, NEW t, NEW c, t # Self, c # Self,
         Migrations[m] = AddsColumn(t, c), Owner(<<t, c>>) = m,
         TableFirst(m, <<t, c>>, t)
  PROVE  UpIsSound(m) /\ DownIsSound(m)
  <1>1. DOMAIN Up(m) = {1} /\ Up(m)[1] = Adds(t, c, c)
    BY DEF Up, AddsColumn
  <1>2. DOMAIN Down(m) = {1} /\ Down(m)[1] = DropColumns(t, {c})
    BY DEF Down, AddsColumn
  <1>3. <<t, c>> # NoGuard /\ <<t, c>>[1] = t
    BY DEF NoGuard
  <1>4. /\ StatementIsSound(m, Up(m)[1]) /\ Up(m)[1].guard = <<t, c>>
        /\ Named(Up(m)[1]) = {<<t, c>>}
    BY <1>1, <1>3, OfAdd DEF Adds
  <1>5. UpIsSound(m)
    BY <1>1, <1>3, <1>4 DEF UpIsSound, StatementIsFirst
  <1>6. /\ Down(m)[1].op = "drop columns"
        /\ \A e : e \in Named(Down(m)[1]) <=> e = <<t, c>>
    BY <1>2, OfDropColumn
  <1>7. Parts(m) = {<<t, c>>}
    BY <1>1, <1>4 DEF Parts
  <1>8. DownIsSound(m)
    BY <1>2, <1>6, <1>7 DEF DownIsSound, Hits
  <1> QED
    BY <1>5, <1>8

\* A statement of a new table is guarded by the table.
LEMMA OfCreates ==
  ASSUME NEW m, NEW t, NEW p, t # Self, Owner(<<t, p>>) = m
  PROVE  /\ StatementIsSound(m, Creates(t, p))
         /\ Creates(t, p).guard = <<t, Self>> /\ <<t, Self>> # NoGuard
         /\ Named(Creates(t, p)) = {<<t, p>>}
  <1>1. /\ Table(t) = <<t, Self>> /\ Table(t)[1] = t /\ Table(t) # NoGuard
        /\ TableFirst(m, Table(t), t)
    BY DEF Table, NoGuard, TableFirst
  <1> QED
    BY <1>1, OfAdd DEF Creates

\* A migration that creates a table with an index.
LEMMA NewTable ==
  ASSUME NEW m \in Numbers, NEW t, NEW i, t # Self, i # Self,
         Migrations[m] = CreatesTable(t, i),
         Owner(<<t, Self>>) = m, Owner(<<t, i>>) = m,
         \A e : e[1] = t => Owner(e) >= m
  PROVE  UpIsSound(m) /\ DownIsSound(m)
  <1>1. /\ DOMAIN Up(m) = {1, 2}
        /\ Up(m)[1] = Creates(t, Self) /\ Up(m)[2] = Creates(t, i)
    BY DEF Up, CreatesTable
  <1>2. DOMAIN Down(m) = {1} /\ Down(m)[1] = DropIfExists(t)
    BY DEF Down, CreatesTable
  <1>3. /\ StatementIsSound(m, Up(m)[1]) /\ Up(m)[1].guard = <<t, Self>>
        /\ Named(Up(m)[1]) = {<<t, Self>>}
    BY <1>1, OfCreates
  <1>4. /\ StatementIsSound(m, Up(m)[2]) /\ Up(m)[2].guard = <<t, Self>>
        /\ Named(Up(m)[2]) = {<<t, i>>}
    BY <1>1, OfCreates
  <1>5. UpIsSound(m)
    BY <1>1, <1>3, <1>4 DEF UpIsSound, StatementIsFirst
  <1>6. /\ Down(m)[1].op = "drop table" /\ Down(m)[1].table = t
    BY <1>2, OfDrops
  <1>7. \A e \in Parts(m) : e[1] = t
    BY <1>1, <1>3, <1>4 DEF Parts
  <1>8. DownIsSound(m)
    BY <1>2, <1>6, <1>7 DEF DownIsSound, Hits
  <1> QED
    BY <1>5, <1>8

\* Migration 1: the jobs and failed jobs of the queue.
LEMMA JobsTables == UpIsSound(1) /\ DownIsSound(1)
  <1> DEFINE t == "jobs"
             f == "failed_jobs"
  <1>1. /\ DOMAIN Up(1) = {1, 2, 3, 4}
        /\ Up(1)[1] = Creates(t, Self) /\ Up(1)[2] = Creates(t, "queue")
        /\ Up(1)[3] = Creates(f, Self) /\ Up(1)[4] = Creates(f, "uuid")
    BY NineMigrations DEF Up, CreateJobsTable
  <1>2. /\ DOMAIN Down(1) = {1, 2}
        /\ Down(1)[1] = DropIfExists(t) /\ Down(1)[2] = DropIfExists(f)
    BY NineMigrations DEF Down, CreateJobsTable
  <1>3. /\ \A e : e[1] = t \/ e[1] = f => Owner(e) >= 1
        /\ t # Self /\ f # Self /\ t # f
        /\ "queue" # Self /\ "uuid" # Self
    BY DEF Owner, Self
  <1>4. /\ Owner(<<t, Self>>) = 1 /\ Owner(<<t, "queue">>) = 1
        /\ Owner(<<f, Self>>) = 1 /\ Owner(<<f, "uuid">>) = 1
    BY DEF Owner
  <1> HIDE DEF t, f
  <1>5. /\ StatementIsSound(1, Up(1)[1]) /\ Up(1)[1].guard = <<t, Self>>
        /\ Named(Up(1)[1]) = {<<t, Self>>}
    BY <1>1, <1>3, <1>4, OfCreates
  <1>6. /\ StatementIsSound(1, Up(1)[2]) /\ Up(1)[2].guard = <<t, Self>>
        /\ Named(Up(1)[2]) = {<<t, "queue">>}
    BY <1>1, <1>3, <1>4, OfCreates
  <1>7. /\ StatementIsSound(1, Up(1)[3]) /\ Up(1)[3].guard = <<f, Self>>
        /\ Named(Up(1)[3]) = {<<f, Self>>}
    BY <1>1, <1>3, <1>4, OfCreates
  <1>8. /\ StatementIsSound(1, Up(1)[4]) /\ Up(1)[4].guard = <<f, Self>>
        /\ Named(Up(1)[4]) = {<<f, "uuid">>}
    BY <1>1, <1>3, <1>4, OfCreates
  <1>9. UpIsSound(1)
    <2>1. \A j, k \in {1, 2, 3, 4} :
            j # k => Named(Up(1)[j]) \cap Named(Up(1)[k]) = {}
      <3>1. /\ <<t, Self>> # <<t, "queue">> /\ <<t, Self>> # <<f, Self>>
            /\ <<t, Self>> # <<f, "uuid">> /\ <<t, "queue">> # <<f, Self>>
            /\ <<t, "queue">> # <<f, "uuid">> /\ <<f, Self>> # <<f, "uuid">>
        BY <1>3
      <3> QED
        BY <3>1, <1>5, <1>6, <1>7, <1>8
    <2>2. \A k \in DOMAIN Up(1) : StatementIsSound(1, Up(1)[k])
      BY <1>1, <1>5, <1>6, <1>7, <1>8
    <2>3. /\ Named(Up(1)[1]) = {Up(1)[1].guard} /\ Up(1)[2].guard = Up(1)[1].guard
          /\ Named(Up(1)[3]) = {Up(1)[3].guard} /\ Up(1)[4].guard = Up(1)[3].guard
      BY <1>5, <1>6, <1>7, <1>8
    <2> HIDE DEF UpIsSound, StatementIsSound
    <2> QED
      BY ONLY <2>1, <2>2, <2>3, <1>1, FourStatements
  <1>10. /\ Down(1)[1].op = "drop table" /\ Down(1)[1].table = t
         /\ Down(1)[2].op = "drop table" /\ Down(1)[2].table = f
    BY <1>2, OfDrops
  <1>11. \A e \in Parts(1) : e[1] = t \/ e[1] = f
    BY <1>1, <1>5, <1>6, <1>7, <1>8 DEF Parts
  <1>12. DownIsSound(1)
    BY <1>2, <1>3, <1>10, <1>11 DEF DownIsSound, Hits
  <1> QED
    BY <1>9, <1>12

\* Migration 4: the outputs and their indexes.
LEMMA OutputsTables == UpIsSound(4) /\ DownIsSound(4)
  <1> DEFINE t == "image_outputs"
             a == "image_processing_request_id"
             b == "image_processing_request_size_id"
             c == "expires_at"
  <1>1. /\ DOMAIN Up(4) = {1, 2, 3, 4}
        /\ Up(4)[1] = Creates(t, Self) /\ Up(4)[2] = Creates(t, a)
        /\ Up(4)[3] = Creates(t, b) /\ Up(4)[4] = Creates(t, c)
    BY NineMigrations DEF Up, CreateImageOutputsTable
  <1>2. DOMAIN Down(4) = {1} /\ Down(4)[1] = DropIfExists(t)
    BY NineMigrations DEF Down, CreateImageOutputsTable
  <1>0. \A e : e[1] = t => Owner(e) >= 4
    BY DEF Owner
  <1>3. /\ Owner(<<t, Self>>) = 4 /\ Owner(<<t, a>>) = 4
        /\ Owner(<<t, b>>) = 4 /\ Owner(<<t, c>>) = 4
        /\ t # Self /\ a # Self /\ b # Self /\ c # Self
        /\ a # b /\ a # c /\ b # c
    BY DEF Owner, Self
  <1> HIDE DEF t, a, b, c
  <1>4. /\ StatementIsSound(4, Up(4)[1]) /\ Up(4)[1].guard = <<t, Self>>
        /\ Named(Up(4)[1]) = {<<t, Self>>}
    BY <1>1, <1>3, OfCreates
  <1>5. /\ StatementIsSound(4, Up(4)[2]) /\ Up(4)[2].guard = <<t, Self>>
        /\ Named(Up(4)[2]) = {<<t, a>>}
    BY <1>1, <1>3, OfCreates
  <1>6. /\ StatementIsSound(4, Up(4)[3]) /\ Up(4)[3].guard = <<t, Self>>
        /\ Named(Up(4)[3]) = {<<t, b>>}
    BY <1>1, <1>3, OfCreates
  <1>7. /\ StatementIsSound(4, Up(4)[4]) /\ Up(4)[4].guard = <<t, Self>>
        /\ Named(Up(4)[4]) = {<<t, c>>}
    BY <1>1, <1>3, OfCreates
  <1>8. UpIsSound(4)
    BY <1>1, <1>3, <1>4, <1>5, <1>6, <1>7 DEF UpIsSound, StatementIsFirst
  <1>9. /\ Down(4)[1].op = "drop table" /\ Down(4)[1].table = t
    BY <1>2, OfDrops
  <1>10. \A e \in Parts(4) : e[1] = t
    BY <1>1, <1>4, <1>5, <1>6, <1>7 DEF Parts
  <1>11. DownIsSound(4)
    BY <1>2, <1>0, <1>9, <1>10 DEF DownIsSound, Hits
  <1> QED
    BY <1>8, <1>11

\* The two tables that later migrations alter.
LEMMA AlteredTables ==
  /\ Table("image_processing_requests") \in Guards(2)
  /\ Table("image_outputs") \in Guards(4)
  <1>1. /\ 1 \in DOMAIN Up(2)
        /\ Up(2)[1] = Creates("image_processing_requests", Self)
    BY NineMigrations DEF Up, CreateRequestsTable, CreatesTable
  <1>2. 1 \in DOMAIN Up(4) /\ Up(4)[1] = Creates("image_outputs", Self)
    BY NineMigrations DEF Up, CreateImageOutputsTable
  <1>3. ASSUME NEW t, t # Self
        PROVE  Creates(t, Self).guard = Table(t) /\ Table(t) # NoGuard
    BY <1>3 DEF Creates, Add, Table, NoGuard
  <1>4. /\ "image_processing_requests" # Self
        /\ "image_outputs" # Self
    BY DEF Self
  <1> QED
    BY <1>1, <1>2, <1>3, <1>4 DEF Guards

\* The tables that later migrations alter are made by earlier ones.
LEMMA LaterTables ==
  ASSUME NEW m \in Numbers, NEW g
  PROVE  /\ m > 2 => TableFirst(m, g, "image_processing_requests")
         /\ m > 4 => TableFirst(m, g, "image_outputs")
  BY AlteredTables, NineMigrations DEF TableFirst

\* MakeExpiresAtNullable guards nothing and makes no table.
LEMMA Nullable ==
  /\ UpIsSound(7) /\ DownIsSound(7)
  /\ DOMAIN Up(7) = {1}
  /\ Named(Up(7)[1]) = {<<"image_outputs", "expires_at NULL">>}
  /\ DOMAIN Down(7) = {1} /\ Down(7)[1].op = "forbid null"
  /\ Named(Down(7)[1]) = {<<"image_outputs", "expires_at NULL">>}
  <1>1. DOMAIN Up(7) = {1} /\ Up(7)[1] = AlterNull(TRUE)
    BY NineMigrations DEF Up, MakeExpiresAtNullable
  <1>2. DOMAIN Down(7) = {1} /\ Down(7)[1] = AlterNull(FALSE)
    BY NineMigrations DEF Down, MakeExpiresAtNullable
  <1> DEFINE n == <<"image_outputs", "expires_at NULL">>
  <1>3. /\ Up(7)[1].op = "allow null" /\ Up(7)[1].guard = NoGuard
        /\ Up(7)[1].table = "image_outputs" /\ Named(Up(7)[1]) = {n}
    BY <1>1, OfAlterNull
  <1>4. Down(7)[1].op = "forbid null" /\ Named(Down(7)[1]) = {n}
    BY <1>2, OfAlterNull
  <1>5. Named(Up(7)[1]) = {n}
    BY <1>3
  <1>6. Owner(n) = 7 /\ n[1] = "image_outputs" /\ "image_outputs" # Self
    BY DEF Owner, Self
  <1>7. StatementIsSound(7, Up(7)[1])
    <2>1. TableFirst(7, Up(7)[1].guard, Up(7)[1].table)
      <3>1. 7 \in Numbers /\ 7 > 4
        BY NineMigrations
      <3> HIDE DEF n
      <3> QED
        BY <1>3, <3>1, LaterTables
    <2> QED
      BY <1>3, <1>5, <1>6, <2>1 DEF StatementIsSound
  <1>8. UpIsSound(7)
    <2>1. StatementIsFirst(7, 1)
      BY <1>1, <1>3, <1>7 DEF StatementIsFirst
    <2> QED
      BY <1>1, <2>1 DEF UpIsSound
  <1>9. Parts(7) = {n}
    BY <1>1, <1>5 DEF Parts
  <1>10. DownIsSound(7)
    BY <1>2, <1>4, <1>5, <1>6, <1>9 DEF DownIsSound, Hits
  <1> QED
    BY <1>1, <1>2, <1>4, <1>5, <1>8, <1>10

\* Each of the nine migrations makes parts of its own, guarded ones first, and
\* its Down takes them away and nothing of an earlier one.
LEMMA AllSound == \A m \in Numbers : UpIsSound(m) /\ DownIsSound(m)
  <1> DEFINE t == "image_processing_requests"
  <1>0. ASSUME NEW m \in Numbers, m > 2, NEW g
        PROVE  TableFirst(m, g, t)
    BY <1>0, LaterTables
  <1>1. /\ Owner(<<t, Self>>) = 2 /\ Owner(<<t, "status">>) = 2
        /\ \A e : e[1] = t => Owner(e) >= 2
        /\ Owner(<<t, "source_width">>) = 5 /\ Owner(<<t, "source_height">>) = 5
        /\ Owner(<<t, "input_type">>) = 6 /\ Owner(<<t, "source_file_path">>) = 6
        /\ Owner(<<t, "output_hash">>) = 8 /\ Owner(<<t, "last_heartbeat_at">>) = 9
    BY DEF Owner, Self
  <1>2. UpIsSound(2) /\ DownIsSound(2)
    <2>1. t # Self /\ "status" # Self
      BY DEF Self
    <2> QED
      BY <1>1, <2>1, NineMigrations, NewTable DEF CreateRequestsTable
  <1>3. UpIsSound(3) /\ DownIsSound(3)
    <2> DEFINE u == "image_processing_request_sizes"
    <2>0. \A e : e[1] = u => Owner(e) >= 3
      BY DEF Owner
    <2>1. /\ Owner(<<u, Self>>) = 3
          /\ Owner(<<u, "image_processing_request_id">>) = 3
          /\ u # Self /\ "image_processing_request_id" # Self
      BY DEF Owner, Self
    <2> QED
      BY <2>0, <2>1, NineMigrations, NewTable DEF CreateRequestSizesTable
  <1>5. UpIsSound(5) /\ DownIsSound(5)
    <2>1. t # Self /\ "source_width" # Self /\ "source_width" # "source_height"
      BY DEF Self
    <2> QED
      BY <1>0, <1>1, <2>1, NineMigrations, TwoColumns DEF AddSourceDimensions
  <1>6. UpIsSound(6) /\ DownIsSound(6)
    <2>1. t # Self /\ "input_type" # Self /\ "input_type" # "source_file_path"
      BY DEF Self
    <2> QED
      BY <1>0, <1>1, <2>1, NineMigrations, TwoColumns DEF AddInputType
  <1>8. UpIsSound(8) /\ DownIsSound(8)
    <2>1. t # Self /\ "output_hash" # Self
      BY DEF Self
    <2> QED
      BY <1>0, <1>1, <2>1, NineMigrations, OneColumn DEF AddOutputHash
  <1>9. UpIsSound(9) /\ DownIsSound(9)
    <2>1. t # Self /\ "last_heartbeat_at" # Self
      BY DEF Self
    <2> QED
      BY <1>0, <1>1, <2>1, NineMigrations, OneColumn DEF AddLastHeartbeatAt
  <1>10. \A m \in 1 .. 9 : \/ m = 1 \/ m = 2 \/ m = 3 \/ m = 4 \/ m = 5
                           \/ m = 6 \/ m = 7 \/ m = 8 \/ m = 9
    OBVIOUS
  <1> QED
    BY <1>10, NineMigrations, JobsTables, OutputsTables, Nullable, <1>2, <1>3,
       <1>5, <1>6, <1>8, <1>9

\* The part that a guard asks for is made by the first statement under it.
LEMMA GuardFirst ==
  ASSUME NEW m \in Numbers, NEW k \in DOMAIN Up(m), Up(m)[k].guard # NoGuard
  PROVE  /\ k \in Nat /\ DOMAIN Up(m) \subseteq Nat
         /\ \E j \in DOMAIN Up(m) : /\ j <= k
                                    /\ Up(m)[j].guard = Up(m)[k].guard
                                    /\ Named(Up(m)[j]) = {Up(m)[k].guard}
  <1>1. \A j \in DOMAIN Up(m) : StatementIsFirst(m, j)
    BY AllSound DEF UpIsSound
  <1> QED
    BY <1>1 DEF StatementIsFirst

\* Statements are numbered.
LEMMA DownNumbers ==
  ASSUME NEW m \in Numbers
  PROVE  DOMAIN Down(m) \subseteq Nat
  <1>1. ASSUME NEW x, NEW y
        PROVE  DOMAIN <<x>> \subseteq Nat /\ DOMAIN <<x, y>> \subseteq Nat
    OBVIOUS
  <1>2. /\ DOMAIN Down(1) \subseteq Nat /\ DOMAIN Down(2) \subseteq Nat
        /\ DOMAIN Down(3) \subseteq Nat /\ DOMAIN Down(4) \subseteq Nat
    BY <1>1, NineMigrations DEF Down, CreatesTable, CreateJobsTable,
       CreateRequestsTable, CreateRequestSizesTable, CreateImageOutputsTable
  <1>3. /\ DOMAIN Down(5) \subseteq Nat /\ DOMAIN Down(6) \subseteq Nat
        /\ DOMAIN Down(7) \subseteq Nat /\ DOMAIN Down(8) \subseteq Nat
        /\ DOMAIN Down(9) \subseteq Nat
    BY <1>1, NineMigrations DEF Down, AddsColumn, AddsColumns,
       AddSourceDimensions, AddInputType, MakeExpiresAtNullable, AddOutputHash,
       AddLastHeartbeatAt
  <1>4. \/ m = 1 \/ m = 2 \/ m = 3 \/ m = 4 \/ m = 5
        \/ m = 6 \/ m = 7 \/ m = 8 \/ m = 9
    BY NineMigrations
  <1> QED
    BY <1>2, <1>3, <1>4

(***************************************************************************)
(* The invariant of the migrations.                                        *)
(***************************************************************************)
AllParts == UNION {Parts(m) : m \in Numbers}

IsGuardOf(g, n, k) == g = Up(n)[k].guard /\ g # NoGuard

\* Migration n fits the log l, what was cut c and the database db, in a schema
\* S in which it is not under way.
FitsIn(n, S, l, c, db) ==
  IF n <= l
    THEN <<n, "down">> \notin c =>
           /\ Guards(n) \subseteq S
           /\ (db = "postgres" \/ <<n, "up">> \notin c) => Parts(n) \subseteq S
    ELSE /\ <<n, "up">> \notin c => Parts(n) \cap S = {}
         /\ \A k \in DOMAIN Up(n), g \in Guards(n) : IsGuardOf(g, n, k) =>
              /\ Named(Up(n)[k]) \cap S # {} => g \in S
              /\ db = "postgres" /\ g \in S => Named(Up(n)[k]) \subseteq S

Fits(n, S) == FitsIn(n, S, logged, cut, connection)

\* The Up under way: what is done of it is there, what is left is not.
UpUnderWay ==
  /\ command.m = logged + 1
  /\ command.left \subseteq DOMAIN Up(command.m)
  /\ command.before \subseteq schema
  /\ \A e \in schema \ command.before :
       \E k \in DOMAIN Up(command.m) \ command.left : e \in Named(Up(command.m)[k])
  /\ \A k \in DOMAIN Up(command.m) \ command.left :
       \/ Up(command.m)[k].guard \in command.before
       \/ /\ Named(Up(command.m)[k]) \subseteq schema
          /\ \A j \in command.left : k < j
  /\ \A k \in command.left :
       /\ Up(command.m)[k].guard \notin command.before
       /\ Up(command.m)[k].guard # NoGuard =>
            Named(Up(command.m)[k]) \cap schema = {}

\* The Down under way: what it has dropped is gone.
DownUnderWay ==
  /\ command.m = logged
  /\ command.left \subseteq DOMAIN Down(command.m)
  /\ schema \subseteq command.before
  /\ \A k \in DOMAIN Down(command.m) \ command.left, e \in schema :
       ~Hits(Down(command.m)[k], e)

UnderWay ==
  /\ command.way = "none" => command = Resting
  /\ command.way # "none" => command.m \in Numbers
  /\ command.way = "up" => UpUnderWay
  /\ command.way = "down" => DownUnderWay

AllFit ==
  \A n \in Numbers :
    /\ n # command.m => Fits(n, schema)
    /\ command.way # "none" => Fits(n, command.before)

MigrationsInv == MigrationsTypeOK /\ UnderWay /\ AllFit

\* What a migration makes is its own, and so are its guards.
LEMMA PartsOf ==
  ASSUME NEW m \in Numbers
  PROVE  /\ \A k \in DOMAIN Up(m) : Named(Up(m)[k]) \subseteq Parts(m)
         /\ \A e \in Parts(m) : Owner(e) = m /\ e # NoGuard
         /\ Guards(m) \subseteq Parts(m)
         /\ Parts(m) \subseteq AllParts
         /\ \A k \in DOMAIN Up(m) :
              Up(m)[k].guard # NoGuard => IsGuardOf(Up(m)[k].guard, m, k)
                                          /\ Up(m)[k].guard \in Guards(m)
  <1>1. \A k \in DOMAIN Up(m) : Named(Up(m)[k]) \subseteq Parts(m)
    BY DEF Parts
  <1>2. \A k \in DOMAIN Up(m) : StatementIsFirst(m, k)
    BY AllSound DEF UpIsSound
  <1>3. ASSUME NEW e \in Parts(m)
        PROVE  Owner(e) = m /\ e # NoGuard
    <2>1. PICK k \in DOMAIN Up(m) : e \in Named(Up(m)[k])
      BY DEF Parts
    <2>2. Owner(e) = m /\ e[1] = Up(m)[k].table /\ Up(m)[k].table # Self
      BY <1>2, <2>1 DEF StatementIsFirst, StatementIsSound
    <2>3. NoGuard[1] = Self
      BY DEF NoGuard
    <2> QED
      BY <2>2, <2>3
  <1>4. Guards(m) \subseteq Parts(m)
    <2> SUFFICES ASSUME NEW g \in Guards(m)
                 PROVE  g \in Parts(m)
      OBVIOUS
    <2>1. PICK k \in DOMAIN Up(m) : g = Up(m)[k].guard /\ g # NoGuard
      BY DEF Guards
    <2>2. PICK j \in DOMAIN Up(m) : Named(Up(m)[j]) = {g}
      BY <1>2, <2>1 DEF StatementIsFirst
    <2> QED
      BY <2>2, <1>1
  <1>5. Parts(m) \subseteq AllParts
    BY DEF AllParts
  <1> QED
    BY <1>1, <1>3, <1>4, <1>5 DEF IsGuardOf, Guards

\* No two migrations make the same part.
LEMMA Disjoint ==
  ASSUME NEW m \in Numbers, NEW n \in Numbers, m # n
  PROVE  Parts(m) \cap Parts(n) = {}
  BY PartsOf

\* A statement of Up disturbs no other migration.
LEMMA AddsToOthersNothing ==
  ASSUME NEW m \in Numbers, NEW n \in Numbers, m # n,
         NEW k \in DOMAIN Up(m), NEW S, NEW l, NEW c, NEW db,
         FitsIn(n, S, l, c, db)
  PROVE  FitsIn(n, S \cup Named(Up(m)[k]), l, c, db)
  <1>1. \A e \in Named(Up(m)[k]) : e \notin Parts(n)
    BY Disjoint, PartsOf
  <1>2. \A e \in Guards(n) : e \in Parts(n)
    BY PartsOf
  <1>3. \A j \in DOMAIN Up(n) : Named(Up(n)[j]) \subseteq Parts(n)
    BY PartsOf
  <1> QED
    BY <1>1, <1>2, <1>3 DEF FitsIn

\* A Down takes nothing of an earlier migration, and of a later one a part
\* only with the part that guards it (by dropping their table).
LEMMA HitsOfOthers ==
  ASSUME NEW m \in Numbers, NEW n \in Numbers, NEW k \in DOMAIN Down(m)
  PROVE  /\ n < m => \A e \in Parts(n) : ~Hits(Down(m)[k], e)
         /\ n > m => \A j \in DOMAIN Up(n), g \in Guards(n) : IsGuardOf(g, n, j) =>
              \A e \in Named(Up(n)[j]) :
                Hits(Down(m)[k], e) <=> Hits(Down(m)[k], g)
  <1> DEFINE st == Down(m)[k]
  <1>1. \/ st.op = "drop table" /\ \A e : e[1] = st.table => Owner(e) >= m
        \/ st.op # "drop table" /\ \A e \in Named(st) : Owner(e) = m
    BY AllSound DEF DownIsSound
  <1>2. m \in Int /\ n \in Int /\ \A e \in Parts(n) : Owner(e) = n
    BY PartsOf, NineMigrations
  <1> HIDE DEF st
  <1>3. ASSUME n < m, NEW e \in Parts(n)
        PROVE  ~Hits(st, e)
    <2>1. Owner(e) = n /\ ~(n >= m) /\ n # m
      BY <1>2, <1>3
    <2> QED
      BY <1>1, <2>1 DEF Hits
  <1>4. ASSUME n > m, NEW j \in DOMAIN Up(n), NEW g \in Guards(n),
               IsGuardOf(g, n, j), NEW e \in Named(Up(n)[j])
        PROVE  Hits(st, e) <=> Hits(st, g)
    <2>1. e[1] = Up(n)[j].table /\ g[1] = Up(n)[j].table
      BY <1>4, AllSound DEF UpIsSound, StatementIsFirst, StatementIsSound, IsGuardOf
    <2>2. Owner(e) = n /\ Owner(g) = n /\ n # m
      BY <1>2, <1>4, PartsOf
    <2> QED
      BY <1>1, <2>1, <2>2 DEF Hits
  <1> QED
    BY <1>3, <1>4 DEF st

\* A statement of the Down of the last migration logged disturbs none before it,
\* and takes of a later one a block as a whole or not at all.
LEMMA DropsOfOthersNothing ==
  ASSUME NEW m \in Numbers, NEW n \in Numbers, m # n,
         NEW k \in DOMAIN Down(m), NEW S, NEW c, NEW db,
         FitsIn(n, S, m, c, db)
  PROVE  FitsIn(n, {e \in S : ~Hits(Down(m)[k], e)}, m, c, db)
  <1> DEFINE T == {e \in S : ~Hits(Down(m)[k], e)}
  <1> SUFFICES FitsIn(n, T, m, c, db)
    OBVIOUS
  <1>1. \A e \in Guards(n) : e \in Parts(n)
    BY PartsOf
  <1>2. m \in Int /\ n \in Int
    BY NineMigrations
  <1>3. CASE n < m
    <2>1. \A e \in Parts(n) : e \in S => e \in T
      BY <1>3, HitsOfOthers
    <2>2. n <= m
      BY <1>2, <1>3
    <2> HIDE DEF T
    <2> QED
      BY <1>1, <2>1, <2>2 DEF FitsIn
  <1>4. CASE n > m
    <2>1. \A j \in DOMAIN Up(n), g \in Guards(n) : IsGuardOf(g, n, j) =>
            \A e \in Named(Up(n)[j]) : Hits(Down(m)[k], e) <=> Hits(Down(m)[k], g)
      BY <1>4, HitsOfOthers
    <2>2. <<n, "up">> \notin c => Parts(n) \cap T = {}
      BY <1>2, <1>4 DEF FitsIn
    <2>3. ASSUME NEW j \in DOMAIN Up(n), NEW g \in Guards(n), IsGuardOf(g, n, j)
          PROVE  /\ Named(Up(n)[j]) \cap T # {} => g \in T
                 /\ db = "postgres" /\ g \in T => Named(Up(n)[j]) \subseteq T
      <3>1. /\ Named(Up(n)[j]) \cap S # {} => g \in S
            /\ db = "postgres" /\ g \in S => Named(Up(n)[j]) \subseteq S
        BY <1>2, <1>4, <2>3 DEF FitsIn
      <3>2. \A e \in Named(Up(n)[j]) : Hits(Down(m)[k], e) <=> Hits(Down(m)[k], g)
        BY <2>1, <2>3
      <3> QED
        BY <3>1, <3>2
    <2>4. ~(n <= m)
      BY <1>2, <1>4
    <2> HIDE DEF T
    <2> QED
      BY <2>2, <2>3, <2>4 DEF FitsIn
  <1> QED
    BY <1>2, <1>3, <1>4

\* Cutting one migration short, or having done so, says nothing of another.
LEMMA CutOfOthers ==
  ASSUME NEW m \in Numbers, NEW n \in Numbers, m # n, NEW way,
         NEW S, NEW l, NEW c, NEW db, FitsIn(n, S, l, c, db)
  PROVE  FitsIn(n, S, l, c \cup {<<m, way>>}, db)
  <1>1. <<n, "up">> # <<m, way>> /\ <<n, "down">> # <<m, way>>
    OBVIOUS
  <1> QED
    BY <1>1 DEF FitsIn

\* Logging a migration, or striking it out, says nothing of another.
LEMMA LogOfOthers ==
  ASSUME NEW m \in Numbers, NEW n \in Numbers, m # n,
         NEW S, NEW c, NEW db
  PROVE  /\ FitsIn(n, S, m - 1, c, db) => FitsIn(n, S, m, c, db)
         /\ FitsIn(n, S, m, c, db)
              => FitsIn(n, S, m - 1, {x \in c : x[1] # m}, db)
  <1>1. m \in Int /\ n \in Int /\ (n <= m <=> n <= m - 1)
    BY NineMigrations
  <1> DEFINE d == {x \in c : x[1] # m}
  <1>2. /\ <<n, "up">> \in c <=> <<n, "up">> \in d
        /\ <<n, "down">> \in c <=> <<n, "down">> \in d
    OBVIOUS
  <1> HIDE DEF d
  <1>3. FitsIn(n, S, m - 1, c, db) => FitsIn(n, S, m, c, db)
    BY <1>1 DEF FitsIn
  <1>4. FitsIn(n, S, m, c, db) => FitsIn(n, S, m - 1, d, db)
    BY <1>1, <1>2 DEF FitsIn
  <1> QED
    BY <1>3, <1>4 DEF d
(***************************************************************************)
(* The migration under way, when its command ends.                         *)
(***************************************************************************)
LEMMA FitsBefore ==
  ASSUME MigrationsInv, command.way # "none"
  PROVE  /\ command.m \in Numbers /\ command.m \in Int
         /\ FitsIn(command.m, command.before, logged, cut, connection)
         /\ NoGuard \notin command.before /\ NoGuard \notin schema
  <1>1. command.m \in Numbers /\ command.m \in Int
    BY NineMigrations DEF MigrationsInv, UnderWay
  <1>2. Fits(command.m, command.before)
    BY <1>1 DEF MigrationsInv, AllFit
  <1>3. command.before \subseteq AllParts /\ schema \subseteq AllParts
    BY DEF MigrationsInv, MigrationsTypeOK, AllParts, Numbers
  <1>4. NoGuard \notin AllParts
    BY PartsOf DEF AllParts
  <1> QED
    BY <1>1, <1>2, <1>3, <1>4 DEF Fits

\* An Up that has come to its end left its migration applied, but for what an
\* earlier cut had left out.
LEMMA UpDone ==
  ASSUME MigrationsInv, command.way = "up", command.left = {}
  PROVE  FitsIn(command.m, schema, command.m, cut, connection)
  <1> DEFINE m == command.m
             B == command.before
             S == schema
  <1>1. /\ m \in Numbers /\ m \in Int /\ m = logged + 1 /\ logged \in Int
        /\ FitsIn(m, B, logged, cut, connection) /\ NoGuard \notin B
    BY FitsBefore, NineMigrations
       DEF MigrationsInv, UnderWay, UpUnderWay, MigrationsTypeOK
  <1>2. /\ B \subseteq S
        /\ \A k \in DOMAIN Up(m) : Up(m)[k].guard \in B \/ Named(Up(m)[k]) \subseteq S
    BY DEF MigrationsInv, UnderWay, UpUnderWay
  <1> HIDE DEF m, B, S
  <1>3. /\ <<m, "up">> \notin cut => Parts(m) \cap B = {}
        /\ \A k \in DOMAIN Up(m), g \in Guards(m) : IsGuardOf(g, m, k) =>
             (connection = "postgres" /\ g \in B => Named(Up(m)[k]) \subseteq B)
    BY <1>1 DEF FitsIn
  <1>4. ASSUME NEW g \in Guards(m)
        PROVE  g \in S
    <2>1. PICK k \in DOMAIN Up(m) : g = Up(m)[k].guard /\ g # NoGuard
      BY DEF Guards
    <2>2. PICK j \in DOMAIN Up(m) : g = Up(m)[j].guard /\ Named(Up(m)[j]) = {g}
      BY <1>1, <2>1, GuardFirst
    <2> QED
      BY <1>2, <2>2
  <1>5. ASSUME connection = "postgres" \/ <<m, "up">> \notin cut
        PROVE  Parts(m) \subseteq S
    <2> SUFFICES ASSUME NEW k \in DOMAIN Up(m)
                 PROVE  Named(Up(m)[k]) \subseteq S
      BY DEF Parts
    <2>1. CASE Up(m)[k].guard \in B
      <3>1. IsGuardOf(Up(m)[k].guard, m, k) /\ Up(m)[k].guard \in Guards(m)
        BY <1>1, <2>1, PartsOf
      <3>2. Up(m)[k].guard \in Parts(m)
        BY <1>1, <3>1, PartsOf
      <3>3. connection = "postgres"
        BY <1>3, <1>5, <2>1, <3>2
      <3> QED
        BY <1>2, <1>3, <2>1, <3>1, <3>3
    <2>2. CASE Up(m)[k].guard \notin B
      BY <1>2, <2>2
    <2> QED
      BY <2>1, <2>2
  <1>6. FitsIn(m, S, m, cut, connection)
    BY <1>1, <1>4, <1>5 DEF FitsIn
  <1> QED
    BY <1>6 DEF m, S

\* An Up cut short left its migration as one not logged may be.
LEMMA UpStopped ==
  ASSUME MigrationsInv, command.way = "up",
         connection = "postgres" => command.left = {}
  PROVE  FitsIn(command.m, schema, logged, cut \cup {<<command.m, "up">>},
                connection)
  <1> DEFINE m == command.m
             B == command.before
             S == schema
             L == command.left
  <1>1. /\ m \in Numbers /\ m \in Int /\ m = logged + 1 /\ logged \in Int
        /\ FitsIn(m, B, logged, cut, connection) /\ NoGuard \notin B
    BY FitsBefore, NineMigrations
       DEF MigrationsInv, UnderWay, UpUnderWay, MigrationsTypeOK
  <1>2. /\ B \subseteq S
        /\ \A k \in DOMAIN Up(m) \ L :
             \/ Up(m)[k].guard \in B
             \/ Named(Up(m)[k]) \subseteq S /\ \A j \in L : k < j
        /\ \A k \in L : Up(m)[k].guard # NoGuard => Named(Up(m)[k]) \cap S = {}
        /\ L \subseteq DOMAIN Up(m)
        /\ connection = "postgres" => L = {}
    BY DEF MigrationsInv, UnderWay, UpUnderWay
  <1> HIDE DEF m, B, S, L
  <1>3. \A k \in DOMAIN Up(m), g \in Guards(m) : IsGuardOf(g, m, k) =>
          (connection = "postgres" /\ g \in B => Named(Up(m)[k]) \subseteq B)
    BY <1>1 DEF FitsIn
  <1>4. ASSUME NEW k \in DOMAIN Up(m), NEW g \in Guards(m), IsGuardOf(g, m, k)
        PROVE  /\ Named(Up(m)[k]) \cap S # {} => g \in S
               /\ connection = "postgres" /\ g \in S => Named(Up(m)[k]) \subseteq S
    <2>1. g = Up(m)[k].guard /\ g # NoGuard
      BY <1>4 DEF IsGuardOf
    <2>2. ASSUME Named(Up(m)[k]) \cap S # {}, g \notin B
          PROVE  g \in S
      <3>1. k \notin L /\ \A j \in L : k < j
        BY <1>2, <2>1, <2>2
      <3>2. PICK j \in DOMAIN Up(m) : /\ j <= k /\ g = Up(m)[j].guard
                                      /\ Named(Up(m)[j]) = {g}
        BY <1>1, <2>1, GuardFirst
      <3>3. j \in Nat /\ k \in Nat
        BY <1>1, <2>1, GuardFirst
      <3>4. j \notin L
        BY <3>1, <3>2, <3>3
      <3> QED
        BY <1>2, <2>2, <3>2, <3>4
    <2>3. ASSUME connection = "postgres"
          PROVE  Named(Up(m)[k]) \subseteq S
      BY <1>2, <1>3, <1>4, <2>1, <2>3
    <2> QED
      BY <1>2, <2>2, <2>3
  <1>5. FitsIn(m, S, logged, cut \cup {<<m, "up">>}, connection)
    BY <1>1, <1>4 DEF FitsIn
  <1> QED
    BY <1>5 DEF m, S

\* A Down that has come to its end left nothing of its migration.
LEMMA DownDone ==
  ASSUME MigrationsInv, command.way = "down", command.left = {}
  PROVE  FitsIn(command.m, schema, command.m - 1,
                {x \in cut : x[1] # command.m}, connection)
  <1> DEFINE m == command.m
             S == schema
             d == {x \in cut : x[1] # m}
  <1>1. m \in Numbers /\ m \in Int
    BY FitsBefore
  <1>2. \A k \in DOMAIN Down(m), e \in S : ~Hits(Down(m)[k], e)
    BY DEF MigrationsInv, UnderWay, DownUnderWay
  <1> HIDE DEF m, S, d
  <1>3. Parts(m) \cap S = {}
    BY <1>1, <1>2, AllSound DEF DownIsSound
  <1>4. /\ \A g \in Guards(m) : g \in Parts(m)
        /\ \A k \in DOMAIN Up(m) : Named(Up(m)[k]) \subseteq Parts(m)
    BY <1>1, PartsOf
  <1>5. FitsIn(m, S, m - 1, d, connection)
    BY <1>1, <1>3, <1>4 DEF FitsIn
  <1> QED
    BY <1>5 DEF m, S, d

\* A Down cut short is remembered, and nothing is asked of its migration.
LEMMA DownStopped ==
  ASSUME MigrationsInv, command.way = "down"
  PROVE  FitsIn(command.m, schema, logged, cut \cup {<<command.m, "down">>},
                connection)
  <1>1. command.m = logged /\ logged \in Int
    BY FitsBefore DEF MigrationsInv, UnderWay, DownUnderWay
  <1> QED
    BY <1>1 DEF FitsIn
(***************************************************************************)
(* Every step keeps the invariant.                                         *)
(***************************************************************************)
LEMMA AfterUp ==
  ASSUME NEW m \in Numbers, NEW k \in DOMAIN Up(m)
  PROVE  After(Up(m)[k]) = schema \cup Named(Up(m)[k])
  <1>1. Up(m)[k].op \in {"add", "allow null"}
    BY AllSound DEF UpIsSound, StatementIsFirst, StatementIsSound
  <1> QED
    BY <1>1 DEF After

\* A statement of a Down removes what it hits, and nothing else.
LEMMA AfterDown ==
  ASSUME NEW m \in Numbers, NEW k \in DOMAIN Down(m)
  PROVE  After(Down(m)[k]) = {e \in schema : ~Hits(Down(m)[k], e)}
  <1> DEFINE st == Down(m)[k]
  <1>1. st.op \in {"drop table", "drop columns", "forbid null"}
    BY AllSound DEF DownIsSound
  <1> HIDE DEF st
  <1>2. CASE st.op = "drop table"
    BY <1>2 DEF After, Hits, st
  <1>3. CASE st.op \in {"drop columns", "forbid null"}
    BY <1>3 DEF After, Hits, st
  <1> QED
    BY <1>1, <1>2, <1>3

\* The types, with the number of migrations filled in.
LEMMA CommandTyped ==
  ASSUME MigrationsTypeOK
  PROVE  /\ command \in [m : 0 .. 9, way : {"none", "up", "down"},
                         left : SUBSET Nat, before : SUBSET AllParts]
         /\ logged \in 0 .. 9 /\ schema \subseteq AllParts
         /\ cut \subseteq Numbers \X {"up", "down"}
         /\ connection \in Connections
         /\ used \in [interrupts : 0 .. MaxInterrupts, rollbacks : 0 .. MaxRollbacks]
  BY NineMigrations DEF MigrationsTypeOK, AllParts, Numbers

\* And back.
LEMMA TypedCommand ==
  ASSUME /\ command \in [m : 0 .. 9, way : {"none", "up", "down"},
                         left : SUBSET Nat, before : SUBSET AllParts]
         /\ logged \in 0 .. 9 /\ schema \subseteq AllParts
         /\ cut \subseteq Numbers \X {"up", "down"}
         /\ connection \in Connections
         /\ used \in [interrupts : 0 .. MaxInterrupts, rollbacks : 0 .. MaxRollbacks]
  PROVE  MigrationsTypeOK
  BY NineMigrations DEF MigrationsTypeOK, AllParts, Numbers

\* migrate takes the next migration up: its guards are looked at.
LEMMA BeginUpKeeps ==
  ASSUME MigrationsInv, BeginUp
  PROVE  MigrationsInv'
  <1> DEFINE m == logged + 1
             L == {k \in DOMAIN Up(m) : Up(m)[k].guard \notin schema}
  <1>1. /\ command = Resting /\ logged < 9
        /\ command' = [m |-> m, way |-> "up", left |-> L, before |-> schema]
        /\ UNCHANGED <<connection, schema, logged, cut, used>>
    BY NineMigrations DEF BeginUp, Start, AtRest, Up
  <1>2. m \in Numbers /\ m \in 0 .. 9 /\ logged \in 0 .. 9
    BY <1>1, CommandTyped, NineMigrations DEF MigrationsInv
  <1>3. L \subseteq DOMAIN Up(m) /\ L \subseteq Nat
    BY <1>2, AllSound DEF UpIsSound, StatementIsFirst
  <1>4. /\ command'.m = m /\ command'.way = "up" /\ command'.left = L
        /\ command'.before = schema /\ schema' = schema /\ logged' = logged
        /\ cut' = cut /\ connection' = connection
    BY <1>1
  <1>5. /\ \A n \in Numbers : FitsIn(n, schema, logged, cut, connection)
    BY <1>1, NineMigrations DEF MigrationsInv, AllFit, Fits, Resting
  <1>6. ASSUME NEW k \in DOMAIN Up(m), Up(m)[k].guard # NoGuard,
               Up(m)[k].guard \notin schema
        PROVE  Named(Up(m)[k]) \cap schema = {}
    <2>1. /\ Up(m)[k].guard \in Guards(m)
          /\ IsGuardOf(Up(m)[k].guard, m, k)
      BY <1>2, <1>6, PartsOf
    <2>2. ~(m <= logged)
      BY <1>2
    <2> QED
      BY <1>2, <1>5, <1>6, <2>1, <2>2 DEF FitsIn
  <1>7. MigrationsTypeOK'
    <2>1. command' \in [m : 0 .. 9, way : {"none", "up", "down"},
                        left : SUBSET Nat, before : SUBSET AllParts]
      BY <1>1, <1>2, <1>3, CommandTyped DEF MigrationsInv
    <2> QED
      BY <1>1, <2>1, NineMigrations
         DEF MigrationsInv, MigrationsTypeOK, AllParts, Numbers
  <1> HIDE DEF L, m
  <1>8. UnderWay'
    <2>1. UpUnderWay'
      BY <1>3, <1>4, <1>6 DEF UpUnderWay, m, L
    <2> QED
      BY <1>2, <1>4, <2>1 DEF UnderWay
  <1>9. AllFit'
    BY <1>4, <1>5 DEF AllFit, Fits
  <1> QED
    BY <1>7, <1>8, <1>9 DEF MigrationsInv

\* rollback takes the last one down.
LEMMA BeginDownKeeps ==
  ASSUME MigrationsInv, BeginDown
  PROVE  MigrationsInv'
  <1> DEFINE m == logged
             L == DOMAIN Down(m)
  <1>1. /\ command = Resting /\ logged > 0
        /\ command' = [m |-> m, way |-> "down", left |-> L, before |-> schema]
        /\ used' = [used EXCEPT !.rollbacks = @ + 1]
        /\ used.rollbacks < MaxRollbacks
        /\ UNCHANGED <<connection, schema, logged, cut>>
    BY NineMigrations DEF BeginDown, Start, AtRest, Down
  <1>2. m \in Numbers /\ m \in 0 .. 9
    BY <1>1, CommandTyped, NineMigrations DEF MigrationsInv
  <1>3. L \subseteq Nat
    BY <1>2, DownNumbers
  <1>4. /\ command'.m = m /\ command'.way = "down" /\ command'.left = L
        /\ command'.before = schema /\ schema' = schema /\ logged' = logged
        /\ cut' = cut /\ connection' = connection
    BY <1>1
  <1>5. /\ \A n \in Numbers : FitsIn(n, schema, logged, cut, connection)
    BY <1>1, NineMigrations DEF MigrationsInv, AllFit, Fits, Resting
  <1>6. MigrationsTypeOK'
    <2>1. command' \in [m : 0 .. 9, way : {"none", "up", "down"},
                        left : SUBSET Nat, before : SUBSET AllParts]
      BY <1>1, <1>2, <1>3, CommandTyped DEF MigrationsInv
    <2>2. used' \in [interrupts : 0 .. MaxInterrupts, rollbacks : 0 .. MaxRollbacks]
      BY <1>1, CommandTyped, MigrationsAssumption DEF MigrationsInv
    <2> QED
      BY <1>1, <2>1, <2>2, NineMigrations
         DEF MigrationsInv, MigrationsTypeOK, AllParts, Numbers
  <1> HIDE DEF L, m
  <1>7. UnderWay'
    <2>1. DownUnderWay'
      BY <1>4 DEF DownUnderWay, m, L
    <2> QED
      BY <1>2, <1>4, <2>1 DEF UnderWay
  <1>8. AllFit'
    BY <1>4, <1>5 DEF AllFit, Fits
  <1> QED
    BY <1>6, <1>7, <1>8 DEF MigrationsInv

\* One statement: of an Up it adds what was not there, of a Down it takes away
\* what is its own.
LEMMA ExecuteKeeps ==
  ASSUME MigrationsInv, NEW nulls, Execute(nulls)
  PROVE  MigrationsInv'
  <1> DEFINE m == command.m
             B == command.before
             L == command.left
  <1>1. PICK k \in L :
          /\ \A j \in L : k <= j
          /\ schema' = After(Statement(k))
          /\ command' = [command EXCEPT !.left = @ \ {k}]
          /\ UNCHANGED <<connection, logged, cut, used>>
    BY DEF Execute, IsDue
  <1>2. command \in [m : 0 .. 9, way : {"none", "up", "down"},
                     left : SUBSET Nat, before : SUBSET AllParts]
    BY CommandTyped DEF MigrationsInv
  <1>3. /\ command'.m = m /\ command'.way = command.way
        /\ command'.left = L \ {k} /\ command'.before = B
        /\ logged' = logged /\ cut' = cut /\ connection' = connection
    BY <1>1, <1>2
  <1>4. command.way \in {"up", "down"}
    <2>1. command # Resting
      BY <1>1 DEF Resting
    <2> QED
      BY <1>2, <2>1 DEF MigrationsInv, UnderWay
  <1>5. m \in Numbers /\ m \in Int
    BY <1>4, FitsBefore
  <1>6. \A n \in Numbers : /\ n # m => FitsIn(n, schema, logged, cut, connection)
                           /\ FitsIn(n, B, logged, cut, connection)
    BY <1>4 DEF MigrationsInv, AllFit, Fits
  <1>7. command' \in [m : 0 .. 9, way : {"none", "up", "down"},
                      left : SUBSET Nat, before : SUBSET AllParts]
    BY <1>1, <1>2
  <1>8. ASSUME schema' \subseteq AllParts, UnderWay',
               \A n \in Numbers : n # m => FitsIn(n, schema', logged, cut, connection)
        PROVE  MigrationsInv'
    <2>1. MigrationsTypeOK'
      BY <1>1, <1>7, <1>8, NineMigrations
         DEF MigrationsInv, MigrationsTypeOK, AllParts, Numbers
    <2>2. AllFit'
      BY <1>3, <1>6, <1>8 DEF AllFit, Fits
    <2> QED
      BY <1>8, <2>1, <2>2 DEF MigrationsInv
  <1>9. CASE command.way = "up"
    <2>1. /\ m = logged + 1 /\ L \subseteq DOMAIN Up(m) /\ B \subseteq schema
          /\ \A e \in schema \ B : \E j \in DOMAIN Up(m) \ L : e \in Named(Up(m)[j])
          /\ \A j \in DOMAIN Up(m) \ L :
               \/ Up(m)[j].guard \in B
               \/ /\ Named(Up(m)[j]) \subseteq schema
                  /\ \A i \in L : j < i
          /\ \A j \in L : /\ Up(m)[j].guard \notin B
                          /\ Up(m)[j].guard # NoGuard => Named(Up(m)[j]) \cap schema = {}
      BY <1>9 DEF MigrationsInv, UnderWay, UpUnderWay
    <2>2. schema' = schema \cup Named(Up(m)[k])
      BY <1>1, <1>5, <1>9, <2>1, AfterUp DEF Statement, Up
    <2>3. schema' \subseteq AllParts
      BY <1>1, <1>5, <2>1, <2>2, PartsOf, CommandTyped DEF MigrationsInv
    <2>4. \A n \in Numbers : n # m => FitsIn(n, schema', logged, cut, connection)
      BY <1>1, <1>5, <1>6, <2>1, <2>2, AddsToOthersNothing
    <2>5. \A j \in L \ {k} : j \in Int /\ k \in Int /\ k < j
      BY <1>1, <1>2
    <2>6. \A j \in L \ {k} : Named(Up(m)[j]) \cap Named(Up(m)[k]) = {}
      BY <1>1, <1>5, <2>1, AllSound DEF UpIsSound, StatementIsFirst
    <2> HIDE DEF m, B, L
    <2>7. /\ L \ {k} \subseteq DOMAIN Up(m)
          /\ B \subseteq schema'
          /\ \A e \in schema' \ B :
               \E j \in DOMAIN Up(m) \ (L \ {k}) : e \in Named(Up(m)[j])
          /\ \A j \in DOMAIN Up(m) \ (L \ {k}) :
               \/ Up(m)[j].guard \in B
               \/ /\ Named(Up(m)[j]) \subseteq schema'
                  /\ \A i \in L \ {k} : j < i
          /\ \A j \in L \ {k} :
               /\ Up(m)[j].guard \notin B
               /\ Up(m)[j].guard # NoGuard => Named(Up(m)[j]) \cap schema' = {}
      <3>1. \A e \in schema' \ B :
               \E j \in DOMAIN Up(m) \ (L \ {k}) : e \in Named(Up(m)[j])
        BY <1>1, <2>1, <2>2
      <3>2. ASSUME NEW j \in DOMAIN Up(m) \ (L \ {k})
            PROVE  \/ Up(m)[j].guard \in B
                   \/ /\ Named(Up(m)[j]) \subseteq schema'
                      /\ \A i \in L \ {k} : j < i
        <4>1. CASE j = k
          BY <2>2, <2>5, <4>1
        <4>2. CASE j # k
          BY <2>1, <2>2, <4>2
        <4> QED
          BY <4>1, <4>2
      <3>3. \A j \in L \ {k} :
               /\ Up(m)[j].guard \notin B
               /\ Up(m)[j].guard # NoGuard => Named(Up(m)[j]) \cap schema' = {}
        BY <2>1, <2>2, <2>6
      <3> QED
        BY <2>1, <2>2, <3>1, <3>2, <3>3
    <2>8. UpUnderWay'
      BY <1>3, <2>1, <2>7 DEF UpUnderWay
    <2>9. UnderWay'
      BY <1>3, <1>5, <1>9, <2>8 DEF UnderWay
    <2> QED
      BY <1>8, <2>3, <2>4, <2>9
  <1>10. CASE command.way = "down"
    <2>1. /\ m = logged /\ L \subseteq DOMAIN Down(m) /\ schema \subseteq B
          /\ \A j \in DOMAIN Down(m) \ L, e \in schema : ~Hits(Down(m)[j], e)
      BY <1>10 DEF MigrationsInv, UnderWay, DownUnderWay
    <2>2. schema' = {e \in schema : ~Hits(Down(m)[k], e)}
      BY <1>1, <1>5, <1>10, <2>1, AfterDown DEF Statement, Down
    <2>3. schema' \subseteq AllParts
      BY <2>2, CommandTyped DEF MigrationsInv
    <2>4. \A n \in Numbers : n # m => FitsIn(n, schema', logged, cut, connection)
      BY <1>1, <1>5, <1>6, <2>1, <2>2, DropsOfOthersNothing
    <2> HIDE DEF m, B, L
    <2>5. /\ L \ {k} \subseteq DOMAIN Down(m) /\ schema' \subseteq B
          /\ \A j \in DOMAIN Down(m) \ (L \ {k}), e \in schema' : ~Hits(Down(m)[j], e)
      BY <2>1, <2>2
    <2>6. DownUnderWay'
      BY <1>3, <2>1, <2>5 DEF DownUnderWay
    <2>7. UnderWay'
      BY <1>3, <1>5, <1>10, <2>6 DEF UnderWay
    <2> QED
      BY <1>8, <2>3, <2>4, <2>7
  <1> QED
    BY <1>4, <1>9, <1>10

\* A command that ends early leaves every migration as it may be found.
LEMMA StopKeeps ==
  ASSUME MigrationsInv, ~AtRest, Stop, connection' = connection, logged' = logged,
         used' \in [interrupts : 0 .. MaxInterrupts, rollbacks : 0 .. MaxRollbacks]
  PROVE  MigrationsInv'
  <1> DEFINE m == command.m
             B == command.before
  <1>1. /\ command' = Resting
        /\ schema' = IF connection = "postgres" /\ command.left # {} THEN B ELSE schema
        /\ cut' = IF schema' = B THEN cut ELSE cut \cup {<<m, command.way>>}
    BY DEF Stop
  <1>2. command \in [m : 0 .. 9, way : {"none", "up", "down"},
                     left : SUBSET Nat, before : SUBSET AllParts]
    BY CommandTyped DEF MigrationsInv
  <1>3. command.way \in {"up", "down"}
    BY <1>2 DEF MigrationsInv, UnderWay, AtRest
  <1>4. m \in Numbers /\ m \in Int
    BY <1>3, FitsBefore
  <1>5. \A n \in Numbers : /\ n # m => FitsIn(n, schema, logged, cut, connection)
                           /\ FitsIn(n, B, logged, cut, connection)
    BY <1>3 DEF MigrationsInv, AllFit, Fits
  <1>6. MigrationsTypeOK'
    <2>1. command' \in [m : 0 .. 9, way : {"none", "up", "down"},
                        left : SUBSET Nat, before : SUBSET AllParts]
      BY <1>1 DEF Resting
    <2>2. schema' \subseteq AllParts
      BY <1>1, <1>2, CommandTyped DEF MigrationsInv
    <2>3. cut' \subseteq Numbers \X {"up", "down"}
      BY <1>1, <1>3, <1>4, CommandTyped DEF MigrationsInv
    <2> QED
      BY <2>1, <2>2, <2>3, NineMigrations
         DEF MigrationsInv, MigrationsTypeOK, AllParts, Numbers
  <1>7. /\ command'.m = 0 /\ command'.way = "none" /\ 0 \notin Numbers
    BY <1>1, NineMigrations DEF Resting
  <1>8. UnderWay'
    BY <1>1, <1>7 DEF UnderWay, Resting
  <1>9. \A n \in Numbers : FitsIn(n, schema', logged, cut', connection)
    <2>1. CASE schema' = B
      BY <1>1, <1>5, <2>1
    <2>2. CASE schema' # B
      <3>1. /\ schema' = schema /\ cut' = cut \cup {<<m, command.way>>}
            /\ connection = "postgres" => command.left = {}
        BY <1>1, <2>2
      <3>2. \A n \in Numbers : n # m => FitsIn(n, schema', logged, cut', connection)
        BY <1>4, <1>5, <3>1, CutOfOthers
      <3>3. FitsIn(m, schema', logged, cut', connection)
        BY <1>3, <3>1, UpStopped, DownStopped
      <3> QED
        BY <3>2, <3>3
    <2> QED
      BY <2>1, <2>2
  <1>10. AllFit'
    BY <1>7, <1>9 DEF AllFit, Fits
  <1> QED
    BY <1>6, <1>8, <1>10 DEF MigrationsInv

\* A command that ends well is logged or struck out.
LEMMA LogKeeps ==
  ASSUME MigrationsInv, Log
  PROVE  MigrationsInv'
  <1> DEFINE m == command.m
  <1>1. /\ ~AtRest /\ command.left = {}
        /\ logged' = IF command.way = "up" THEN m ELSE m - 1
        /\ cut' = {c \in cut : c[1] = m => command.way = "up"}
        /\ command' = Resting
        /\ UNCHANGED <<connection, schema, used>>
    BY DEF Log
  <1>2. command \in [m : 0 .. 9, way : {"none", "up", "down"},
                     left : SUBSET Nat, before : SUBSET AllParts]
    BY CommandTyped DEF MigrationsInv
  <1>3. command.way \in {"up", "down"}
    BY <1>1, <1>2 DEF MigrationsInv, UnderWay, AtRest
  <1>4. m \in Numbers /\ m \in Int
    BY <1>3, FitsBefore
  <1>5. \A n \in Numbers : n # m => FitsIn(n, schema, logged, cut, connection)
    BY DEF MigrationsInv, AllFit, Fits
  <1>6. MigrationsTypeOK'
    <2>1. command' \in [m : 0 .. 9, way : {"none", "up", "down"},
                        left : SUBSET Nat, before : SUBSET AllParts]
      BY <1>1 DEF Resting
    <2>2. logged' \in 0 .. 9
      BY <1>1, <1>4, NineMigrations
    <2>3. cut' \subseteq Numbers \X {"up", "down"}
      BY <1>1, CommandTyped DEF MigrationsInv
    <2> QED
      BY <1>1, <2>1, <2>2, <2>3, NineMigrations
         DEF MigrationsInv, MigrationsTypeOK, AllParts, Numbers
  <1>7. /\ command'.m = 0 /\ command'.way = "none" /\ 0 \notin Numbers
    BY <1>1, NineMigrations DEF Resting
  <1>8. UnderWay'
    BY <1>1, <1>7 DEF UnderWay, Resting
  <1>9. \A n \in Numbers : FitsIn(n, schema, logged', cut', connection)
    <2>1. CASE command.way = "up"
      <3>1. logged' = m /\ cut' = cut /\ logged = m - 1
        BY <1>1, <1>4, <2>1, CommandTyped DEF MigrationsInv, UnderWay, UpUnderWay
      <3>2. FitsIn(m, schema, m, cut, connection)
        BY <1>1, <2>1, UpDone
      <3> QED
        BY <1>4, <1>5, <3>1, <3>2, LogOfOthers
    <2>2. CASE command.way = "down"
      <3>1. logged' = m - 1 /\ cut' = {c \in cut : c[1] # m} /\ logged = m
        BY <1>1, <1>4, <2>2 DEF MigrationsInv, UnderWay, DownUnderWay
      <3>2. FitsIn(m, schema, m - 1, {c \in cut : c[1] # m}, connection)
        BY <1>1, <2>2, DownDone
      <3> QED
        BY <1>4, <1>5, <3>1, <3>2, LogOfOthers
    <2> QED
      BY <1>3, <2>1, <2>2
  <1>10. AllFit'
    BY <1>1, <1>7, <1>9 DEF AllFit, Fits
  <1> QED
    BY <1>6, <1>8, <1>10 DEF MigrationsInv

\* A database deployed at any version fits its log.
LEMMA MigrateInitFits ==
  ASSUME MigrateInit
  PROVE  MigrationsInv
  <1>1. /\ logged \in 0 .. 9 /\ connection \in Connections
        /\ schema = UNION {Parts(m) : m \in 1 .. logged}
        /\ command = Resting /\ cut = {}
        /\ used = [interrupts |-> 0, rollbacks |-> 0]
    BY MigrationsAssumption, NineMigrations DEF MigrateInit
  <1>2. 1 .. logged \subseteq Numbers
    BY <1>1, NineMigrations
  <1>3. MigrationsTypeOK
    <2>1. command \in [m : 0 .. 9, way : {"none", "up", "down"},
                       left : SUBSET Nat, before : SUBSET AllParts]
      BY <1>1 DEF Resting
    <2>2. schema \subseteq AllParts
      BY <1>1, <1>2 DEF AllParts
    <2>3. used \in [interrupts : 0 .. MaxInterrupts, rollbacks : 0 .. MaxRollbacks]
      BY <1>1, MigrationsAssumption
    <2> QED
      BY <1>1, <2>1, <2>2, <2>3, TypedCommand
  <1>4. command.m = 0 /\ command.way = "none" /\ 0 \notin Numbers
    BY <1>1, NineMigrations DEF Resting
  <1>5. UnderWay
    BY <1>1, <1>4 DEF UnderWay, Resting
  <1>6. ASSUME NEW n \in Numbers
        PROVE  FitsIn(n, schema, logged, cut, connection)
    <2>1. n \in Int /\ n >= 1 /\ logged \in Int
      BY <1>1, NineMigrations
    <2>2. CASE n <= logged
      <3>1. Parts(n) \subseteq schema
        BY <1>1, <2>1, <2>2
      <3> QED
        BY <2>2, <3>1, PartsOf DEF FitsIn
    <2>3. CASE ~(n <= logged)
      <3>1. Parts(n) \cap schema = {}
        BY <1>1, <1>2, <2>1, <2>3, Disjoint
      <3>2. /\ \A g \in Guards(n) : g \in Parts(n)
            /\ \A k \in DOMAIN Up(n) : Named(Up(n)[k]) \subseteq Parts(n)
        BY PartsOf
      <3> QED
        BY <2>3, <3>1, <3>2 DEF FitsIn
    <2> QED
      BY <2>2, <2>3
  <1> QED
    BY <1>3, <1>4, <1>5, <1>6 DEF MigrationsInv, AllFit, Fits

\* Every step of the runner.
LEMMA MigrateKeeps ==
  ASSUME MigrationsInv, NEW nulls, Migrate(nulls)
  PROVE  MigrationsInv'
  <1>1. used \in [interrupts : 0 .. MaxInterrupts, rollbacks : 0 .. MaxRollbacks]
    BY CommandTyped DEF MigrationsInv
  <1>2. ASSUME Refuse(nulls)
        PROVE  MigrationsInv'
    <2>1. ~AtRest
      BY <1>2 DEF Refuse, AtRest, Resting
    <2> QED
      BY <1>1, <1>2, <2>1, StopKeeps DEF Refuse
  <1>3. ASSUME Interrupt
        PROVE  MigrationsInv'
    <2>1. used' \in [interrupts : 0 .. MaxInterrupts, rollbacks : 0 .. MaxRollbacks]
      BY <1>1, <1>3, MigrationsAssumption DEF Interrupt
    <2> QED
      BY <1>3, <2>1, StopKeeps DEF Interrupt
  <1> QED
    BY <1>2, <1>3, BeginUpKeeps, BeginDownKeeps, ExecuteKeeps, LogKeeps DEF Migrate

\* Nothing is run.
LEMMA RestKeeps ==
  ASSUME MigrationsInv, UNCHANGED migrating
  PROVE  MigrationsInv'
  BY DEF MigrationsInv, MigrationsTypeOK, UnderWay, UpUnderWay, DownUnderWay,
     AllFit, Fits, migrating

(***************************************************************************)
(* What follows from the invariant.                                        *)
(***************************************************************************)
LEMMA SettledFits ==
  ASSUME MigrationsInv, NEW n \in Numbers, Settled(n)
  PROVE  FitsIn(n, schema, logged, cut, connection) /\ n <= logged
  <1>1. n <= logged /\ n \in Int /\ logged \in Int
    BY CommandTyped, NineMigrations DEF Settled, MigrationsInv
  <1>2. n # command.m
    <2> SUFFICES ASSUME n = command.m
                 PROVE  FALSE
      OBVIOUS
    <2>1. command.way # "none"
      BY NineMigrations DEF MigrationsInv, UnderWay, Resting
    <2>2. command.way = "up"
      BY <2>1, CommandTyped DEF Settled, MigrationsInv
    <2> QED
      BY <1>1, <2>2 DEF MigrationsInv, UnderWay, UpUnderWay
  <1> QED
    BY <1>1, <1>2 DEF MigrationsInv, AllFit, Fits

\* What is logged is applied.
LEMMA InvLogged == MigrationsInv => LoggedIsApplied
  <1> SUFFICES ASSUME MigrationsInv, NEW n \in Numbers, Settled(n)
               PROVE  /\ Guards(n) \subseteq schema
                      /\ connection = "postgres" \/ <<n, "up">> \notin cut =>
                           Parts(n) \subseteq schema
    BY DEF LoggedIsApplied, Numbers
  <1> QED
    BY SettledFits DEF FitsIn, Settled

\* The statement that is due is accepted.
LEMMA InvRerun == MigrationsInv => RerunIsAccepted
  <1> SUFFICES ASSUME MigrationsInv, command.way = "up",
                      \A c \in cut : c[2] = "up",
                      NEW k \in command.left, IsDue(k)
               PROVE  Accepts(Statement(k), TRUE)
    BY DEF RerunIsAccepted
  <1> DEFINE m == command.m
             st == Up(m)[k]
  <1>1. Statement(k) = st
    BY DEF Statement, Up
  <1>2. /\ m \in Numbers /\ m \in Int /\ m = logged + 1 /\ logged \in Int
        /\ k \in DOMAIN Up(m)
        /\ command.before \subseteq schema
        /\ \A j \in DOMAIN Up(m) \ command.left :
             \/ Up(m)[j].guard \in command.before
             \/ Named(Up(m)[j]) \subseteq schema
        /\ st.guard # NoGuard => Named(st) \cap schema = {}
    BY FitsBefore, CommandTyped DEF MigrationsInv, UnderWay, UpUnderWay
  <1>3. StatementIsSound(m, st) /\ StatementIsFirst(m, k)
    BY <1>2, AllSound DEF UpIsSound, StatementIsFirst
  <1>4. Table(st.table) \in schema \cup Named(st)
    <2>1. CASE st.guard = Table(st.table)
      <3>1. st.guard # NoGuard
        <4>1. st.table # Self
          BY <1>3 DEF StatementIsSound
        <4> HIDE DEF st
        <4> QED
          BY <2>1, <4>1 DEF Table, NoGuard
      <3>2. PICK j \in DOMAIN Up(m) : /\ j <= k /\ Up(m)[j].guard = st.guard
                                      /\ Named(Up(m)[j]) = {st.guard}
        BY <1>3, <3>1 DEF StatementIsFirst
      <3>3. CASE j \in command.left
        <4>1. j \in Int /\ k \in Int /\ k <= j
          BY <3>3, CommandTyped DEF IsDue, MigrationsInv
        <4>2. j = k
          BY <3>2, <4>1
        <4> QED
          BY <2>1, <3>2, <4>2
      <3>4. CASE j \notin command.left
        BY <1>2, <2>1, <3>2, <3>4
      <3> QED
        BY <3>3, <3>4
    <2>2. CASE \E n \in Numbers : n < m /\ Table(st.table) \in Guards(n)
      <3>1. PICK n \in Numbers : n < m /\ Table(st.table) \in Guards(n)
        BY <2>2
      <3>2. n <= logged /\ n # m /\ n \in Int
        BY <1>2, <3>1, NineMigrations
      <3>3. <<n, "down">> \notin cut
        BY <1>2
      <3>4. Settled(n)
        BY <1>2, <3>2, <3>3 DEF Settled
      <3> QED
        BY <3>1, <3>2, <3>3, <3>4, SettledFits DEF FitsIn
    <2> QED
      BY <1>3, <2>1, <2>2 DEF StatementIsSound, TableFirst
  <1>5. st.op \in {"add", "allow null"} /\ (st.op = "add" => Named(st) \cap schema = {})
    BY <1>2, <1>3 DEF StatementIsSound
  <1> HIDE DEF st, m
  <1> QED
    BY <1>1, <1>4, <1>5 DEF Accepts, Requires
NullPart == <<"image_outputs", "expires_at NULL">>

\* The table of outputs and its nullable column are of migrations 4 and 7.
LEMMA OutputsParts ==
  /\ 4 \in Numbers /\ 7 \in Numbers
  /\ OutputsTable \in Parts(4) /\ NullPart \in Parts(7)
  /\ OutputsTable = <<"image_outputs", Self>>
  <1>1. 4 \in Numbers /\ 7 \in Numbers
    BY NineMigrations
  <1>2. OutputsTable \in Parts(4)
    BY <1>1, AlteredTables, PartsOf DEF OutputsTable
  <1>3. NullPart \in Parts(7)
    BY <1>1, Nullable, PartsOf DEF NullPart
  <1> QED
    BY <1>1, <1>2, <1>3 DEF OutputsTable, Table

\* What a statement adds is made by a migration.
LEMMA Makes ==
  ASSUME NEW m \in Numbers, NEW k \in DOMAIN Up(m), NEW g, NEW t, NEW p,
         Up(m)[k] = Add(g, t, p)
  PROVE  <<t, p>> \in AllParts
  <1>1. <<t, p>> \in Named(Up(m)[k])
    BY DEF Add, Named
  <1> QED
    BY <1>1, PartsOf

\* Every column the program uses is made by some migration.
LEMMA NeededIsMade == Needed \subseteq AllParts
  <1> DEFINE r == "image_processing_requests"
             z == "image_processing_request_sizes"
             o == "image_outputs"
             i == "image_processing_request_id"
             j == "image_processing_request_size_id"
             n == "expires_at NULL"
  <1>1. /\ 1 \in DOMAIN Up(1) /\ Up(1)[1] = Add(Table("jobs"), "jobs", Self)
        /\ 1 \in DOMAIN Up(2) /\ Up(2)[1] = Add(Table(r), r, Self)
        /\ 2 \in DOMAIN Up(2) /\ Up(2)[2] = Add(Table(r), r, "status")
        /\ 1 \in DOMAIN Up(3) /\ Up(3)[1] = Add(Table(z), z, Self)
        /\ 2 \in DOMAIN Up(3) /\ Up(3)[2] = Add(Table(z), z, i)
        /\ 1 \in DOMAIN Up(4) /\ Up(4)[1] = Add(Table(o), o, Self)
        /\ 3 \in DOMAIN Up(4) /\ Up(4)[3] = Add(Table(o), o, j)
    BY NineMigrations DEF Up, Creates, CreatesTable, CreateJobsTable,
       CreateRequestsTable, CreateRequestSizesTable, CreateImageOutputsTable
  <1>2. /\ 1 \in DOMAIN Up(5)
        /\ Up(5)[1] = Add(<<r, "source_width">>, r, "source_width")
        /\ 2 \in DOMAIN Up(5)
        /\ Up(5)[2] = Add(<<r, "source_width">>, r, "source_height")
        /\ 1 \in DOMAIN Up(6)
        /\ Up(6)[1] = Add(<<r, "input_type">>, r, "input_type")
        /\ 2 \in DOMAIN Up(6)
        /\ Up(6)[2] = Add(<<r, "input_type">>, r, "source_file_path")
        /\ 1 \in DOMAIN Up(8)
        /\ Up(8)[1] = Add(<<r, "output_hash">>, r, "output_hash")
        /\ 1 \in DOMAIN Up(9)
        /\ Up(9)[1] = Add(<<r, "last_heartbeat_at">>, r, "last_heartbeat_at")
    BY NineMigrations DEF Up, Adds, AddsColumn, AddsColumns, AddSourceDimensions,
       AddInputType, AddOutputHash, AddLastHeartbeatAt
  <1> HIDE DEF r, z, o, i, j, n
  <1>3. /\ <<"jobs", Self>> \in AllParts /\ <<r, Self>> \in AllParts
        /\ <<r, "status">> \in AllParts /\ <<z, Self>> \in AllParts
        /\ <<z, i>> \in AllParts /\ <<o, Self>> \in AllParts
        /\ <<o, j>> \in AllParts
    BY <1>1, Makes, NineMigrations
  <1>4. /\ <<r, "source_width">> \in AllParts
        /\ <<r, "source_height">> \in AllParts
        /\ <<r, "input_type">> \in AllParts
        /\ <<r, "source_file_path">> \in AllParts
        /\ <<r, "output_hash">> \in AllParts
        /\ <<r, "last_heartbeat_at">> \in AllParts
    BY <1>2, Makes, NineMigrations
  <1>5. <<o, n>> \in AllParts
    <2>1. NullPart \in AllParts
      BY OutputsParts, PartsOf
    <2> QED
      BY <2>1 DEF NullPart, o, n
  <1>7. {o} \X {n, j} \subseteq AllParts
    BY <1>3, <1>5
  <1>8. {r} \X {"source_width", "source_height", "input_type",
                "source_file_path", "output_hash", "last_heartbeat_at",
                "status"} \subseteq AllParts
    BY <1>3, <1>4
  <1>9. {Table("jobs"), Table(r), Table(z), Table(o), <<z, i>>} \subseteq AllParts
    BY <1>3 DEF Table
  <1> QED
    BY <1>7, <1>8, <1>9 DEF Needed, r, z, o, i, j, n

\* A schema with everything logged and nothing cut is the one the program uses.
LEMMA InvServes == MigrationsInv => MigratedServesProgram
  <1> SUFFICES ASSUME MigrationsInv, logged = Len(Migrations), AtRest,
                      \A c \in cut : c[2] = "up" /\ connection = "postgres"
               PROVE  Needed \subseteq schema
    BY DEF MigratedServesProgram
  <1>1. ASSUME NEW n \in Numbers
        PROVE  Parts(n) \subseteq schema
    <2>1. <<n, "down">> \notin cut /\ (connection = "postgres" \/ cut = {})
      OBVIOUS
    <2>2. Settled(n)
      BY <2>1, NineMigrations DEF Settled, AtRest, Resting
    <2> QED
      BY <2>1, <2>2, SettledFits DEF FitsIn
  <1>2. AllParts \subseteq schema
    BY <1>1 DEF AllParts
  <1> QED
    BY <1>2, NeededIsMade

(***************************************************************************)
(* Rows and the table that holds them.                                     *)
(***************************************************************************)
\* What a step of the migrations takes away: a statement of Down hits it, or
\* the transaction of an Up is undone that had added it.
LEMMA Removed ==
  ASSUME MigrationsInv, NEW nulls, Migrate(nulls),
         NEW e \in schema, e \notin schema'
  PROVE  \/ \E k \in DOMAIN Down(logged) :
              /\ logged \in Numbers /\ command.m = logged
              /\ Hits(Down(logged)[k], e) /\ Accepts(Down(logged)[k], nulls)
              /\ schema' = {f \in schema : ~Hits(Down(logged)[k], f)}
         \/ /\ command.m = logged + 1 /\ logged + 1 \in Numbers
            /\ command.left # {} /\ command.left \subseteq DOMAIN Up(logged + 1)
            /\ \E k \in DOMAIN Up(logged + 1) \ command.left :
                 e \in Named(Up(logged + 1)[k])
  <1>1. ASSUME Execute(nulls)
        PROVE  \E k \in DOMAIN Down(logged) :
              /\ logged \in Numbers /\ command.m = logged
              /\ Hits(Down(logged)[k], e) /\ Accepts(Down(logged)[k], nulls)
              /\ schema' = {f \in schema : ~Hits(Down(logged)[k], f)}
    <2>1. PICK k \in command.left :
            Accepts(Statement(k), nulls) /\ schema' = After(Statement(k))
      BY <1>1 DEF Execute
    <2>2. command.way \in {"up", "down"} /\ command.m \in Numbers
      BY <2>1, CommandTyped DEF MigrationsInv, UnderWay, Resting
    <2>3. command.way # "up"
      <3> SUFFICES ASSUME command.way = "up"
                   PROVE  FALSE
        OBVIOUS
      <3>1. k \in DOMAIN Up(command.m) /\ Statement(k) = Up(command.m)[k]
        BY DEF MigrationsInv, UnderWay, UpUnderWay, Statement, Up
      <3> QED
        BY <2>1, <2>2, <3>1, AfterUp
    <2>4. /\ command.m = logged /\ k \in DOMAIN Down(logged)
          /\ Statement(k) = Down(logged)[k]
      BY <2>2, <2>3 DEF MigrationsInv, UnderWay, DownUnderWay, Statement, Down
    <2>5. schema' = {f \in schema : ~Hits(Down(logged)[k], f)}
      BY <2>1, <2>2, <2>4, AfterDown
    <2> QED
      BY <2>1, <2>2, <2>4, <2>5
  <1>2. ASSUME Stop, ~AtRest
        PROVE  /\ command.m = logged + 1 /\ logged + 1 \in Numbers
            /\ command.left # {} /\ command.left \subseteq DOMAIN Up(logged + 1)
            /\ \E k \in DOMAIN Up(logged + 1) \ command.left :
                 e \in Named(Up(logged + 1)[k])
    <2>1. schema' = command.before /\ command.left # {}
      BY <1>2 DEF Stop
    <2>2. command.way \in {"up", "down"} /\ command.m \in Numbers
      BY <1>2, CommandTyped DEF MigrationsInv, UnderWay, AtRest
    <2>3. command.way = "up"
      BY <2>1, <2>2 DEF MigrationsInv, UnderWay, DownUnderWay
    <2> QED
      BY <2>1, <2>2, <2>3 DEF MigrationsInv, UnderWay, UpUnderWay
  <1>3. \/ Execute(nulls)
        \/ Stop /\ ~AtRest
    BY DEF Migrate, BeginUp, BeginDown, Refuse, Interrupt, Log, AtRest, Resting
  <1> QED
    BY <1>1, <1>2, <1>3

\* expires_at allows NULL as long as a row has one.
LEMMA NullsAreAllowed ==
  ASSUME MigrationsInv, HasNulls, MigrateStep, NullPart \in schema,
         OutputsTable \in schema'
  PROVE  NullPart \in schema'
  <1> SUFFICES ASSUME NullPart \notin schema'
               PROVE  FALSE
    OBVIOUS
  <1>1. Migrate(HasNulls)
    BY DEF MigrateStep
  <1>2. ASSUME NEW k \in DOMAIN Down(logged), logged \in Numbers,
               Hits(Down(logged)[k], NullPart), Accepts(Down(logged)[k], HasNulls),
               schema' = {f \in schema : ~Hits(Down(logged)[k], f)}
        PROVE  FALSE
    <2>1. Down(logged)[k].op # "drop table"
      <3>1. NullPart[1] = "image_outputs" /\ OutputsTable[1] = "image_outputs"
        BY OutputsParts DEF NullPart
      <3>2. ~Hits(Down(logged)[k], OutputsTable)
        BY <1>2
      <3> QED
        BY <1>2, <3>1, <3>2 DEF Hits
    <2>2. NullPart \in Named(Down(logged)[k])
      BY <1>2, <2>1 DEF Hits
    <2>3. Owner(NullPart) = logged
      BY <1>2, <2>1, <2>2, AllSound DEF DownIsSound
    <2>4. logged = 7
      BY <2>3, OutputsParts, PartsOf
    <2>5. Down(logged)[k].op = "forbid null"
      BY <2>4, Nullable
    <2> QED
      BY <1>2, <2>5 DEF Accepts
  <1>3. ASSUME NEW k \in DOMAIN Up(logged + 1) \ command.left,
               logged + 1 \in Numbers, command.left # {},
               command.left \subseteq DOMAIN Up(logged + 1),
               NullPart \in Named(Up(logged + 1)[k])
        PROVE  FALSE
    <2>1. logged + 1 = 7
      BY <1>3, OutputsParts, PartsOf
    <2> QED
      BY ZenonT(30), <1>3, <2>1, Nullable
  <1> QED
    BY <1>1, <1>2, <1>3, Removed

\* The table is not dropped while a row has no expiry, unless the Up of the
\* migration that allows NULL was cut short.
LEMMA TableStays ==
  ASSUME MigrationsInv, HasNulls, MigrateStep, NullPart \in schema,
         OutputsTable \in schema, <<7, "up">> \notin cut
  PROVE  OutputsTable \in schema'
  <1> SUFFICES ASSUME OutputsTable \notin schema'
               PROVE  FALSE
    OBVIOUS
  <1>1. Migrate(HasNulls)
    BY DEF MigrateStep
  <1>2. logged \in Int
    BY CommandTyped DEF MigrationsInv
  <1>3. 7 # command.m /\ ~(7 <= logged) => FALSE
    <2> SUFFICES ASSUME 7 # command.m, ~(7 <= logged)
                 PROVE  FALSE
      OBVIOUS
    <2>1. FitsIn(7, schema, logged, cut, connection)
      BY OutputsParts DEF MigrationsInv, AllFit, Fits
    <2> QED
      BY <2>1, OutputsParts DEF FitsIn
  <1>4. ASSUME NEW k \in DOMAIN Down(logged), logged \in Numbers,
               command.m = logged,
               Hits(Down(logged)[k], OutputsTable), Accepts(Down(logged)[k], HasNulls)
        PROVE  FALSE
    <2>1. logged # 7
      <3>1. OutputsTable # NullPart
        BY OutputsParts, PartsOf
      <3> QED
        BY <1>4, <3>1, Nullable DEF Hits, NullPart
    <2>2. ~(4 < logged)
      BY <1>4, OutputsParts, HitsOfOthers
    <2> QED
      BY <1>2, <1>3, <1>4, <2>1, <2>2
  <1>5. ASSUME NEW k \in DOMAIN Up(logged + 1) \ command.left,
               logged + 1 \in Numbers, command.m = logged + 1,
               OutputsTable \in Named(Up(logged + 1)[k])
        PROVE  FALSE
    <2>1. logged + 1 = 4
      BY <1>5, OutputsParts, PartsOf
    <2> QED
      BY <1>2, <1>3, <1>5, <2>1
  <1> QED
    BY <1>1, <1>4, <1>5, Removed
(***************************************************************************)
(* The invariant of the cleanup.                                           *)
(***************************************************************************)
Rows == [id : Nat, expires : Nat \cup {None}]

RowsInv ==
  /\ now \in 0 .. MaxTime /\ faults \in 0 .. MaxFaults
  /\ nextId \in 1 .. MaxOutputs + 1
  /\ outputs \subseteq Rows
  /\ \A o \in outputs : o.id \in 1 .. nextId - 1
  /\ \A a, b \in outputs : a.id = b.id => a = b
  /\ \A o \in outputs : o.expires # None => o.id \in 1 .. OldOutputs /\ o.expires = o.id
  /\ files \subseteq 1 .. OldOutputs
  /\ outputs # {} => OutputsTable \in schema
  /\ HasNulls => NullPart \in schema

Ats == {"wait", "find", "next", "delete file", "delete row"}

Jobs == [at : Ats, expired : SUBSET Rows, todo : SUBSET Rows,
         row : Rows \cup {None}, faulty : BOOLEAN, stale : BOOLEAN]

JobTyped == job \in [Workers -> Jobs]

InHand(j) == IF j.at \in {"delete file", "delete row"} THEN {j.row} ELSE {}

\* Nothing but row o has its id, in a table that gives next.
IsThat(o, R, next) == o.id < next /\ \A r \in R : r.id = o.id => r = o

\* What a worker has in hand did expire and is no longer to do; the file is
\* gone before the row; what it is done with is gone; and as long as the table
\* it read is there, an id that it read is that of no other row.
SoundIn(j, R, disk, time, next) ==
  /\ j.todo \subseteq j.expired
  /\ \A o \in j.expired : o.id \in 1 .. OldOutputs /\ o.expires = o.id /\ o.id <= time
  /\ InHand(j) \subseteq j.expired \ j.todo
  /\ j.at = "delete row" => j.row.id \notin disk
  /\ j.at \in {"next", "delete file", "delete row"} /\ ~j.faulty =>
       ((j.expired \ j.todo) \ InHand(j)) \cap R = {}
  /\ j.at = "wait" => j.expired = {}
  /\ ~j.stale => \A o \in j.expired : IsThat(o, R, next)

JobIsSound(w) == SoundIn(job[w], outputs, files, now, nextId)

CleanupInv ==
  /\ MigrationsInv /\ RowsInv /\ JobTyped
  /\ \A w \in Workers : JobIsSound(w)

\* The ids of old rows are times.
LEMMA OldIds ==
  \A i \in 1 .. OldOutputs : i \in Nat /\ i # None
  BY CleanupAssumption

\* Before anything ran: old rows may exist, with files or without.
LEMMA InitCleanup == Init => CleanupInv
  <1> SUFFICES ASSUME Init
               PROVE  CleanupInv
    OBVIOUS
  <1>1. MigrationsInv
    BY MigrateInitFits DEF Init
  <1>2. \A o \in outputs : o.id \in 1 .. OldOutputs /\ o = [id |-> o.id, expires |-> o.id]
    BY DEF Init, OldRows
  <1>3. RowsInv
    <2>1. outputs \subseteq Rows
      BY <1>2, OldIds DEF Rows
    <2>2. files \subseteq 1 .. OldOutputs
      BY <1>2 DEF Init
    <2>3. \A o \in outputs : o.expires = o.id /\ o.expires # None
      BY <1>2, OldIds
    <2>4. /\ now \in 0 .. MaxTime /\ faults \in 0 .. MaxFaults
          /\ nextId \in 1 .. MaxOutputs + 1
      BY CleanupAssumption DEF Init
    <2>5. outputs # {} => OutputsTable \in schema /\ nextId = OldOutputs + 1
      BY DEF Init
    <2>6. ~HasNulls
      BY <2>3 DEF HasNulls
    <2>7. \A o \in outputs : o.id \in 1 .. nextId - 1
      BY <1>2, <2>5, CleanupAssumption
    <2> QED
      BY <1>2, <2>1, <2>2, <2>3, <2>4, <2>5, <2>6, <2>7 DEF RowsInv
  <1>4. job = [w \in Workers |-> Waiting]
    BY DEF Init
  <1>5. Waiting \in Jobs
    BY DEF Waiting, Jobs, Ats
  <1>6. SoundIn(Waiting, outputs, files, now, nextId)
    BY DEF SoundIn, Waiting, InHand
  <1> QED
    BY <1>1, <1>3, <1>4, <1>5, <1>6 DEF CleanupInv, JobTyped, JobIsSound

\* A job stays sound while the clock goes on, files go, and no row comes but a
\* permanent one with an id not given before.
LEMMA SoundKept ==
  ASSUME NEW j, NEW R, NEW F, NEW T \in Nat, NEW n \in Nat, SoundIn(j, R, F, T, n),
         NEW R2, NEW F2, NEW T2 \in Nat, NEW n2 \in Nat,
         T <= T2, F2 \subseteq F, n <= n2,
         \A o \in R2 : o \in R \/ (o.expires = None /\ o.id = n)
  PROVE  SoundIn(j, R2, F2, T2, n2)
  <1>1. \A o \in j.expired : /\ o.id \in 1 .. OldOutputs /\ o.expires = o.id
                             /\ o.id <= T
    BY DEF SoundIn
  <1>2. \A o \in j.expired : o.id \in Int /\ o.expires # None
    BY <1>1, OldIds
  <1>3. \A o \in j.expired : o.id <= T2
    BY <1>1, <1>2
  <1>4. \A o \in j.expired : o \in R2 => o \in R
    BY <1>2
  <1>5. ASSUME NEW o \in j.expired, IsThat(o, R, n)
        PROVE  IsThat(o, R2, n2)
    BY <1>2, <1>5 DEF IsThat
  <1> QED
    BY <1>3, <1>4, <1>5 DEF SoundIn

\* A job whose table was dropped, in hand or not, is sound.
LEMMA SoundWhenDropped ==
  ASSUME NEW j \in Jobs, NEW R, NEW F, NEW T, NEW n, SoundIn(j, R, F, T, n)
  PROVE  /\ [j EXCEPT !.stale = j.at # "wait"] \in Jobs
         /\ SoundIn([j EXCEPT !.stale = j.at # "wait"], {}, F, T, 1)
  <1> DEFINE k == [j EXCEPT !.stale = j.at # "wait"]
  <1>1. k \in Jobs
    BY DEF Jobs
  <1>2. /\ k.at = j.at /\ k.expired = j.expired /\ k.todo = j.todo
        /\ k.row = j.row
    BY DEF Jobs
  <1>3. j.at # "wait" => k.stale
    BY DEF Jobs
  <1> HIDE DEF k
  <1>4. SoundIn(k, {}, F, T, 1)
    <2>1. ~k.stale => \A o \in k.expired : IsThat(o, {}, 1)
      BY <1>2, <1>3 DEF SoundIn
    <2>2. InHand(k) = InHand(j)
      BY <1>2 DEF InHand
    <2> QED
      BY <1>2, <2>1, <2>2 DEF SoundIn
  <1> QED
    BY <1>1, <1>4 DEF k

\* The rows stay in order when no row comes and the schema stays.
LEMMA RowsShrink ==
  ASSUME RowsInv, outputs' \subseteq outputs, files' \subseteq files,
         UNCHANGED <<schema, nextId>>,
         now' \in 0 .. MaxTime, faults' \in 0 .. MaxFaults
  PROVE  RowsInv'
  BY DEF RowsInv, HasNulls

\* What a worker knows stays true as time passes, files go and permanent rows
\* come.
LEMMA JobsStay ==
  ASSUME CleanupInv, now' \in Nat, now <= now', files' \subseteq files,
         nextId' \in Nat, nextId <= nextId',
         \A o \in outputs' : o \in outputs \/ (o.expires = None /\ o.id = nextId),
         job' = job
  PROVE  JobTyped' /\ \A w \in Workers : JobIsSound(w)'
  <1>1. now \in Nat /\ nextId \in Nat
    BY CleanupAssumption DEF CleanupInv, RowsInv
  <1>2. \A w \in Workers : SoundIn(job[w], outputs, files, now, nextId)
    BY DEF CleanupInv, JobIsSound
  <1>3. \A w \in Workers : SoundIn(job[w], outputs', files', now', nextId')
    BY <1>1, <1>2, SoundKept
  <1> QED
    BY <1>3 DEF CleanupInv, JobTyped, JobIsSound

\* A step of one worker that adds no row and no file concerns that worker only.
LEMMA OneJobMoves ==
  ASSUME CleanupInv, NEW w \in Workers, now' = now, files' \subseteq files,
         outputs' \subseteq outputs, nextId' = nextId, UNCHANGED migrating,
         faults' \in 0 .. MaxFaults, job' \in [Workers -> Jobs],
         \A v \in Workers \ {w} : job'[v] = job[v],
         SoundIn(job'[w], outputs', files', now', nextId')
  PROVE  CleanupInv'
  <1>1. now \in Nat /\ now \in 0 .. MaxTime /\ nextId \in Nat
    BY CleanupAssumption DEF CleanupInv, RowsInv
  <1>2. \A v \in Workers : SoundIn(job[v], outputs, files, now, nextId)
    BY DEF CleanupInv, JobIsSound
  <1>3. \A v \in Workers \ {w} : SoundIn(job[v], outputs', files', now', nextId')
    BY <1>1, <1>2, SoundKept
  <1>4. \A v \in Workers : JobIsSound(v)'
    BY <1>3 DEF JobIsSound
  <1>5. RowsInv'
    BY <1>1, RowsShrink DEF CleanupInv, migrating
  <1>6. MigrationsInv'
    BY RestKeeps DEF CleanupInv
  <1> QED
    BY <1>4, <1>5, <1>6 DEF CleanupInv, JobTyped

\* The budget of faults is kept.
LEMMA FaultsCount ==
  ASSUME CleanupInv
  PROVE  /\ UNCHANGED faults => faults' \in 0 .. MaxFaults
         /\ Fails => faults' \in 0 .. MaxFaults
  BY CleanupAssumption DEF CleanupInv, RowsInv, Fails

\* A migration removes rows only with their table, and forbids NULL only when
\* no row holds one.
LEMMA MigrateStepKeeps ==
  ASSUME CleanupInv, MigrateStep
  PROVE  CleanupInv'
  <1>1. MigrationsInv'
    BY MigrateKeeps DEF CleanupInv, MigrateStep
  <1>2. UNCHANGED <<now, files, faults>>
    BY DEF MigrateStep
  <1>3. CASE OutputsTable \in schema'
    <2>1. outputs' = outputs /\ nextId' = nextId /\ job' = job
      BY <1>3 DEF MigrateStep, rows
    <2>2. HasNulls' => NullPart \in schema'
      BY <1>3, <2>1, NullsAreAllowed DEF CleanupInv, RowsInv, HasNulls
    <2>3. RowsInv'
      BY <1>2, <1>3, <2>1, <2>2 DEF CleanupInv, RowsInv
    <2>4. now \in Nat /\ nextId \in Nat
      BY CleanupAssumption DEF CleanupInv, RowsInv
    <2>5. JobTyped' /\ \A w \in Workers : JobIsSound(w)'
      BY <1>2, <2>1, <2>4, JobsStay
    <2> QED
      BY <1>1, <2>3, <2>5 DEF CleanupInv
  <1>4. CASE OutputsTable \notin schema'
    <2>1. /\ outputs' = {} /\ nextId' = 1
          /\ job' = [w \in Workers |-> [job[w] EXCEPT !.stale = job[w].at # "wait"]]
      BY <1>4 DEF MigrateStep
    <2>2. RowsInv'
      BY <1>2, <2>1, CleanupAssumption DEF CleanupInv, RowsInv, HasNulls
    <2>3. ASSUME NEW w \in Workers
          PROVE  job'[w] \in Jobs /\ SoundIn(job'[w], {}, files, now, 1)
      <3>1. job[w] \in Jobs /\ SoundIn(job[w], outputs, files, now, nextId)
        BY DEF CleanupInv, JobTyped, JobIsSound
      <3>2. job'[w] = [job[w] EXCEPT !.stale = job[w].at # "wait"]
        BY <2>1
      <3> QED
        BY ONLY <3>1, <3>2, SoundWhenDropped
    <2>4. job' \in [Workers -> Jobs]
      BY <2>1, <2>3
    <2>5. \A w \in Workers : JobIsSound(w)'
      BY <1>2, <2>1, <2>3 DEF JobIsSound
    <2> QED
      BY <1>1, <2>2, <2>4, <2>5 DEF CleanupInv, JobTyped
  <1> QED
    BY <1>3, <1>4

\* The program adds a permanent row, which no worker takes for another.
LEMMA PersistKeeps ==
  ASSUME CleanupInv, PersistOutput
  PROVE  CleanupInv'
  <1> DEFINE n == [id |-> nextId, expires |-> None]
  <1>1. /\ outputs' = outputs \cup {n} /\ nextId' = nextId + 1
        /\ nextId <= MaxOutputs
        /\ OutputsTable \in schema /\ NullPart \in schema
        /\ UNCHANGED <<migrating, now, files, job, faults>>
    BY DEF PersistOutput, Permanent, NullPart
  <1>2. nextId \in Nat \ {0} /\ now \in Nat
    BY CleanupAssumption DEF CleanupInv, RowsInv
  <1>3. n \in Rows /\ n.id = nextId /\ n.expires = None
    BY <1>2 DEF Rows
  <1> HIDE DEF n
  <1>4. /\ outputs' \subseteq Rows
        /\ \A o \in outputs' : o.expires # None
                                 => o.id \in 1 .. OldOutputs /\ o.expires = o.id
    BY <1>1, <1>3 DEF CleanupInv, RowsInv
  <1>5. \A o \in outputs : o.id \in 1 .. nextId - 1 /\ o.id # nextId
    BY <1>2 DEF CleanupInv, RowsInv
  <1>6. \A o \in outputs' : o.id \in 1 .. nextId' - 1
    BY <1>1, <1>2, <1>3, <1>5
  <1>7. \A a, b \in outputs' : a.id = b.id => a = b
    BY <1>1, <1>3, <1>5 DEF CleanupInv, RowsInv
  <1>8. nextId' \in 1 .. MaxOutputs + 1
    BY <1>1, <1>2, CleanupAssumption
  <1>9. RowsInv'
    BY <1>1, <1>4, <1>6, <1>7, <1>8 DEF CleanupInv, RowsInv, migrating
  <1>10. MigrationsInv'
    BY <1>1, RestKeeps DEF CleanupInv
  <1>11. JobTyped' /\ \A w \in Workers : JobIsSound(w)'
    BY <1>1, <1>2, <1>3, JobsStay
  <1> QED
    BY <1>9, <1>10, <1>11 DEF CleanupInv

\* Time passes.
LEMMA TickKeeps ==
  ASSUME CleanupInv, Tick
  PROVE  CleanupInv'
  <1>1. /\ now' = now + 1 /\ now < MaxTime
        /\ UNCHANGED <<migrating, outputs, nextId, files, job, faults>>
    BY DEF Tick, rows
  <1>2. /\ now' \in 0 .. MaxTime /\ now' \in Nat /\ now <= now'
        /\ faults \in 0 .. MaxFaults /\ nextId \in Nat
    BY <1>1, CleanupAssumption DEF CleanupInv, RowsInv
  <1>3. RowsInv'
    BY <1>1, <1>2, RowsShrink DEF CleanupInv, migrating
  <1>4. MigrationsInv'
    BY <1>1, RestKeeps DEF CleanupInv
  <1>5. JobTyped' /\ \A w \in Workers : JobIsSound(w)'
    BY <1>1, <1>2, JobsStay
  <1> QED
    BY <1>3, <1>4, <1>5 DEF CleanupInv
(***************************************************************************)
(* The steps of a worker.                                                  *)
(***************************************************************************)
LEMMA JobOf ==
  ASSUME CleanupInv, NEW w \in Workers
  PROVE  /\ job \in [Workers -> Jobs] /\ job[w] \in Jobs
         /\ SoundIn(job[w], outputs, files, now, nextId)
         /\ now \in Nat /\ nextId \in Nat /\ outputs \subseteq Rows
         /\ \A o \in outputs : IsThat(o, outputs, nextId)
         /\ \A o \in outputs : o.expires # None => o.id \in 1 .. OldOutputs /\ o.expires = o.id
         /\ faults \in 0 .. MaxFaults
  <1>1. nextId \in Nat /\ now \in Nat
    BY CleanupAssumption DEF CleanupInv, RowsInv
  <1>2. \A o \in outputs : IsThat(o, outputs, nextId)
    BY <1>1 DEF CleanupInv, RowsInv, IsThat
  <1> QED
    BY <1>1, <1>2 DEF CleanupInv, RowsInv, JobTyped, JobIsSound

\* A worker without a job knows nothing.
LEMMA WaitingIsSound ==
  /\ Waiting \in Jobs
  /\ \A R, F, T, n : SoundIn(Waiting, R, F, T, n)
  BY DEF Waiting, Jobs, Ats, SoundIn, InHand

\* A worker that passes over the row in its hand.
LEMMA PassedOver ==
  ASSUME CleanupInv, NEW w \in Workers,
         job' = [job EXCEPT ![w].at = "next", ![w].faulty = TRUE]
  PROVE  /\ job' \in [Workers -> Jobs]
         /\ job'[w].expired = job[w].expired /\ job'[w].todo = job[w].todo
         /\ job'[w].faulty /\ job'[w].at = "next"
         /\ job'[w].stale = job[w].stale
         /\ \A v \in Workers \ {w} : job'[v] = job[v]
  <1>1. job \in [Workers -> Jobs] /\ job[w] \in Jobs
    BY JobOf
  <1>2. ASSUME NEW j \in Jobs
        PROVE  [j EXCEPT !.at = "next", !.faulty = TRUE] \in Jobs
    BY DEF Jobs, Ats
  <1>3. job'[w] = [job[w] EXCEPT !.at = "next", !.faulty = TRUE]
    BY <1>1
  <1>4. \A v \in Workers \ {w} : job'[v] = job[v]
    BY <1>1
  <1>5. DOMAIN job' = Workers /\ job' = [v \in Workers |-> job'[v]]
    BY <1>1
  <1>6. \A v \in Workers : job'[v] \in Jobs
    <2>1. job'[w] \in Jobs
      BY ONLY <1>1, <1>2, <1>3
    <2> QED
      BY ONLY <1>1, <1>4, <2>1
  <1>7. job' \in [Workers -> Jobs]
    BY ONLY <1>5, <1>6
  <1> QED
    BY <1>1, <1>3, <1>4, <1>7 DEF Jobs

\* A job is taken from the queue.
LEMMA TakeJobKeeps ==
  ASSUME CleanupInv, NEW w \in Workers, TakeJob(w)
  PROVE  CleanupInv'
  <1>1. /\ job[w].at = "wait"
        /\ job' = [job EXCEPT ![w].at = "find"]
        /\ UNCHANGED <<migrating, now, outputs, nextId, files, faults>>
    BY DEF TakeJob, Step, rows
  <1>2. job' \in [Workers -> Jobs]
    BY ZenonT(30), <1>1, JobOf DEF Jobs, Ats
  <1>3. /\ job'[w].at = "find" /\ job'[w].expired = job[w].expired
        /\ job'[w].todo = job[w].todo /\ job'[w].stale = job[w].stale
    BY <1>1, JobOf DEF Jobs
  <1>4. SoundIn(job'[w], outputs, files, now, nextId)
    BY <1>1, <1>3, JobOf DEF SoundIn, InHand
  <1>5. \A v \in Workers \ {w} : job'[v] = job[v]
    BY <1>1, JobOf
  <1> QED
    BY <1>1, <1>2, <1>4, <1>5, JobOf, OneJobMoves

\* A job that ends, well or not, leaves the rows alone.
LEMMA EndsKeep ==
  ASSUME CleanupInv, NEW w \in Workers, job' = [job EXCEPT ![w] = Waiting],
         UNCHANGED <<migrating, now, outputs, nextId, files>>, faults' \in 0 .. MaxFaults
  PROVE  CleanupInv'
  <1>1. /\ job' \in [Workers -> Jobs] /\ job'[w] = Waiting
        /\ \A v \in Workers \ {w} : job'[v] = job[v]
    BY JobOf, WaitingIsSound
  <1> QED
    BY <1>1, WaitingIsSound, OneJobMoves

\* SELECT takes rows that have expired.
LEMMA FindKeeps ==
  ASSUME CleanupInv, NEW w \in Workers, Find(w)
  PROVE  CleanupInv'
  <1>1. UNCHANGED <<migrating, now, outputs, nextId, files>>
    BY DEF Find, rows
  <1>2. CASE job' = [job EXCEPT ![w] = Waiting]
    <2>1. faults' \in 0 .. MaxFaults
      BY FaultsCount DEF Find
    <2> QED
      BY <1>1, <1>2, <2>1, EndsKeep
  <1>3. CASE /\ job' = [job EXCEPT ![w].expired = Expired, ![w].todo = Expired,
                                   ![w].at = "next", ![w].stale = FALSE]
             /\ UNCHANGED faults
    <2>1. /\ Expired \subseteq Rows
          /\ \A o \in Expired : /\ o.id \in 1 .. OldOutputs /\ o.expires = o.id
                               /\ o.id <= now
                               /\ IsThat(o, outputs, nextId)
      BY JobOf DEF Expired
    <2>2. job' \in [Workers -> Jobs]
      <3>1. job \in [Workers -> Jobs] /\ Expired \in SUBSET Rows
        BY <2>1, JobOf
      <3>2. ASSUME NEW j \in Jobs
            PROVE  [j EXCEPT !.expired = Expired, !.todo = Expired, !.at = "next",
                             !.stale = FALSE] \in Jobs
        BY <3>1 DEF Jobs, Ats
      <3>3. job'[w] = [job[w] EXCEPT !.expired = Expired, !.todo = Expired,
                                     !.at = "next", !.stale = FALSE]
        BY <1>3, <3>1
      <3>4. /\ \A v \in Workers \ {w} : job'[v] = job[v]
            /\ job' = [v \in Workers |-> job'[v]]
        BY <1>3, <3>1
      <3>5. \A v \in Workers : job'[v] \in Jobs
        <4>1. job'[w] \in Jobs
          BY ONLY ZenonT(30), <3>1, <3>2, <3>3
        <4> QED
          BY ONLY <3>1, <3>4, <4>1
      <3> QED
        BY ONLY <3>4, <3>5
    <2>3. /\ job'[w].at = "next" /\ job'[w].expired = Expired
          /\ job'[w].todo = Expired
          /\ \A v \in Workers \ {w} : job'[v] = job[v]
      BY <1>3, JobOf DEF Jobs
    <2>4. SoundIn(job'[w], outputs, files, now, nextId)
      BY <2>1, <2>3 DEF SoundIn, InHand
    <2> QED
      BY <1>1, <1>3, <2>2, <2>3, <2>4, JobOf, OneJobMoves
  <1> QED
    BY <1>2, <1>3 DEF Find

\* A file that is not there leaves the row to be deleted.
LEMMA ExistsKeeps ==
  ASSUME CleanupInv, NEW w \in Workers, Exists(w)
  PROVE  CleanupInv'
  <1>1. PICK o \in job[w].todo :
          job' = [job EXCEPT ![w].todo = @ \ {o}, ![w].row = o,
                    ![w].at = IF o.id \in files THEN "delete file" ELSE "delete row"]
    BY DEF Exists, rows
  <1>2. /\ job[w].at = "next"
        /\ UNCHANGED <<migrating, now, outputs, nextId, files, faults>>
    BY DEF Exists, rows
  <1>3. o \in Rows /\ job[w] \in Jobs /\ o \in job[w].expired
    BY JobOf DEF Jobs, SoundIn
  <1>4. job' \in [Workers -> Jobs]
    BY <1>1, <1>3, JobOf DEF Jobs, Ats
  <1>5. /\ job'[w].expired = job[w].expired
        /\ job'[w].todo = job[w].todo \ {o}
        /\ job'[w].row = o /\ job'[w].faulty = job[w].faulty
        /\ job'[w].stale = job[w].stale
        /\ job'[w].at \in {"delete file", "delete row"}
        /\ job'[w].at = "delete row" => o.id \notin files
        /\ \A v \in Workers \ {w} : job'[v] = job[v]
    BY <1>1, JobOf DEF Jobs
  <1>6. SoundIn(job'[w], outputs, files, now, nextId)
    BY <1>2, <1>3, <1>5, JobOf DEF SoundIn, InHand
  <1> QED
    BY <1>2, <1>4, <1>5, <1>6, JobOf, OneJobMoves

\* The file of the row in hand is deleted, or the row is passed over.
LEMMA DeleteFileKeeps ==
  ASSUME CleanupInv, NEW w \in Workers, DeleteFile(w)
  PROVE  CleanupInv'
  <1>1. job[w].at = "delete file" /\ UNCHANGED <<migrating, now, outputs, nextId>>
    BY DEF DeleteFile, rows
  <1>2. ASSUME files' = files \ {job[w].row.id}, Step(w, "delete row"),
               UNCHANGED faults
        PROVE  CleanupInv'
    <2>1. job' \in [Workers -> Jobs]
      BY ZenonT(30), <1>2, JobOf DEF Jobs, Ats, Step
    <2>2. /\ job'[w].expired = job[w].expired /\ job'[w].todo = job[w].todo
          /\ job'[w].row = job[w].row /\ job'[w].faulty = job[w].faulty
          /\ job'[w].at = "delete row" /\ job'[w].stale = job[w].stale
          /\ \A v \in Workers \ {w} : job'[v] = job[v]
      BY <1>2, JobOf DEF Jobs, Step
    <2>3. SoundIn(job'[w], outputs, files', now, nextId)
      BY <1>1, <1>2, <2>2, JobOf DEF SoundIn, InHand
    <2> QED
      BY <1>1, <1>2, <2>1, <2>2, <2>3, JobOf, OneJobMoves
  <1>3. ASSUME job' = [job EXCEPT ![w].at = "next", ![w].faulty = TRUE],
               UNCHANGED files, faults' \in 0 .. MaxFaults
        PROVE  CleanupInv'
    <2>1. job' \in [Workers -> Jobs]
      BY <1>3, PassedOver
    <2>2. /\ job'[w].expired = job[w].expired /\ job'[w].todo = job[w].todo
          /\ job'[w].faulty /\ job'[w].at = "next"
          /\ job'[w].stale = job[w].stale
          /\ \A v \in Workers \ {w} : job'[v] = job[v]
      BY <1>3, PassedOver
    <2>3. SoundIn(job'[w], outputs, files, now, nextId)
      BY <2>2, JobOf DEF SoundIn, InHand
    <2> QED
      BY <1>1, <1>3, <2>1, <2>2, <2>3, JobOf, OneJobMoves
  <1>4. UNCHANGED faults \/ Fails => faults' \in 0 .. MaxFaults
    BY FaultsCount
  <1> QED
    BY <1>2, <1>3, <1>4 DEF DeleteFile

\* The row in hand goes, if no statement fails, after its file.
LEMMA DeleteRowKeeps ==
  ASSUME CleanupInv, NEW w \in Workers, DeleteRow(w)
  PROVE  CleanupInv'
  <1>1. job[w].at = "delete row" /\ UNCHANGED <<migrating, now, nextId, files>>
    BY DEF DeleteRow
  <1>2. ASSUME outputs' = {o \in outputs : o.id # job[w].row.id}, Step(w, "next"),
               UNCHANGED faults
        PROVE  CleanupInv'
    <2>1. job' \in [Workers -> Jobs]
      BY ZenonT(30), <1>2, JobOf DEF Jobs, Ats, Step
    <2>2. /\ job'[w].expired = job[w].expired /\ job'[w].todo = job[w].todo
          /\ job'[w].faulty = job[w].faulty /\ job'[w].at = "next"
          /\ job'[w].stale = job[w].stale
          /\ \A v \in Workers \ {w} : job'[v] = job[v]
      BY <1>2, JobOf DEF Jobs, Step
    <2>3. job[w].row \notin outputs'
      BY <1>2
    <2>4. SoundIn(job'[w], outputs', files, now, nextId)
      BY <1>1, <1>2, <2>2, <2>3, JobOf DEF SoundIn, InHand, IsThat
    <2> QED
      BY <1>1, <1>2, <2>1, <2>2, <2>4, JobOf, OneJobMoves
  <1>3. ASSUME job' = [job EXCEPT ![w].at = "next", ![w].faulty = TRUE],
               UNCHANGED outputs, faults' \in 0 .. MaxFaults
        PROVE  CleanupInv'
    <2>1. job' \in [Workers -> Jobs]
      BY <1>3, PassedOver
    <2>2. /\ job'[w].expired = job[w].expired /\ job'[w].todo = job[w].todo
          /\ job'[w].faulty /\ job'[w].at = "next"
          /\ job'[w].stale = job[w].stale
          /\ \A v \in Workers \ {w} : job'[v] = job[v]
      BY <1>3, PassedOver
    <2>3. SoundIn(job'[w], outputs, files, now, nextId)
      BY <2>2, JobOf DEF SoundIn, InHand
    <2> QED
      BY <1>1, <1>3, <2>1, <2>2, <2>3, JobOf, OneJobMoves
  <1>4. UNCHANGED faults \/ Fails => faults' \in 0 .. MaxFaults
    BY FaultsCount
  <1> QED
    BY <1>2, <1>3, <1>4 DEF DeleteRow

\* Every step keeps the invariant.
LEMMA NextCleanup == CleanupInv /\ [Next]_vars => CleanupInv'
  <1> SUFFICES ASSUME CleanupInv, [Next]_vars
               PROVE  CleanupInv'
    OBVIOUS
  <1>1. CASE MigrateStep
    BY <1>1, MigrateStepKeeps
  <1>2. CASE PersistOutput
    BY <1>2, PersistKeeps
  <1>3. CASE Tick
    BY <1>3, TickKeeps
  <1>4. ASSUME NEW w \in Workers, Cleanup(w)
        PROVE  CleanupInv'
    <2>1. CASE EndRun(w) \/ Die(w)
      <3>1. /\ job' = [job EXCEPT ![w] = Waiting]
            /\ UNCHANGED <<migrating, now, outputs, nextId, files, faults>>
        BY <2>1 DEF EndRun, Die, rows
      <3>2. faults' \in 0 .. MaxFaults
        BY <3>1, FaultsCount
      <3> QED
        BY <3>1, <3>2, EndsKeep
    <2> QED
      BY <1>4, <2>1, TakeJobKeeps, FindKeeps, ExistsKeeps, DeleteFileKeeps,
         DeleteRowKeeps DEF Cleanup
  <1>5. CASE UNCHANGED vars
    <2>1. UNCHANGED <<migrating, now, outputs, nextId, files, job, faults>>
      BY <1>5 DEF vars, cleaning, rows
    <2>2. RowsInv'
      BY <2>1 DEF CleanupInv, RowsInv, HasNulls, migrating
    <2>3. JobTyped' /\ \A w \in Workers : JobIsSound(w)'
      BY <2>1 DEF CleanupInv, JobTyped, JobIsSound
    <2> QED
      BY <2>1, <2>2, <2>3, RestKeeps DEF CleanupInv
  <1> QED
    BY <1>1, <1>2, <1>3, <1>4, <1>5 DEF Next

(***************************************************************************)
(* The theorems.                                                           *)
(***************************************************************************)
THEOREM CleanupIsSound == Spec => []CleanupInv
  BY InitCleanup, NextCleanup, PTL DEF Spec

\* Rows, files and the schema stay what they are meant to be, and no two rows
\* share an id.
THEOREM UpkeepTyped == Spec => []TypeOK
  <1>1. CleanupInv => TypeOK
    BY DEF CleanupInv, MigrationsInv, RowsInv, Rows, JobIsSound, SoundIn, TypeOK
  <1> QED
    BY CleanupIsSound, <1>1, PTL

\* What the migrations table lists has been applied, whatever was cut short:
\* to the last part on PostgreSQL, on MySQL up to the tables and columns that
\* the guards ask for.
THEOREM LoggedMigrationsAreApplied == Spec => []LoggedIsApplied
  BY CleanupIsSound, InvLogged, PTL DEF CleanupInv

\* No Up of the nine, run or run again, meets a table, column or index it did
\* not expect, unless a rollback was cut short.
THEOREM MigrateCanBeRerun == Spec => []RerunIsAccepted
  BY CleanupIsSound, InvRerun, PTL DEF CleanupInv

\* A database on which migrate has nothing left to do has all that the models
\* use.
THEOREM SchemaServesProgram == Spec => []MigratedServesProgram
  BY CleanupIsSound, InvServes, PTL DEF CleanupInv

\* A run of the cleanup job without an error has removed every row it was done
\* with, with any number of workers and deaths.
THEOREM CleanRunsClear == Spec => []CleanRunClears
  <1>1. CleanupInv => CleanRunClears
    BY DEF CleanupInv, JobIsSound, SoundIn, InHand, CleanRunClears
  <1> QED
    BY CleanupIsSound, <1>1, PTL

\* An expiring row goes when its file is gone, or with its table: no file is left
\* on the disk that nothing in the database names.
THEOREM FilesGoFirst == Spec => NoOrphanOnImages
  <1>1. ASSUME CleanupInv, [Next]_vars,
               NEW o \in outputs \ outputs', OutputsTable \in schema'
        PROVE  o.id \notin files
    <2>1. outputs' # outputs
      OBVIOUS
    <2>2. ~MigrateStep
      BY <1>1, <2>1 DEF MigrateStep, rows
    <2>3. PICK w \in Workers : DeleteRow(w)
      BY <1>1, <2>1, <2>2 DEF Next, PersistOutput, Tick, Cleanup, TakeJob,
         Find, Exists, DeleteFile, EndRun, Die, vars, cleaning, rows
    <2>4. job[w].at = "delete row" /\ o.id = job[w].row.id
      BY <1>1, <2>3 DEF DeleteRow
    <2> QED
      BY <1>1, <2>4, JobOf DEF SoundIn
  <1>2. CleanupInv /\ [Next]_vars =>
          [\A o \in outputs \ outputs' :
             OutputsTable \in schema' /\ o.expires # None => o.id \notin files]_vars
    BY <1>1
  <1> QED
    BY CleanupIsSound, <1>2, PTL DEF Spec, NoOrphanOnImages

\* A row without an expiry, as ProcessImageRequestJob writes them, goes neither
\* with its table, unless the Up that allows NULL was cut short, nor by the
\* cleanup, unless a worker still has a list that it read before the table was
\* last dropped.
THEOREM PermanentRowsStay == Spec => PermanentOutputsStay
  <1>1. ASSUME CleanupInv, MigrateStep, NEW o \in outputs \ outputs'
        PROVE  /\ OutputsTable \notin schema'
               /\ o.expires = None => <<7, "up">> \in cut
    <2>1. OutputsTable \notin schema' /\ OutputsTable \in schema
      BY <1>1 DEF MigrateStep, rows, CleanupInv, RowsInv
    <2>2. o.expires = None => HasNulls
      BY DEF HasNulls
    <2> QED
      BY <1>1, <2>1, <2>2, TableStays DEF CleanupInv, RowsInv
  <1>2. ASSUME CleanupInv, NEW w \in Workers, DeleteRow(w),
               NEW o \in outputs \ outputs'
        PROVE  /\ OutputsTable \in schema'
               /\ o.expires # None => o.expires <= now
               /\ o.expires = None => Mistakes(w, o)
    <2>1. /\ job[w].at = "delete row" /\ job[w].row.id = o.id
          /\ OutputsTable \in schema'
      BY <1>2 DEF DeleteRow, migrating
    <2>2. /\ job[w].row \in job[w].expired
          /\ o.id \in 1 .. OldOutputs /\ o.id <= now
          /\ job[w].row.expires \in 1 .. OldOutputs
      BY <1>2, <2>1, JobOf DEF SoundIn, InHand
    <2>3. o.expires # None => o.expires <= now
      BY <1>2, <2>2, JobOf
    <2>4. ASSUME o.expires = None
          PROVE  job[w].stale
      <3>1. o # job[w].row
        BY <2>2, <2>4, OldIds
      <3>2. ~IsThat(job[w].row, outputs, nextId)
        BY <2>1, <3>1 DEF IsThat
      <3>3. ~job[w].stale => IsThat(job[w].row, outputs, nextId)
        BY <1>2, <2>2, JobOf DEF SoundIn
      <3> QED
        BY <3>2, <3>3
    <2> QED
      BY <2>1, <2>3, <2>4 DEF Mistakes
  <1>3. ASSUME CleanupInv, [Next]_vars, NEW o \in outputs \ outputs'
        PROVE  IF o.expires = None
               THEN IF OutputsTable \in schema' THEN \E w \in Workers : Mistakes(w, o)
                                                ELSE <<7, "up">> \in cut
               ELSE o.expires <= now \/ OutputsTable \notin schema'
    <2>1. \/ MigrateStep
          \/ \E w \in Workers : DeleteRow(w)
      BY <1>3 DEF Next, PersistOutput, Tick, Cleanup, TakeJob,
         Find, Exists, DeleteFile, EndRun, Die, vars, cleaning, rows
    <2>2. CASE MigrateStep
      BY <1>1, <1>3, <2>2
    <2>3. CASE \E w \in Workers : DeleteRow(w)
      BY <1>2, <1>3, <2>3
    <2> QED
      BY <2>1, <2>2, <2>3
  <1>4. CleanupInv /\ [Next]_vars =>
          [\A o \in outputs \ outputs' :
             IF o.expires = None
             THEN IF OutputsTable \in schema' THEN \E w \in Workers : Mistakes(w, o)
                                              ELSE <<7, "up">> \in cut
             ELSE o.expires <= now \/ OutputsTable \notin schema']_vars
    BY <1>3
  <1> QED
    BY CleanupIsSound, <1>4, PTL DEF Spec, PermanentOutputsStay
=============================================================================
