----------------------- MODULE CleanupExpiredImagesJob -----------------------
(***************************************************************************)
(* CleanupExpiredImagesJob.Handle, one action per statement or storage     *)
(* call, for the worker of the cleanup queue of every process, beside the  *)
(* migrations.  Nothing dispatches it today, yet it is registered and its  *)
(* worker runs: a job put on the queue by hand is taken.  The rows it is   *)
(* for are those of the time when outputs expired and lay on the "images"  *)
(* disk; the rows of ProcessImageRequestJob have no expiry and their files *)
(* are on "s3", where this job does not look.  A rollback may drop the      *)
(* table under a worker; made again, it numbers its rows from 1.           *)
(***************************************************************************)
EXTENDS SchemaMigrations

CONSTANTS
  Workers,     \* processes, each with one worker of concurrency 1
  OldOutputs,  \* how many rows were created before outputs were permanent
  None,
  MaxOutputs,  \* bound: the highest id
  MaxTime,     \* bound: where the clock stops
  MaxFaults    \* bound: statements and deletions that fail

ASSUME CleanupAssumption ==
  /\ OldOutputs \in Nat /\ MaxOutputs \in Nat /\ OldOutputs <= MaxOutputs
  /\ None \notin Nat
  /\ MaxTime \in Nat /\ MaxFaults \in Nat

VARIABLES
  now,
  outputs,   \* rows of image_outputs, as [id, expires]
  nextId,    \* the id that image_outputs gives next
  files,     \* old rows, by id, whose path exists on the "images" disk
  job,       \* of every worker
  faults

rows     == <<outputs, nextId>>
cleaning == <<now, rows, files, job, faults>>
vars     == <<migrating, cleaning>>

\* todo: rows of expired still to do, with their id; at: the call to make for
\* the row in hand; faulty: something failed in this run; stale (history): the
\* table was dropped since this run's SELECT.
Waiting == [at |-> "wait", expired |-> {}, todo |-> {}, row |-> None,
            faulty |-> FALSE, stale |-> FALSE]

OutputsTable == Table("image_outputs")

\* Old row i expires at time i.
OldRows == {[id |-> i, expires |-> i] : i \in 1 .. OldOutputs}

Init ==
  /\ MigrateInit
  /\ now = 0
  /\ \/ /\ OutputsTable \in schema
        /\ outputs \in SUBSET OldRows
        /\ nextId = OldOutputs + 1
     \/ /\ OutputsTable \notin schema
        /\ outputs = {}
        /\ nextId = 1
  /\ files \in SUBSET {o.id : o \in outputs}
  /\ job = [w \in Workers |-> Waiting]
  /\ faults = 0

Fails == faults < MaxFaults /\ faults' = faults + 1

Step(w, at) == job' = [job EXCEPT ![w].at = at]

(***************************************************************************)
(* The migrations, with what they do to the rows.                          *)
(***************************************************************************)
HasNulls == \E o \in outputs : o.expires = None

MigrateStep ==
  /\ Migrate(HasNulls)
  /\ IF OutputsTable \in schema' THEN UNCHANGED <<rows, job>>
     ELSE /\ outputs' = {}
          /\ nextId' = 1
          /\ job' = [w \in Workers |->
                      [job[w] EXCEPT !.stale = job[w].at # "wait"]]
  /\ UNCHANGED <<now, files, faults>>

Permanent == {OutputsTable, <<"image_outputs", "expires_at NULL">>} \subseteq schema

\* A version that numbers the rows itself.
PersistOutputCounting ==
  /\ Permanent /\ nextId <= MaxOutputs
  /\ nextId' = nextId + 1
  /\ \E i \in 1 .. nextId : outputs' = outputs \cup {[id |-> i, expires |-> None]}
  /\ UNCHANGED <<migrating, now, files, job, faults>>

\* persistOutput's Create: the job sets no ExpiresAt.
PersistOutput ==
  /\ Permanent /\ nextId <= MaxOutputs
  /\ nextId' = nextId + 1
  /\ outputs' = outputs \cup {[id |-> nextId, expires |-> None]}
  /\ UNCHANGED <<migrating, now, files, job, faults>>

Tick == /\ now < MaxTime
        /\ now' = now + 1
        /\ UNCHANGED <<migrating, rows, files, job, faults>>

(***************************************************************************)
(* The job.                                                                *)
(***************************************************************************)
\* The queue is the jobs table.
TakeJob(w) ==
  /\ job[w].at = "wait"
  /\ Table("jobs") \in schema
  /\ Step(w, "find")
  /\ UNCHANGED <<migrating, now, rows, files, faults>>

\* expires_at <= now is not true of NULL.
Expired == {o \in outputs : o.expires # None /\ o.expires <= now}

Find(w) ==
  /\ job[w].at = "find"
  /\ \/ /\ OutputsTable \in schema
        /\ job' = [job EXCEPT ![w].expired = Expired, ![w].todo = Expired,
                              ![w].at = "next", ![w].stale = FALSE]
        /\ UNCHANGED faults
     \/ /\ \/ OutputsTable \notin schema /\ UNCHANGED faults
           \/ Fails
        /\ job' = [job EXCEPT ![w] = Waiting]
  /\ UNCHANGED <<migrating, now, rows, files>>

\* A version that takes a missing file for a row done with.
ExistsOrSkip(w) ==
  /\ job[w].at = "next"
  /\ \E o \in job[w].todo :
       job' = [job EXCEPT ![w].todo = @ \ {o}, ![w].row = o,
                 ![w].at = IF o.id \in files THEN "delete file" ELSE "next"]
  /\ UNCHANGED <<migrating, now, rows, files, faults>>

\* Exists of the next row's path, on the "images" disk.
Exists(w) ==
  /\ job[w].at = "next"
  /\ \E o \in job[w].todo :
       job' = [job EXCEPT ![w].todo = @ \ {o}, ![w].row = o,
                 ![w].at = IF o.id \in files THEN "delete file" ELSE "delete row"]
  /\ UNCHANGED <<migrating, now, rows, files, faults>>

\* A version that goes on although the file could not be deleted.
DeleteFileOrNot(w) ==
  /\ job[w].at = "delete file"
  /\ Step(w, "delete row")
  /\ \/ files' = files \ {job[w].row.id} /\ UNCHANGED faults
     \/ Fails /\ UNCHANGED files
  /\ UNCHANGED <<migrating, now, rows>>

\* A file that is gone by now is an error to the disk, too; either way the
\* row is left to the next run.
DeleteFile(w) ==
  /\ job[w].at = "delete file"
  /\ \/ /\ job[w].row.id \in files
        /\ files' = files \ {job[w].row.id}
        /\ Step(w, "delete row")
        /\ UNCHANGED faults
     \/ /\ (job[w].row.id \notin files /\ UNCHANGED faults) \/ Fails
        /\ job' = [job EXCEPT ![w].at = "next", ![w].faulty = TRUE]
        /\ UNCHANGED files
  /\ UNCHANGED <<migrating, now, rows>>

\* By id alone, whatever row has it by now; a row that is gone is deleted
\* without an error.
DeleteRow(w) ==
  /\ job[w].at = "delete row"
  /\ \/ /\ OutputsTable \in schema
        /\ outputs' = {o \in outputs : o.id # job[w].row.id}
        /\ Step(w, "next")
        /\ UNCHANGED faults
     \/ /\ (OutputsTable \notin schema /\ UNCHANGED faults) \/ Fails
        /\ job' = [job EXCEPT ![w].at = "next", ![w].faulty = TRUE]
        /\ UNCHANGED outputs
  /\ UNCHANGED <<migrating, now, nextId, files>>

EndRun(w) ==
  /\ job[w].at = "next" /\ job[w].todo = {}
  /\ job' = [job EXCEPT ![w] = Waiting]
  /\ UNCHANGED <<migrating, now, rows, files, faults>>

\* The process dies, between any two calls.
Die(w) == /\ job[w].at # "wait"
          /\ job' = [job EXCEPT ![w] = Waiting]
          /\ UNCHANGED <<migrating, now, rows, files, faults>>

Cleanup(w) == \/ TakeJob(w) \/ Find(w) \/ Exists(w) \/ DeleteFile(w)
              \/ DeleteRow(w) \/ EndRun(w) \/ Die(w)

Next == MigrateStep \/ PersistOutput \/ Tick \/ \E w \in Workers : Cleanup(w)

Spec == Init /\ [][Next]_vars

TypeOK ==
  /\ MigrationsTypeOK
  /\ now \in 0 .. MaxTime /\ faults \in 0 .. MaxFaults
  /\ nextId \in 1 .. MaxOutputs + 1
  /\ outputs \subseteq [id : 1 .. nextId - 1, expires : Nat \cup {None}]
  /\ \A a, b \in outputs : a.id = b.id => a = b
  /\ files \subseteq 1 .. OldOutputs
  /\ \A w \in Workers : job[w].todo \subseteq job[w].expired

(***************************************************************************)
(* What must not be lost, and what must not be left.                       *)
(***************************************************************************)
\* A worker about to delete row o by an id that it read in a table since
\* dropped, in which the id was another row's.
Mistakes(w, o) ==
  job[w].at = "delete row" /\ job[w].row.id = o.id /\ job[w].stale

\* Outputs are permanent: a row without an expiry goes neither with the table,
\* as the rollback that forbids NULL fails on it first (unless the migration
\* that allowed NULL was cut short before it was logged), nor by the cleanup,
\* unless a worker is still at the list of a table that was dropped and made
\* again under it.  Other rows go when they expired, or with the table.
PermanentOutputsStay ==
  [][\A o \in outputs \ outputs' :
       IF o.expires = None
       THEN IF OutputsTable \in schema' THEN \E w \in Workers : Mistakes(w, o)
                                        ELSE <<7, "up">> \in cut
       ELSE o.expires <= now \/ OutputsTable \notin schema']_vars

\* The row, which alone knows the path, does not go before the file.
NoOrphanOnImages ==
  [][\A o \in outputs \ outputs' :
       OutputsTable \in schema' /\ o.expires # None => o.id \notin files]_vars

\* A run in which nothing failed has removed every row it came to, whatever a
\* crashed run or another worker did before or does meanwhile.
CleanRunClears ==
  \A w \in Workers :
    job[w].at = "next" /\ ~job[w].faulty =>
      (job[w].expired \ job[w].todo) \cap outputs = {}
==============================================================================
