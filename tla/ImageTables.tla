---------------------------- MODULE ImageTables ----------------------------
(***************************************************************************)
(* The durable state of the image service: the three tables, the "images"  *)
(* disk that holds uploaded originals, and the "s3" disk that holds the    *)
(* generated outputs.  Nothing in it is lost when the server process dies. *)
(*                                                                         *)
(* Data is reduced to what the properties tell apart: an image is the way  *)
(* it decodes, a hash is a number that is never drawn twice for a request  *)
(* (0 is the empty hash), a storage path is the hash in it (the folder is  *)
(* the size's own), a timestamp is its age relative to                     *)
(* StaleProcessingTimeout, an error message is its kind.                   *)
(***************************************************************************)
EXTENDS Integers

CONSTANTS
  Requests,      \* ids of image_processing_requests the run may create
  Sizes,         \* width x height pairs a client may ask for
  OverPixelLimit,\* those whose area exceeds MaxTotalOutputPixels()
  Images,        \* kinds of upload, a subset of ImageKinds
  MaxFaults,     \* bound: statements and storage calls that may fail
  MaxCrashes,    \* bound: deaths of the server process
  MaxStalls      \* bound: heartbeats that stop landing though the job lives

ImageKinds == {"decodable", "oversized", "corrupt"}

ASSUME TablesAssumption ==
  /\ OverPixelLimit \subseteq Sizes
  /\ Images \subseteq ImageKinds
  /\ MaxFaults \in Nat /\ MaxCrashes \in Nat /\ MaxStalls \in Nat

VARIABLES
  row,        \* image_processing_requests, by id
  sizeStatus, \* image_processing_request_sizes: status by request and size
  output,     \* image_outputs: NoRow, EmptyPath or the hash in storage_path
  upload,     \* uploads/{id} on the "images" disk
  bucket,     \* objects on the "s3" disk, as <<request, size, hash>>
  minted,     \* how many hashes NewOutputHash has drawn for a request
  spent       \* how much of each environment budget has been used

tables == <<row, sizeStatus, output>>
disks  == <<upload, bucket>>

TerminalStatuses  == {"completed", "partially_completed", "failed"}
RetryableStatuses == {"failed", "partially_completed"}
Statuses == {"absent", "pending", "processing"} \cup TerminalStatuses

ErrorKinds == {"none", "no stored source file", "invalid image",
               "exceeds maximum", "processing failed",
               "assign output hash", "interrupted"}

SizeStatuses == {"absent", "pending", "completed", "failed"}

NoHash    == 0
EmptyPath == 0
NoRow     == -1

\* last_heartbeat_at: NULL, within StaleProcessingTimeout, or older.
Beats == {"none", "fresh", "stale"}

RequestRow == [status : Statuses, error : ErrorKinds, source : BOOLEAN,
               hash : Nat, started : BOOLEAN, beat : Beats]

AbsentRow == [status |-> "absent", error |-> "none", source |-> FALSE,
              hash |-> NoHash, started |-> FALSE, beat |-> "none"]

\* The sizes a request was created with; its size rows are never deleted.
Asked(r) == {s \in Sizes : sizeStatus[r][s] # "absent"}

\* Rows of image_outputs that belong to r, and those that carry a URL.
Recorded(r) == {s \in Sizes : output[r][s] # NoRow}
Served(r)   == {s \in Sizes : output[r][s] \notin {NoRow, EmptyPath}}

(***************************************************************************)
(* The environment's misbehaviour is bounded by a budget per kind.         *)
(***************************************************************************)
Kinds  == {"fault", "crash", "stall"}
Budget == [fault |-> MaxFaults, crash |-> MaxCrashes, stall |-> MaxStalls]

Spend(kind) == /\ spent[kind] < Budget[kind]
               /\ spent' = [spent EXCEPT ![kind] = @ + 1]

TablesInit ==
  /\ row = [r \in Requests |-> AbsentRow]
  /\ sizeStatus = [r \in Requests |-> [s \in Sizes |-> "absent"]]
  /\ output = [r \in Requests |-> [s \in Sizes |-> NoRow]]
  /\ upload = [r \in Requests |-> "none"]
  /\ bucket = {}
  /\ minted = [r \in Requests |-> 0]
  /\ spent = [fault |-> 0, crash |-> 0, stall |-> 0]

TablesTypeOK ==
  /\ row \in [Requests -> RequestRow]
  /\ sizeStatus \in [Requests -> [Sizes -> SizeStatuses]]
  /\ output \in [Requests -> [Sizes -> Nat \cup {NoRow}]]
  /\ upload \in [Requests -> Images \cup {"none"}]
  /\ bucket \subseteq Requests \X Sizes \X Nat
  /\ minted \in [Requests -> Nat]
  /\ spent \in [Kinds -> Nat]
=============================================================================
