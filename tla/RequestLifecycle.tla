-------------------------- MODULE RequestLifecycle --------------------------
(***************************************************************************)
(* What the service promises of one request, independent of how the work   *)
(* is done: its status moves pending -> processing -> {completed,          *)
(* partially_completed, failed}; only a retry of a failed or partially     *)
(* completed request takes it back to pending; outputs are recorded and    *)
(* served only while it is processing and a served one stays; "completed"  *)
(* is claimed only with a recorded output for every size that was asked    *)
(* for, "partially_completed" only with one for some.  Work that nobody    *)
(* does any more may be given up, of several requests in one step.         *)
(***************************************************************************)
CONSTANTS Requests, Sizes

VARIABLES
  status,    \* by request
  asked,     \* sizes the request was created with
  recorded,  \* sizes with an output row
  served     \* sizes whose output row carries a storage path

vars == <<status, asked, recorded, served>>

Init ==
  /\ status = [r \in Requests |-> "absent"]
  /\ asked = [r \in Requests |-> {}]
  /\ recorded = [r \in Requests |-> {}]
  /\ served = [r \in Requests |-> {}]

Becomes(r, from, to) == /\ status[r] \in from
                        /\ status' = [status EXCEPT ![r] = to]

Create(r) ==
  /\ Becomes(r, {"absent"}, "pending")
  /\ \E sizes \in (SUBSET Sizes) \ {{}} :
       asked' = [asked EXCEPT ![r] = sizes]
  /\ UNCHANGED <<recorded, served>>

Begin(r) == /\ Becomes(r, {"pending"}, "processing")
            /\ UNCHANGED <<asked, recorded, served>>

Record(r) ==
  /\ status[r] = "processing"
  /\ \E s \in asked[r] \ recorded[r] :
       recorded' = [recorded EXCEPT ![r] = @ \cup {s}]
  /\ UNCHANGED <<status, asked, served>>

Forget(r) ==
  /\ status[r] = "processing"
  /\ \E s \in recorded[r] \ served[r] :
       recorded' = [recorded EXCEPT ![r] = @ \ {s}]
  /\ UNCHANGED <<status, asked, served>>

Serve(r) ==
  /\ status[r] = "processing"
  /\ \E s \in recorded[r] \ served[r] :
       served' = [served EXCEPT ![r] = @ \cup {s}]
  /\ UNCHANGED <<status, asked, recorded>>

Finish(r) ==
  /\ \/ Becomes(r, {"processing"}, "completed") /\ recorded[r] = asked[r]
     \/ Becomes(r, {"processing"}, "partially_completed") /\ recorded[r] # {}
     \/ Becomes(r, {"processing"}, "failed")
  /\ UNCHANGED <<asked, recorded, served>>

Retry(r) == /\ Becomes(r, {"failed", "partially_completed"}, "pending")
            /\ UNCHANGED <<asked, recorded, served>>

\* Work that was lost is given up, of several requests at once.
Interrupt ==
  \E lost \in (SUBSET Requests) \ {{}} :
    /\ \A r \in lost : status[r] = "processing"
    /\ status' = [r \in Requests |->
                    IF r \in lost THEN "failed" ELSE status[r]]
    /\ UNCHANGED <<asked, recorded, served>>

Next ==
  \/ \E r \in Requests :
       \/ Create(r) \/ Begin(r) \/ Record(r) \/ Forget(r) \/ Serve(r)
       \/ Finish(r) \/ Retry(r)
  \/ Interrupt

Spec == Init /\ [][Next]_vars
=============================================================================
