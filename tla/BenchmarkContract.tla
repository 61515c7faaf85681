-------------------------- MODULE BenchmarkContract --------------------------
(***************************************************************************)
(* What include/rct/benchmark.h promises of a series of calls to           *)
(* rct_run_benchmark that share one result object, without saying how the  *)
(* runner keeps the promise.                                               *)
(*                                                                         *)
(* The workload is promised a lifecycle: setup once, then any number of    *)
(* rounds prepare - invoke - observe on the one fixture, with prepare and  *)
(* observe outside the timed interval, and destroy once if setup made a    *)
(* fixture.  The caller is promised a complete result on success, an empty *)
(* one on failure, and the status "validation_failure" exactly when an     *)
(* implementation was rejected.                                            *)
(***************************************************************************)

VARIABLES
  lifecycle,  \* what the fixture of the latest call has been through
  timed,      \* TRUE between the two clock reads of a measured iteration
  verdict,    \* what the last validation of the fixture said
  outcome,    \* "none" before a call, "running" in it, then its status
  delivered   \* what the caller's result object holds outside a call

contractVars == <<lifecycle, timed, verdict, outcome, delivered>>

Lifecycle == {"none", "ready", "prepared", "invoked", "destroyed"}

Verdict == {"none", "accepted", "rejected"}

Status == {"ok", "invalid_configuration", "allocation_failure",
           "clock_failure", "setup_failure", "validation_failure"}

(* The values of the state; delivered is "nothing" while nothing is known  *)
(* of the caller's result object: before the first call and during a call. *)
ContractTypeOK ==
  /\ lifecycle \in Lifecycle
  /\ timed \in BOOLEAN
  /\ verdict \in Verdict
  /\ outcome \in Status \cup {"none", "running"}
  /\ delivered \in {"nothing", "empty", "complete"}

ContractInit ==
  /\ lifecycle = "none"
  /\ timed = FALSE
  /\ verdict = "none"
  /\ outcome = "none"
  /\ delivered \in {"nothing", "empty"}

(***************************************************************************)
(* The caller starts a call; it destroys a complete result first, as the   *)
(* header asks of the owner of the object.                                 *)
(***************************************************************************)
Called ==
  /\ outcome # "running"
  /\ delivered # "complete"
  /\ lifecycle' = "none"
  /\ timed' = FALSE
  /\ verdict' = "none"
  /\ outcome' = "running"
  /\ delivered' = "nothing"

(***************************************************************************)
(* The workload's side.                                                    *)
(***************************************************************************)
Move(from, to) ==
  /\ outcome = "running"
  /\ lifecycle = from
  /\ lifecycle' = to

SetupCalled ==
  /\ Move("none", "ready")
  /\ UNCHANGED <<timed, verdict, outcome, delivered>>

PrepareCalled ==
  /\ Move("ready", "prepared")
  /\ ~ timed
  /\ verdict # "rejected"
  /\ UNCHANGED <<timed, verdict, outcome, delivered>>

TimerStarted ==
  /\ outcome = "running"
  /\ lifecycle = "prepared"
  /\ ~ timed
  /\ timed' = TRUE
  /\ UNCHANGED <<lifecycle, verdict, outcome, delivered>>

Invoked ==
  /\ Move("prepared", "invoked")
  /\ UNCHANGED <<timed, verdict, outcome, delivered>>

TimerStopped ==
  /\ outcome = "running"
  /\ lifecycle = "invoked"
  /\ timed
  /\ timed' = FALSE
  /\ UNCHANGED <<lifecycle, verdict, outcome, delivered>>

ObserveCalled ==
  /\ Move("invoked", "ready")
  /\ ~ timed
  /\ UNCHANGED <<timed, verdict, outcome, delivered>>

ValidateCalled ==
  /\ outcome = "running"
  /\ lifecycle = "ready"
  /\ verdict # "rejected"
  /\ verdict' \in {"accepted", "rejected"}
  /\ UNCHANGED <<lifecycle, timed, outcome, delivered>>

DestroyCalled ==
  /\ \/ Move("ready", "destroyed")
     \/ Move("prepared", "destroyed")
  /\ ~ timed
  /\ UNCHANGED <<timed, verdict, outcome, delivered>>

(***************************************************************************)
(* The caller's side.  A call may only return once it holds no fixture.    *)
(***************************************************************************)
Returned ==
  /\ outcome = "running"
  /\ lifecycle \in {"none", "destroyed"}
  /\ outcome' \in Status
  /\ delivered' = IF outcome' = "ok" THEN "complete" ELSE "empty"
  /\ outcome' = "ok" => verdict = "accepted"
  /\ (outcome' = "validation_failure") <=> (verdict = "rejected")
  /\ UNCHANGED <<lifecycle, timed, verdict>>

Discarded ==
  /\ outcome # "running"
  /\ outcome' = "none"
  /\ delivered' = "empty"
  /\ UNCHANGED <<lifecycle, timed, verdict>>

ContractNext ==
  \/ Called
  \/ SetupCalled
  \/ PrepareCalled
  \/ TimerStarted
  \/ Invoked
  \/ TimerStopped
  \/ ObserveCalled
  \/ ValidateCalled
  \/ DestroyCalled
  \/ Returned
  \/ Discarded

ContractSpec == ContractInit /\ [][ContractNext]_contractVars
==============================================================================
