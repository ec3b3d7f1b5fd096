---------------------------- MODULE OperationWrite ----------------------------
(***************************************************************************)
(* execute_controlled_write: one qualified timer write with its checks,    *)
(* the readback that classifies it, and Ctrl-C at any moment.  The event   *)
(* operations never pass the qualification, so the readback is of one      *)
(* request and "partial" cannot arise.                                     *)
(***************************************************************************)
EXTENDS Naturals

CONSTANTS Timers,       \* raw replies of the timer: baseline, target, others
          MaxChanges    \* bound: changes made by others

ASSUME OperationAssumption == MaxChanges \in Nat

VARIABLES
  pc, plan,            \* the request: [before, after]
  timer,               \* what the device holds
  qualified,           \* the device is the one the qualification names
  attempts, frames, inFlight,
  fed,                 \* the transport returned feedback for the write
  outcome,             \* "none", a WriteOutcome, or "raised": an exception
  application,         \* application_state: "none", "not_attempted", "ambiguous"
  changes

world == <<timer, qualified, inFlight, changes>>
report == <<outcome, application>>
vars == <<pc, plan, world, attempts, frames, fed, report>>

Init ==
  /\ pc = "validate" /\ plan \in [before : Timers, after : Timers]
  /\ timer \in Timers /\ qualified \in BOOLEAN
  /\ attempts = 0 /\ frames = 0 /\ inFlight = FALSE /\ fed = FALSE
  /\ outcome = "none" /\ application = "none" /\ changes = 0

Continue(where) == pc' = where /\ UNCHANGED report
End(o) == pc' = "done" /\ outcome' = o /\ UNCHANGED application
Interrupted(state) == pc' = "done" /\ outcome' = "interrupted" /\ application' = state

-----------------------------------------------------------------------------
(* Destination, qualification and confirmation; an unchanged edit raises.  *)
Validate ==
  /\ pc = "validate"
  /\ End("raised") \/ (plan.before # plan.after /\ Continue("identity"))
  /\ UNCHANGED <<plan, world, attempts, frames, fed>>

VerifyIdentity ==
  /\ pc = "identity"
  /\ End("raised") \/ (qualified /\ Continue("pre_read")) \/ Interrupted("not_attempted")
  /\ UNCHANGED <<plan, world, attempts, frames, fed>>

PreRead ==
  /\ pc = "pre_read"
  /\ \/ End("pre_read_failed") \/ Interrupted("not_attempted")
     \/ timer # plan.before /\ End("baseline_mismatch")
     \/ timer = plan.before /\ Continue("write")
  /\ UNCHANGED <<plan, world, attempts, frames, fed>>

(* Mutant of MayAdmit: the hook counts and never refuses.                  *)
AlwaysAdmits == TRUE
MayAdmit == attempts = 0
Admit ==
  /\ pc = "write" /\ MayAdmit /\ attempts' = attempts + 1 /\ Continue("admitted")
  /\ UNCHANGED <<plan, world, frames, fed>>
NotAdmitted ==
  /\ pc = "write" /\ Continue("readback")
  /\ UNCHANGED <<plan, world, attempts, frames, fed>>
Transmit ==
  /\ pc = "admitted" /\ frames' = frames + 1 /\ inFlight' = TRUE /\ Continue("sent")
  /\ UNCHANGED <<plan, timer, qualified, changes, attempts, fed>>
AttemptFails ==
  /\ pc \in {"admitted", "sent"} /\ (Continue("write") \/ Continue("readback"))
  /\ UNCHANGED <<plan, world, attempts, frames, fed>>
AttemptAnswered ==
  /\ pc = "sent" /\ fed' = TRUE /\ Continue("readback")
  /\ UNCHANGED <<plan, world, attempts, frames>>

(* Mutant of StateOfInterrupt: no feedback is taken for no attempt.        *)
StateByFeedback == IF fed THEN "ambiguous" ELSE "not_attempted"
StateOfInterrupt == IF attempts > 0 THEN "ambiguous" ELSE "not_attempted"
InterruptWrite ==
  /\ pc \in {"write", "admitted", "sent"} /\ Interrupted(StateOfInterrupt)
  /\ UNCHANGED <<plan, world, attempts, frames, fed>>

(* Mutant of Classified: without an answer the write is taken as lost.     *)
ClassifiedByFeedback ==
  IF fed THEN "verified" ELSE "not_applied"
Classified ==
  IF timer = plan.after THEN "verified"
  ELSE IF timer = plan.before THEN "not_applied" ELSE "unexpected"
Readback ==
  /\ pc = "readback"
  /\ \/ End("ambiguous") \/ End(Classified)
     \/ Interrupted("ambiguous") \/ Interrupted(StateOfInterrupt)
  /\ UNCHANGED <<plan, world, attempts, frames, fed>>

-----------------------------------------------------------------------------
Deliver ==
  /\ inFlight /\ inFlight' = FALSE /\ timer' \in {timer, plan.after}
  /\ UNCHANGED <<pc, plan, qualified, changes, attempts, frames, fed, report>>
OthersChange ==
  /\ changes < MaxChanges /\ changes' = changes + 1
  /\ timer' \in Timers /\ qualified' \in BOOLEAN
  /\ UNCHANGED <<pc, plan, inFlight, attempts, frames, fed, report>>

Execution ==
  \/ Validate \/ VerifyIdentity \/ PreRead \/ Admit \/ NotAdmitted \/ Transmit
  \/ AttemptFails \/ AttemptAnswered \/ InterruptWrite \/ Readback
Next == Execution \/ Deliver \/ OthersChange
Spec == Init /\ [][Next]_vars

-----------------------------------------------------------------------------
Outcomes == {"none", "raised", "verified", "not_applied", "ambiguous", "interrupted",
             "unexpected", "baseline_mismatch", "pre_read_failed"}
TypeOK ==
  /\ pc \in {"validate", "identity", "pre_read", "write", "admitted", "sent",
             "readback", "done"}
  /\ plan \in [before : Timers, after : Timers] /\ timer \in Timers
  /\ qualified \in BOOLEAN /\ inFlight \in BOOLEAN /\ fed \in BOOLEAN
  /\ attempts \in 0..1 /\ frames \in 0..1 /\ changes \in 0..MaxChanges
  /\ outcome \in Outcomes /\ application \in {"none", "not_attempted", "ambiguous"}

(* "Execute one qualified write, one time": one frame at most, interrupted *)
(* or not.                                                                 *)
OneFrame == frames <= 1

(* A result that says the write was not attempted, or that ends before it, *)
(* is true at whatever moment Ctrl-C came.                                 *)
NotAttempted ==
  \/ application = "not_attempted"
  \/ outcome \in {"raised", "baseline_mismatch", "pre_read_failed"}
NotAttemptedIsTrue == NotAttempted => frames = 0

(* Why: the count the hook keeps moves before a frame does, and a report   *)
(* that denies the attempt is made while the count is 0.                   *)
Checking == {"validate", "identity", "pre_read"}
Sending == {"write", "admitted", "sent", "readback"}
FrameInv ==
  /\ TypeOK
  /\ frames <= attempts
  /\ pc \in Checking => attempts = 0
  /\ pc = "admitted" => frames = 0 /\ attempts = 1
  /\ pc = "done" <=> outcome # "none"
  /\ outcome = "none" => application = "none"
  /\ NotAttemptedIsTrue

(* "verified" and "not_applied" say what the device held when it was read  *)
(* after the last frame, not what the transport answered.                  *)
ReadbackDecides ==
  [][/\ outcome' = "verified" /\ outcome = "none" => timer = plan.after
     /\ outcome' = "not_applied" /\ outcome = "none" => timer = plan.before]_vars

(* SingleWrite, seen through the phases and the report.                    *)
Phase == IF outcome # "none" THEN "reported"
         ELSE IF pc \in Sending THEN "sending" ELSE "checking"
Claim == IF outcome = "none" THEN "none"
         ELSE IF NotAttempted THEN "nothing_sent" ELSE "read_back"
Promise == INSTANCE SingleWrite WITH phase <- Phase, claim <- Claim
PromiseKept == Promise!Spec
=============================================================================
