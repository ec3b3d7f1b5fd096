---------------------------- MODULE ParameterWrite ----------------------------
(***************************************************************************)
(* execute_parameter_write and recheck_parameter_write: one prepared write *)
(* of a B524 parameter with its fresh checks, the transport below it and   *)
(* the device, which other controllers and its owner may change meanwhile. *)
(* A raw value that does not fit the codec counts as a failed read.        *)
(***************************************************************************)
EXTENDS Naturals

CONSTANTS Values,                  \* raw values of the parameter
          MaxChanges, MaxRechecks  \* bounds: foreign changes, rechecks

WriteConstants == MaxChanges \in Nat /\ MaxRechecks \in Nat

VARIABLES
  pc,        \* where the execution is
  plan,      \* the preparation: [baseline, desired]
  device,    \* [value, own, writable]: own is the identity the plan names
  foreign,   \* somebody else changed the value since it was last read
  attempts,  \* the count admit_once keeps
  frames,    \* write frames the transport put on the wire
  inFlight,  \* a frame that may still take effect
  outcome,   \* "none", a ParameterWriteOutcome, or "refused": an exception
  changes, rechecks

world == <<device, foreign, inFlight, changes>>
vars == <<pc, plan, world, attempts, frames, outcome, rechecks>>

NothingSent == {"no_op", "blocked", "reconfirmation_required", "refused"}
ReadBack == {"desired", "other", "unknown"}

Init ==
  /\ pc = "confirm" /\ plan \in [baseline : Values, desired : Values]
  /\ device \in [value : Values, own : BOOLEAN, writable : BOOLEAN]
  /\ foreign = FALSE /\ attempts = 0 /\ frames = 0 /\ inFlight = FALSE
  /\ outcome = "none" /\ changes = 0 /\ rechecks = 0

Continue(where) == pc' = where /\ UNCHANGED outcome
End(o) == pc' = "done" /\ outcome' = o

-----------------------------------------------------------------------------
(* The confirmation is for another write, there is nothing to change, or   *)
(* the incomplete-limits exception is not confirmed.                       *)
Confirm ==
  /\ pc = "confirm"
  /\ \/ End("refused")
     \/ plan.baseline = plan.desired /\ End("no_op")
     \/ plan.baseline # plan.desired /\ Continue("identity")
  /\ UNCHANGED <<plan, world, attempts, frames, rechecks>>

VerifyIdentity ==
  /\ pc = "identity"
  /\ End("refused") \/ (device.own /\ Continue("profile"))
  /\ UNCHANGED <<plan, world, attempts, frames, rechecks>>

FreshProfile ==
  /\ pc = "profile" /\ (End("refused") \/ Continue("baseline"))
  /\ UNCHANGED <<plan, world, attempts, frames, rechecks>>

(* Mutant of SameBaseline: any fresh value will do.                        *)
AnyBaseline == TRUE
SameBaseline == device.value = plan.baseline
ReadBaseline ==
  /\ pc = "baseline"
  /\ \/ End("blocked")                              \* no usable answer
     \/ device.writable /\ SameBaseline /\ Continue("resolve")
     \/ device.writable /\ ~SameBaseline /\ End("reconfirmation_required")
  /\ foreign' = FALSE
  /\ UNCHANGED <<plan, device, inFlight, changes, attempts, frames, rechecks>>

(* The description is resolved again, for the live profile.                *)
ResolveDescription ==
  /\ pc = "resolve"
  /\ End("refused") \/ End("reconfirmation_required") \/ Continue("write")
  /\ UNCHANGED <<plan, world, attempts, frames, rechecks>>

-----------------------------------------------------------------------------
(* Mutant of MayAdmit: the hook counts and never refuses.                  *)
AlwaysAdmits == TRUE
MayAdmit == attempts = 0
(* The transport asks the hook before every attempt of its own.            *)
Admit ==
  /\ pc = "write" /\ MayAdmit /\ attempts' = attempts + 1 /\ Continue("admitted")
  /\ UNCHANGED <<plan, world, frames, rechecks>>
(* Mutant of NotAdmitted: the hook's exception is not caught, and nothing  *)
(* is reported.                                                            *)
HookRefusalUncaught ==
  /\ pc = "write" /\ Continue("lost")
  /\ UNCHANGED <<plan, world, attempts, frames, rechecks>>
(* The hook raises, or the transport fails before it asks.                 *)
NotAdmitted ==
  /\ pc = "write" /\ Continue("readback")
  /\ UNCHANGED <<plan, world, attempts, frames, rechecks>>

Transmit ==
  /\ pc = "admitted" /\ frames' = frames + 1 /\ inFlight' = TRUE /\ Continue("sent")
  /\ UNCHANGED <<plan, device, foreign, changes, attempts, rechecks>>

(* The attempt ends, before or after its frame was sent: the transport may *)
(* try again, fail, or, when the frame took effect, have an answer.        *)
AttemptEnds ==
  /\ pc \in {"admitted", "sent"} /\ (Continue("write") \/ Continue("readback"))
  /\ UNCHANGED <<plan, world, attempts, frames, rechecks>>

(* Mutant of Readback: a write that failed is taken not to have happened.  *)
FailedMeansUnsent ==
  /\ pc = "readback" /\ (End("blocked") \/ End("desired"))
  /\ UNCHANGED <<plan, world, attempts, frames, rechecks>>
Readback ==
  /\ pc = "readback"
  /\ \/ End("unknown")
     \/ device.value = plan.desired /\ End("desired")
     \/ device.value # plan.desired /\ End("other")
  /\ UNCHANGED <<plan, world, attempts, frames, rechecks>>

Recheck ==
  /\ pc = "done" /\ outcome = "unknown" /\ rechecks < MaxRechecks
  /\ Continue("recheck") /\ rechecks' = rechecks + 1
  /\ UNCHANGED <<plan, world, attempts, frames>>
(* The identity is verified again before the value is read; a recheck that *)
(* raises leaves the last result as it was.                                *)
RecheckReads ==
  /\ pc = "recheck"
  /\ \/ Continue("done")
     \/ device.own /\ End("unknown")
     \/ device.own /\ device.value = plan.desired /\ End("desired")
     \/ device.own /\ device.value # plan.desired /\ End("other")
  /\ UNCHANGED <<plan, world, attempts, frames, rechecks>>

-----------------------------------------------------------------------------
(* The frame takes effect, perhaps long after the transport gave up on it, *)
(* or is lost.                                                             *)
Deliver ==
  /\ inFlight /\ inFlight' = FALSE
  /\ device' \in {device, [device EXCEPT !.value = plan.desired]}
  /\ UNCHANGED <<pc, plan, foreign, changes, attempts, frames, outcome, rechecks>>

OthersChange ==
  /\ changes < MaxChanges /\ changes' = changes + 1
  /\ device' \in [value : Values, own : BOOLEAN, writable : BOOLEAN]
  /\ foreign' = (foreign \/ device' # device)
  /\ UNCHANGED <<pc, plan, inFlight, attempts, frames, outcome, rechecks>>

Execution ==
  \/ Confirm \/ VerifyIdentity \/ FreshProfile \/ ReadBaseline \/ ResolveDescription
  \/ Admit \/ NotAdmitted \/ Transmit \/ AttemptEnds \/ Readback \/ RecheckReads
Next == Execution \/ Recheck \/ Deliver \/ OthersChange

(* Every request the execution makes ends: the transport has a deadline.   *)
Spec == Init /\ [][Next]_vars /\ WF_vars(Execution)

-----------------------------------------------------------------------------
TypeOK ==
  /\ pc \in {"confirm", "identity", "profile", "baseline", "resolve", "write",
             "admitted", "sent", "readback", "recheck", "done"}
  /\ plan \in [baseline : Values, desired : Values]
  /\ device \in [value : Values, own : BOOLEAN, writable : BOOLEAN]
  /\ foreign \in BOOLEAN /\ inFlight \in BOOLEAN
  /\ attempts \in 0..1 /\ frames \in 0..1
  /\ outcome \in NothingSent \union ReadBack \union {"none"}
  /\ changes \in 0..MaxChanges /\ rechecks \in 0..MaxRechecks

Checking == {"confirm", "identity", "profile", "baseline", "resolve"}
Sending == {"write", "admitted", "sent", "readback"}
Reported == {"recheck", "done"}

(* Why there is one frame at most, and why it does not overwrite blindly:  *)
(* the hook's count bounds the frames, an admitted attempt is the first, an*)
(* outcome that claims nothing was sent is reached before the count moved, *)
(* and until a frame is sent the value is the baseline or somebody else's. *)
BaselineHolds == foreign \/ (device.value = plan.baseline /\ device.writable)
FrameInv ==
  /\ TypeOK
  /\ frames <= attempts /\ (inFlight => frames = 1)
  /\ pc \in Checking => attempts = 0
  /\ pc = "admitted" => frames = 0 /\ attempts = 1
  /\ pc = "sent" => frames = 1
  /\ pc \in Reported <=> outcome # "none"
  /\ outcome \in NothingSent => frames = 0
  /\ pc = "recheck" => outcome = "unknown"
  /\ pc \in {"resolve", "write", "admitted"} /\ frames = 0 => BaselineHolds

(* "Admit one native write": however often the transport retries, and      *)
(* however often the result is rechecked, one frame leaves at most.        *)
OneFrame == frames <= 1

(* An outcome that says nothing was sent is true, and attempts reported as *)
(* zero mean that no frame was sent.                                       *)
HonestReport ==
  /\ outcome \in NothingSent => frames = 0
  /\ attempts = 0 => frames = 0

(* A frame never overwrites a value other than the confirmed baseline, nor *)
(* goes to a parameter that is not writable, unless somebody changed the   *)
(* device after the execution had read it.                                 *)
OverBaseline == frames' > frames => BaselineHolds
NoBlindOverwrite == [][OverBaseline]_vars

(* Once the outcome is there nothing is sent any more, by no recheck.      *)
NothingAfterReport == [][outcome # "none" => frames' = frames]_vars

(* Every execution and every recheck ends with an outcome.                 *)
Ends == pc # "done" ~> pc = "done" /\ outcome # "none"

(* SingleWrite, seen through the phases and the kind of the outcome.       *)
Phase == IF outcome # "none" THEN "reported"
         ELSE IF pc \in Sending THEN "sending" ELSE "checking"
Claim == IF outcome \in NothingSent THEN "nothing_sent"
         ELSE IF outcome = "none" THEN "none" ELSE "read_back"
Promise == INSTANCE SingleWrite WITH phase <- Phase, claim <- Claim
PromiseKept == Promise!Spec
=============================================================================
