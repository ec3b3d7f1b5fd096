-------------------------- MODULE InterfacesProofs --------------------------
(***************************************************************************)
(* Proofs about the programs around a scan, for every value of their       *)
(* constants.  The parts do not share state, so an invariant of one of     *)
(* them is proved from its own actions, and carried to AllSpec: while      *)
(* another part is shown, nothing of it changes.                           *)
(***************************************************************************)
EXTENDS Interfaces, FiniteSetTheorems, SequenceTheorems, WellFoundedInduction, TLAPS

-----------------------------------------------------------------------------
(* OperationWrite: the controlled timer write.                             *)
USE DEF FrameInv, TypeOK, Checking, Sending, NotAttemptedIsTrue, NotAttempted, Outcomes

(* The invariant holds before anything is checked.                         *)
LEMMA FrameInit == Init => FrameInv
<1> SUFFICES ASSUME Init PROVE FrameInv
  OBVIOUS
<1>1. changes \in 0..MaxChanges BY OperationAssumption DEF Init, OperationAssumption
<1>2. inFlight \in BOOLEAN /\ fed \in BOOLEAN BY DEF Init
<1> QED BY <1>1, <1>2 DEF Init

(* One step per action: what it does to pc, the counts and the report.     *)
LEMMA FrameStep == FrameInv /\ [Next]_vars => FrameInv'
<1> SUFFICES ASSUME FrameInv, [Next]_vars PROVE FrameInv'
  OBVIOUS
<1> USE OperationAssumption
    DEF OperationAssumption, Continue, End, Interrupted, world, report
<1>1. CASE Validate BY <1>1 DEF Validate
<1>2. CASE VerifyIdentity BY <1>2 DEF VerifyIdentity
<1>3. CASE PreRead BY <1>3 DEF PreRead
<1>4. CASE Admit BY <1>4 DEF Admit, MayAdmit
<1>5. CASE NotAdmitted BY <1>5 DEF NotAdmitted
<1>6. CASE Transmit
  <2>1. inFlight' \in BOOLEAN BY <1>6 DEF Transmit
  <2> QED BY <1>6, <2>1 DEF Transmit
<1>7. CASE AttemptFails BY <1>7 DEF AttemptFails
<1>8. CASE AttemptAnswered
  <2>1. fed' \in BOOLEAN BY <1>8 DEF AttemptAnswered
  <2> QED BY <1>8, <2>1 DEF AttemptAnswered
<1>9. CASE InterruptWrite BY <1>9 DEF InterruptWrite, StateOfInterrupt
<1>10. CASE Readback BY <1>10 DEF Readback, StateOfInterrupt, Classified
<1>11. CASE Deliver
  <2>1. inFlight' \in BOOLEAN BY <1>11 DEF Deliver
  <2> QED BY <1>11, <2>1 DEF Deliver
<1>12. CASE OthersChange BY <1>12 DEF OthersChange
<1>13. CASE UNCHANGED vars BY <1>13 DEF vars
<1> QED
  BY <1>1, <1>2, <1>3, <1>4, <1>5, <1>6, <1>7, <1>8, <1>9, <1>10, <1>11, <1>12,
     <1>13 DEF Next, Execution

(* The count of the hook bounds the frames, and a report that denies the   *)
(* attempt is true, at whatever moment Ctrl-C comes                        *)
(* (execute_controlled_write).                                             *)
THEOREM FrameInvariant == Spec => []FrameInv
BY FrameInit, FrameStep, PTL DEF Spec

-----------------------------------------------------------------------------
(* Nothing is claimed at first.                                            *)
LEMMA PromiseInit == Init => Promise!Init
BY DEF Init, Promise!Init, Phase, Claim

(* Every step maps to one of SingleWrite's or changes nothing it sees.     *)
LEMMA PromiseStep == FrameInv /\ FrameInv' /\ [Next]_vars => [Promise!Next]_Promise!vars
<1> SUFFICES ASSUME FrameInv, FrameInv', [Next]_vars PROVE [Promise!Next]_Promise!vars
  OBVIOUS
<1> USE DEF Continue, End, Interrupted, report, Phase, Claim
<1>1. CASE Validate
  BY <1>1 DEF Validate, Promise!Next, Promise!Refuse, Promise!vars
<1>2. CASE VerifyIdentity
  BY <1>2 DEF VerifyIdentity, Promise!Next, Promise!Refuse, Promise!vars
<1>3. CASE PreRead
  BY <1>3 DEF PreRead, Promise!Next, Promise!Refuse, Promise!Commit, Promise!vars
<1>4. CASE Admit BY <1>4 DEF Admit, Promise!vars
<1>5. CASE NotAdmitted BY <1>5 DEF NotAdmitted, Promise!vars
<1>6. CASE Transmit BY <1>6 DEF Transmit, Promise!Next, Promise!Transmit
<1>7. CASE AttemptFails BY <1>7 DEF AttemptFails, Promise!vars
<1>8. CASE AttemptAnswered BY <1>8 DEF AttemptAnswered, Promise!vars
<1>9. CASE InterruptWrite BY <1>9 DEF InterruptWrite, Promise!Next, Promise!Report
<1>10. CASE Readback BY <1>10 DEF Readback, Promise!Next, Promise!Report
<1>11. CASE Deliver BY <1>11 DEF Deliver, Promise!vars
<1>12. CASE OthersChange BY <1>12 DEF OthersChange, Promise!vars
<1>13. CASE UNCHANGED vars BY <1>13 DEF vars, Promise!vars
<1> QED
  BY <1>1, <1>2, <1>3, <1>4, <1>5, <1>6, <1>7, <1>8, <1>9, <1>10, <1>11, <1>12,
     <1>13 DEF Next, Execution

(* The writer implements SingleWrite.                                      *)
THEOREM KeepsThePromise == Spec => PromiseKept
<1>1. Spec => [][Promise!Next]_Promise!vars
  BY PromiseStep, FrameInvariant, PTL DEF Spec
<1> QED BY <1>1, PromiseInit, PTL DEF Spec, PromiseKept, Promise!Spec

(* "verified" and "not_applied" are decided by what the readback found,    *)
(* never by what the transport answered.                                   *)
THEOREM ReadbackIsDecisive == Spec => ReadbackDecides
<1> DEFINE Decides ==
      /\ outcome' = "verified" /\ outcome = "none" => timer = plan.after
      /\ outcome' = "not_applied" /\ outcome = "none" => timer = plan.before
<1>1. [Next]_vars => [Decides]_vars
  <2> SUFFICES ASSUME Next, outcome = "none", outcome' \in {"verified", "not_applied"}
               PROVE  Decides
    OBVIOUS
  <2>1. Readback
    BY DEF Next, Execution, Continue, End, Interrupted, world, report, Validate, VerifyIdentity,
       PreRead, Admit, NotAdmitted, Transmit, AttemptFails, AttemptAnswered, InterruptWrite,
       Deliver, OthersChange
  <2> QED
    BY <2>1 DEF Readback, End, Interrupted, Classified
<1> QED
  BY <1>1, PTL DEF Spec, ReadbackDecides

HIDE DEF FrameInv, TypeOK, Checking, Sending, NotAttemptedIsTrue, NotAttempted, Outcomes
-----------------------------------------------------------------------------
(* A behaviour shows one part, and what it shows is a behaviour of it.     *)
LEMMA OnePart ==
  ASSUME [AllNext]_allVars
  PROVE  /\ part' = part
         /\ [Next]_vars
         /\ part = "command" => [Command!Next]_onlyCommand
         /\ part = "dumps" => [Dump!Next]_onlyDump
         /\ part = "browser" => [Live!Next]_onlyLive
         /\ part = "parameter" => [Parameter!Next]_onlyParameter
BY Zenon
DEF AllNext, allVars, OthersThanCommand, OthersThanDump, OthersThanLive, OthersThanParameter,
    OthersThanWrite

(* Whichever part is shown, the timer write is a behaviour of its own.     *)
LEMMA TimerPart == AllSpec => Spec
<1>1. AllInit => Init
  BY DEF AllInit, NoWrite
<1>2. [AllNext]_allVars => [Next]_vars
  BY OnePart
<1> QED
  BY <1>1, <1>2, PTL DEF AllSpec, Spec

(* Timer: one frame at most, and a report that denies the attempt is true. *)
THEOREM TimerFrames == AllSpec => []FrameInv
BY TimerPart, FrameInvariant, PTL

(* Timer: the readback decides what is reported.                           *)
THEOREM TimerReadback == AllSpec => ReadbackDecides
BY TimerPart, ReadbackIsDecisive, PTL

(* Timer: the write implements SingleWrite.                                *)
THEOREM TimerPromise == AllSpec => PromiseKept
BY TimerPart, KeepsThePromise, PTL
-----------------------------------------------------------------------------
(* ParameterWrite.                                                         *)
USE DEF Parameter!FrameInv, Parameter!TypeOK, Parameter!Checking, Parameter!Sending,
        Parameter!Reported, Parameter!NothingSent, Parameter!ReadBack

(* The invariant holds before anything is checked.                         *)
LEMMA WriterInit == ASSUME Parameter!WriteConstants, Parameter!Init PROVE Parameter!FrameInv
<1>1. changed \in 0..MaxChanges /\ rechecks \in 0..MaxRechecks
  BY DEF Parameter!Init, Parameter!WriteConstants
<1>2. foreign \in BOOLEAN /\ travelling \in BOOLEAN BY DEF Parameter!Init
<1> QED BY <1>1, <1>2 DEF Parameter!Init

(* One step per action: what it does to pc, the counts and the outcome.    *)
LEMMA WriterStep ==
  ASSUME Parameter!WriteConstants, Parameter!FrameInv, [Parameter!Next]_onlyParameter
  PROVE  Parameter!FrameInv'
<1> USE
  DEF Parameter!WriteConstants, Parameter!Continue, Parameter!End, Parameter!world,
      Parameter!BaselineHolds
<1>1. CASE Parameter!Confirm BY <1>1 DEF Parameter!Confirm
<1>2. CASE Parameter!VerifyIdentity BY <1>2 DEF Parameter!VerifyIdentity
<1>3. CASE Parameter!FreshProfile BY <1>3 DEF Parameter!FreshProfile
<1>4. CASE Parameter!ReadBaseline
  <2>1. foreign' \in BOOLEAN BY <1>4 DEF Parameter!ReadBaseline
  <2> QED BY <1>4, <2>1 DEF Parameter!ReadBaseline, Parameter!SameBaseline
<1>5. CASE Parameter!ResolveDescription BY <1>5 DEF Parameter!ResolveDescription
<1>6. CASE Parameter!Admit BY <1>6 DEF Parameter!Admit, Parameter!MayAdmit
<1>7. CASE Parameter!NotAdmitted BY <1>7 DEF Parameter!NotAdmitted
<1>8. CASE Parameter!Transmit BY <1>8 DEF Parameter!Transmit
<1>9. CASE Parameter!AttemptEnds BY <1>9 DEF Parameter!AttemptEnds
<1>10. CASE Parameter!Readback BY <1>10 DEF Parameter!Readback
<1>11. CASE Parameter!Recheck BY <1>11 DEF Parameter!Recheck
<1>12. CASE Parameter!RecheckReads BY <1>12 DEF Parameter!RecheckReads
<1>13. CASE Parameter!Deliver
  <2>1. travelling' \in BOOLEAN BY <1>13 DEF Parameter!Deliver
  <2>2. device' \in [value : Values, own : BOOLEAN, writable : BOOLEAN]
    BY <1>13 DEF Parameter!Deliver
  <2> QED BY <1>13, <2>1, <2>2 DEF Parameter!Deliver
<1>14. CASE Parameter!OthersChange BY <1>14 DEF Parameter!OthersChange
<1>15. CASE UNCHANGED onlyParameter BY <1>15 DEF onlyParameter
<1> QED
  BY <1>1, <1>2, <1>3, <1>4, <1>5, <1>6, <1>7, <1>8, <1>9, <1>10, <1>11, <1>12,
     <1>13, <1>14, <1>15 DEF Parameter!Next, Parameter!Execution

(* A step of the writer sends a frame over the confirmed baseline only,    *)
(* unless somebody changed the device after it was read.                   *)
LEMMA FramesOverBaseline ==
  ASSUME Parameter!FrameInv, [Parameter!Next]_onlyParameter
  PROVE  Parameter!OverBaseline
<1> SUFFICES ASSUME Parameter!Next, written' > written PROVE Parameter!BaselineHolds
  BY DEF Parameter!OverBaseline, onlyParameter
<1>1. written' # written OBVIOUS
<1>2. Parameter!Transmit
  BY <1>1
  DEF Parameter!Next, Parameter!Execution, Parameter!Confirm, Parameter!VerifyIdentity,
      Parameter!FreshProfile, Parameter!ReadBaseline, Parameter!ResolveDescription,
      Parameter!Admit, Parameter!NotAdmitted, Parameter!AttemptEnds, Parameter!Readback,
      Parameter!Recheck, Parameter!RecheckReads, Parameter!Deliver, Parameter!OthersChange
<1> QED BY <1>2 DEF Parameter!Transmit

(* Nothing is claimed at first.                                            *)
LEMMA WriterPromiseInit == AllInit => ParameterPromise!Init
<1>1. AllInit /\ part = "parameter" => verdict = "none" /\ writing = "confirm" /\ written = 0
  BY DEF AllInit, Parameter!Init
<1> QED
  BY <1>1 DEF ParameterPromise!Init, Parameter!Phase, Parameter!Claim, Parameter!Sending,
              Parameter!NothingSent

(* Every step maps to one of SingleWrite's or changes nothing it sees.     *)
LEMMA WriterPromiseStep ==
  ASSUME part = "parameter", part' = "parameter", Parameter!FrameInv, Parameter!FrameInv',
         [Parameter!Next]_onlyParameter
  PROVE  [ParameterPromise!Next]_ParameterPromise!vars
<1> USE DEF Parameter!Continue, Parameter!End, Parameter!Phase, Parameter!Claim
<1>1. CASE Parameter!Confirm
  BY <1>1
  DEF Parameter!Confirm, ParameterPromise!Next, ParameterPromise!Refuse, ParameterPromise!vars
<1>2. CASE Parameter!VerifyIdentity
  BY <1>2
      DEF Parameter!VerifyIdentity, ParameterPromise!Next, ParameterPromise!Refuse,
          ParameterPromise!vars
<1>3. CASE Parameter!FreshProfile
  BY <1>3
      DEF Parameter!FreshProfile, ParameterPromise!Next, ParameterPromise!Refuse,
          ParameterPromise!vars
<1>4. CASE Parameter!ReadBaseline
  BY <1>4
      DEF Parameter!ReadBaseline, ParameterPromise!Next, ParameterPromise!Refuse,
          ParameterPromise!vars
<1>5. CASE Parameter!ResolveDescription
  BY <1>5
      DEF Parameter!ResolveDescription, ParameterPromise!Next, ParameterPromise!Refuse,
          ParameterPromise!Commit, ParameterPromise!vars
<1>6. CASE Parameter!Admit BY <1>6 DEF Parameter!Admit, ParameterPromise!vars
<1>7. CASE Parameter!NotAdmitted BY <1>7 DEF Parameter!NotAdmitted, ParameterPromise!vars
<1>8. CASE Parameter!Transmit BY <1>8
  DEF Parameter!Transmit, ParameterPromise!Next, ParameterPromise!Transmit
<1>9. CASE Parameter!AttemptEnds BY <1>9 DEF Parameter!AttemptEnds, ParameterPromise!vars
<1>10. CASE Parameter!Readback BY <1>10
  DEF Parameter!Readback, ParameterPromise!Next, ParameterPromise!Report
<1>11. CASE Parameter!Recheck BY <1>11 DEF Parameter!Recheck, ParameterPromise!vars
<1>12. CASE Parameter!RecheckReads BY <1>12 DEF Parameter!RecheckReads, ParameterPromise!vars
<1>13. CASE Parameter!Deliver BY <1>13 DEF Parameter!Deliver, ParameterPromise!vars
<1>14. CASE Parameter!OthersChange BY <1>14 DEF Parameter!OthersChange, ParameterPromise!vars
<1>15. CASE UNCHANGED onlyParameter BY <1>15 DEF onlyParameter, ParameterPromise!vars
<1> QED
  BY <1>1, <1>2, <1>3, <1>4, <1>5, <1>6, <1>7, <1>8, <1>9, <1>10, <1>11, <1>12,
     <1>13, <1>14, <1>15 DEF Parameter!Next, Parameter!Execution

HIDE DEF Parameter!FrameInv, Parameter!TypeOK, Parameter!Checking, Parameter!Sending,
         Parameter!Reported, Parameter!NothingSent, Parameter!ReadBack

(* Parameter: while it is not shown, nothing is claimed of it.             *)
LEMMA WriterShown ==
  /\ AllInit => ParameterFrames
  /\ ParameterFrames /\ [AllNext]_allVars => ParameterFrames'
  /\ ParameterFrames /\ [AllNext]_allVars =>
       [part = "parameter" => Parameter!OverBaseline]_allVars
<1>1. Parameter!WriteConstants
  BY InterfaceConstants DEF InterfaceConstants
<1>2. AllInit => ParameterFrames
  BY <1>1, WriterInit DEF AllInit, ParameterFrames
<1>3. ASSUME ParameterFrames, [AllNext]_allVars, part = "parameter"
      PROVE  Parameter!FrameInv' /\ Parameter!OverBaseline
  BY <1>1, <1>3, OnePart, WriterStep, FramesOverBaseline DEF ParameterFrames
<1> QED
  BY <1>2, <1>3, OnePart DEF ParameterFrames

(* Parameter: one frame leaves at most for one confirmation, however often *)
(* the transport retries or the result is rechecked, and an outcome that   *)
(* claims nothing was sent is true (execute_parameter_write).              *)
THEOREM ParameterFramesHold == AllSpec => []ParameterFrames
BY WriterShown, PTL DEF AllSpec

(* Parameter: a frame never overwrites a value other than the confirmed    *)
(* baseline, unless somebody changed the device after it was read.         *)
THEOREM BaselineProtected == AllSpec => NoBlindOverwrite
BY WriterShown, PTL DEF AllSpec, NoBlindOverwrite

(* Parameter: the promise is kept by the writer's steps, and untouched by  *)
(* those of the other parts.                                               *)
LEMMA PromiseShown ==
  ParameterFrames /\ ParameterFrames' /\ [AllNext]_allVars
    => [ParameterPromise!Next]_ParameterPromise!vars
<1>1. ASSUME ParameterFrames, ParameterFrames', [AllNext]_allVars, part = "parameter"
      PROVE  [ParameterPromise!Next]_ParameterPromise!vars
  BY <1>1, OnePart, WriterPromiseStep DEF ParameterFrames
<1>2. ASSUME [AllNext]_allVars, part # "parameter" PROVE UNCHANGED ParameterPromise!vars
  BY <1>2, OnePart DEF ParameterPromise!vars
<1> QED
  BY <1>1, <1>2

(* Parameter: the write implements SingleWrite: it is refused before, or   *)
(* reported after, its one frame.                                          *)
THEOREM ParameterPromiseHolds == AllSpec => ParameterPromiseKept
BY ParameterFramesHold, WriterPromiseInit, PromiseShown, PTL DEF AllSpec, ParameterPromiseKept, ParameterPromise!Spec
-----------------------------------------------------------------------------
(* BrowserLive: its proofs are of the same browser.                        *)
LiveProofs == INSTANCE BrowserLiveProofs WITH outcome <- outcomes

LEMMA SameBrowser ==
  /\ Live!BrowserConstants <=> LiveProofs!BrowserConstants
  /\ Live!Init <=> LiveProofs!Init
  /\ Live!Next <=> LiveProofs!Next
  /\ Live!OneVerifiedOperation <=> LiveProofs!OneVerifiedOperation
  /\ Live!HistoryTrue <=> LiveProofs!HistoryTrue
  /\ Live!WriteWherePrepared <=> LiveProofs!WriteWherePrepared
BY Zenon
DEF
      Live!Next, LiveProofs!Next, Live!User, LiveProofs!User, Live!OpenForm, LiveProofs!OpenForm,
      Live!MayStart, LiveProofs!MayStart, Live!Ready, LiveProofs!Ready, Live!connection,
      LiveProofs!connection, Live!tracked, LiveProofs!tracked, Live!workers, LiveProofs!workers,
      Live!results, LiveProofs!results, Live!CancelForm, LiveProofs!CancelForm,
      Live!BeginConnect, LiveProofs!BeginConnect, Live!Room, LiveProofs!Room, Live!Disconnect,
      LiveProofs!Disconnect, Live!CloseSession, LiveProofs!CloseSession, Live!Close,
      LiveProofs!Close, Live!EditOffline, LiveProofs!EditOffline, Live!EditLive,
      LiveProofs!EditLive, Live!Submit, LiveProofs!Submit, Live!dialogs, LiveProofs!dialogs,
      Live!EditorEnds, LiveProofs!EditorEnds, Live!EditorAccepts, LiveProofs!EditorAccepts,
      Live!ConfirmEnds, LiveProofs!ConfirmEnds, Live!ConfirmWrite, LiveProofs!ConfirmWrite,
      Live!Recheck, LiveProofs!Recheck, Live!Quit, LiveProofs!Quit, Live!FatalError,
      LiveProofs!FatalError, Live!Loop, LiveProofs!Loop, Live!Track, LiveProofs!Track,
      Live!KeepsResult, LiveProofs!KeepsResult, Live!Op, LiveProofs!Op, Live!Writing,
      LiveProofs!Writing, Live!AfterTracking, LiveProofs!AfterTracking, Live!FinishInline,
      LiveProofs!FinishInline, Live!Finished, LiveProofs!Finished, Live!ConnectionFailed,
      LiveProofs!ConnectionFailed, Live!MarkRecorded, LiveProofs!MarkRecorded, Live!Record,
      LiveProofs!Record, Live!Deliver, LiveProofs!Deliver, Live!LoopAlive, LiveProofs!LoopAlive,
      Live!Calling, LiveProofs!Calling, Live!Workers, LiveProofs!Workers, Live!Worker,
      LiveProofs!Worker, Live!Work, LiveProofs!Work, Live!Outcomes, LiveProofs!Outcomes,
      Live!CallRefused, LiveProofs!CallRefused, Live!Teardown, LiveProofs!Teardown,
      Live!LoopEnds, LiveProofs!LoopEnds, Live!FirstHarvest, LiveProofs!FirstHarvest,
      Live!Harvest, LiveProofs!Harvest, Live!NothingToHarvest, LiveProofs!NothingToHarvest,
      Live!CloseTransport, LiveProofs!CloseTransport, Live!TransportClosed,
      LiveProofs!TransportClosed, Live!SecondHarvest, LiveProofs!SecondHarvest, Live!Init,
      LiveProofs!Init, Live!BrowserConstants, LiveProofs!BrowserConstants,
      Live!OneVerifiedOperation, LiveProofs!OneVerifiedOperation, Live!TypeOK, LiveProofs!TypeOK,
      Live!Futures, LiveProofs!Futures, Live!OneOperation, LiveProofs!OneOperation,
      Live!ActsOnVerified, LiveProofs!ActsOnVerified, Live!DroppedCloses,
      LiveProofs!DroppedCloses, Live!HistoryTrue, LiveProofs!HistoryTrue, Live!NothingLost,
      LiveProofs!NothingLost, Live!RecordedOnce, LiveProofs!RecordedOnce,
      Live!WriteWherePrepared, LiveProofs!WriteWherePrepared

(* Browser: its inductive invariant, while it is shown.                    *)
BrowserShownInv == part = "browser" => LiveProofs!BrowserInv

LEMMA BrowserShown ==
  /\ AllInit => BrowserShownInv
  /\ BrowserShownInv /\ [AllNext]_allVars => BrowserShownInv'
  /\ BrowserShownInv /\ [AllNext]_allVars =>
       [part = "browser" => Live!WriteWherePrepared]_allVars
<1>1. LiveProofs!BrowserConstants
  BY InterfaceConstants, SameBrowser DEF InterfaceConstants
<1>2. AllInit => BrowserShownInv
  <2>1. ASSUME Live!Init PROVE LiveProofs!BrowserInv
    BY <1>1, <2>1, SameBrowser, LiveProofs!BrowserInit
  <2> QED
    BY <2>1 DEF AllInit, BrowserShownInv
<1>3. ASSUME BrowserShownInv, [AllNext]_allVars, part = "browser"
      PROVE  LiveProofs!BrowserInv' /\ Live!WriteWherePrepared
  <2>1. LiveProofs!BrowserInv /\ [Live!Next]_onlyLive
    BY <1>3, OnePart DEF BrowserShownInv
  <2>2. UNCHANGED onlyLive => UNCHANGED LiveProofs!vars
    BY DEF onlyLive, LiveProofs!vars, LiveProofs!connection, LiveProofs!tracked,
           LiveProofs!dialogs, LiveProofs!workers, LiveProofs!results
  <2>3. [LiveProofs!Next]_LiveProofs!vars
    BY <2>1, <2>2, SameBrowser
  <2>4. LiveProofs!BrowserInv'
    BY <1>1, <2>1, <2>3, LiveProofs!BrowserStep
  <2>5. LiveProofs!WriteWherePrepared
    BY <1>1, <2>1, <2>3, LiveProofs!WritesGoWherePrepared
  <2> QED
    BY <2>4, <2>5, SameBrowser
<1> QED
  BY <1>2, <1>3, OnePart DEF BrowserShownInv

(* Browser: one operation at a time, on a connection whose identity was    *)
(* verified, and a connection let go of is closed, whatever the user does  *)
(* while a worker is done or the program ends (BrowserSession, the app).   *)
THEOREM BrowserHasOneOperation == AllSpec => []OneVerifiedOperation
<1>1. BrowserShownInv => OneVerifiedOperation
  BY SameBrowser, LiveProofs!InvShowsOneOperation DEF BrowserShownInv, OneVerifiedOperation
<1> QED
  BY <1>1, BrowserShown, PTL DEF AllSpec

(* Browser: each write and recheck that returned a result is in the        *)
(* history when the program ends, and once unless a callback failed.       *)
THEOREM BrowserHistoryTrue == AllSpec => []HistoryTrue
<1>1. BrowserShownInv => HistoryTrue
  BY SameBrowser, LiveProofs!InvShowsHistory DEF BrowserShownInv, HistoryTrue
<1> QED
  BY <1>1, BrowserShown, PTL DEF AllSpec

(* Browser: a write is submitted only to the verified connection its       *)
(* preparation was read through.                                           *)
THEOREM BrowserWritesWherePrepared == AllSpec => WriteWherePrepared
BY BrowserShown, PTL DEF AllSpec, WriteWherePrepared
-----------------------------------------------------------------------------
(* Sets of natural numbers have a least element, the one Min chooses.      *)
LEMMA LeastNatural ==
  ASSUME NEW S \in SUBSET Nat, S # {}
  PROVE  \E x \in S : \A y \in S : x <= y
<1> DEFINE R == {ss \in Nat \X Nat : ss[1] < ss[2]}
<1>1. IsWellFoundedOn(R, Nat)
  BY NatLessThanWellFounded DEF OpToRel
<1>2. \A x, y \in Nat : x < y => <<x, y>> \in R
  OBVIOUS
<1> HIDE DEF R
<1>3. PICK x \in S : \A y \in S : ~ (<<y, x>> \in R)
  BY <1>1, WFMin
<1>4. ASSUME NEW y \in S PROVE x <= y
  <2>1. x \in Nat /\ y \in Nat
    OBVIOUS
  <2>2. <<y, x>> \notin R
    BY <1>3
  <2>3. ~ (y < x)
    BY <1>2, <2>1, <2>2
  <2> QED
    BY <2>1, <2>3
<1> QED
  BY <1>4

-----------------------------------------------------------------------------
(* ScanCommand: what is known of the destination in each phase.            *)
Destination ==
  IF setup.dst = Command!Auto THEN dst \in targets[settings.host] ELSE dst = setup.dst
Named == identity = [host |-> settings.host, dst |-> dst]
Online == phase \in {"open", "connect", "resolve", "probe", "identify", "dialog", "scanning"}
Closing == phase \in {"saved", "browsed", "exit"}

CommandTypes ==
  /\ Command!TypeOK
  /\ command \in {"scan", "discover"}
  /\ settings.host \in Hosts /\ setup.dst \in {Command!Auto} \cup Addresses
  /\ setup.dry \in BOOLEAN
  /\ targets \in [Hosts -> SUBSET Addresses] /\ left \subseteq Addresses
  /\ prepared \in BOOLEAN /\ opened \in Nat

(* A scan is prepared before it is online, and scans once.                 *)
PhaseInv ==
  /\ Online => ~setup.dry /\ (command = "scan" => prepared)
  /\ command = "discover" =>
       ~prepared /\ phase \in {"open", "connect", "resolve", "probe", "exit"} /\ ~setup.dry
       /\ setup.dst = Command!Auto
  /\ phase = "setup" => ~prepared
  /\ scans = 1 => phase \in {"scanning", "result", "saved", "browsed", "exit"}

(* The destination is reached by the endpoint in use.                      *)
DestinationInv ==
  /\ phase = "resolve" => found = {}
  /\ phase = "probe" /\ command = "scan" => found \subseteq targets[settings.host]
  /\ phase \in {"resolve", "probe"} => setup.dst = Command!Auto
  /\ phase \in {"identify", "scanning"} => Destination
  /\ phase = "scanning" => Named
  /\ phase = "result" =>
       IF setup.dry THEN dst \in Addresses ELSE Destination /\ Named
  /\ phase \in {"saved", "browsed"} => saved # Command!None

(* What was saved and shown names it.                                      *)
SavedInv ==
  /\ saved # Command!None =>
       Closing /\ (~setup.dry => saved = [host |-> settings.host, dst |-> dst] /\ Destination)
  /\ shown # Command!None =>
       /\ phase \in {"browsed", "exit"} /\ saved # Command!None
       /\ IF setup.dry THEN shown.host = "none" ELSE shown = saved
  /\ code = "0" /\ prepared => saved # Command!None

CommandInv == CommandTypes /\ PhaseInv /\ DestinationInv /\ SavedInv

LEMMA CommandTypesHeld ==
  /\ Addresses \subseteq Nat \ {0} /\ Preferred \in Addresses /\ Hosts # {}
  /\ Command!Auto = 0 /\ Command!None = [host |-> "none", dst |-> 0]
BY InterfaceConstants DEF InterfaceConstants, Command!CommandConstants, Command!Auto,
   Command!None

LEMMA CommandInit == Command!Init => CommandInv
<1> SUFFICES ASSUME Command!Init PROVE CommandInv
  OBVIOUS
<1> USE CommandTypesHeld DEF Command!Init, Command!NoSetup
<1>1. CommandTypes
  <2>1. settings.host \in Hosts /\ setup.dst = 0 /\ setup.dry = FALSE
    OBVIOUS
  <2>2. Command!TypeOK
    BY DEF Command!TypeOK, Command!Starting
  <2> QED
    BY <2>1, <2>2 DEF CommandTypes
<1>2. PhaseInv
  BY DEF PhaseInv, Online
<1>3. DestinationInv
  BY DEF DestinationInv
<1>4. SavedInv
  BY DEF SavedInv
<1> QED
  BY <1>1, <1>2, <1>3, <1>4 DEF CommandInv

(* The least address of a set is in it.                                    *)
LEMMA LeastAddress ==
  ASSUME NEW S \in SUBSET Addresses, S # {}
  PROVE  Command!Min(S) \in S
<1>1. S \in SUBSET Nat
  BY CommandTypesHeld
<1> QED
  BY <1>1, LeastNatural DEF Command!Min

LEMMA CommandTypesStep == CommandInv /\ Command!Next => CommandTypes'
<1> SUFFICES ASSUME CommandInv, Command!Next PROVE CommandTypes'
  OBVIOUS
<1> USE CommandTypesHeld
    DEF Command!asked, Command!probing, Command!made, Command!Exit, Command!Starting
<1>0. CommandTypes /\ PhaseInv /\ DestinationInv /\ SavedInv
  BY DEF CommandInv
<1> USE <1>0 DEF CommandTypes, Command!TypeOK
<1>1. CASE Command!CollectSetup
  <2>1. setup'.dst \in {Command!Auto} \cup Addresses /\ setup'.dry \in BOOLEAN
    <3>1. ASSUME setup' \in Command!Offered
          PROVE  setup'.dst \in {Command!Auto} \cup Addresses /\ setup'.dry \in BOOLEAN
      BY <3>1 DEF Command!Offered
    <3>2. ASSUME NEW d \in {Command!Auto} \cup Addresses,
                 setup' = [dst |-> d, dry |-> FALSE, planner |-> "disabled",
                           preset |-> preset, files |-> "ok"]
          PROVE  setup'.dst \in {Command!Auto} \cup Addresses /\ setup'.dry \in BOOLEAN
      BY <3>2
    <3> QED
      BY <1>1, <3>1, <3>2 DEF Command!CollectSetup
  <2> QED
    BY <1>1, <2>1 DEF Command!CollectSetup
<1>2. CASE Command!Configure
  BY <1>2 DEF Command!Configure
<1>3. CASE Command!Open
  BY <1>3 DEF Command!Open
<1>4. CASE Command!Connected
  BY <1>4 DEF Command!Connected
<1>5. CASE Command!InfoAnswers
  BY <1>5 DEF Command!InfoAnswers
<1>6. CASE Command!ProbeAddress
  <2>1. Command!Min(left) \in Addresses
    BY <1>6, LeastAddress DEF Command!ProbeAddress
  <2> QED
    BY <1>6, <2>1 DEF Command!ProbeAddress
<1>7. CASE Command!Resolved
  <2>1. found # {} => Command!Chosen \in Addresses
    BY LeastAddress DEF Command!Chosen
  <2> QED
    BY <1>7, <2>1 DEF Command!Resolved
<1>8. CASE Command!Listed
  BY <1>8 DEF Command!Listed
<1>9. CASE Command!ScanStarts
  BY <1>9 DEF Command!ScanStarts, PhaseInv
<1>10. CASE Command!NotEnabled
  BY <1>10 DEF Command!NotEnabled
<1>11. CASE Command!Fails
  BY <1>11 DEF Command!Fails
<1>12. CASE Command!Retry
  BY <1>12 DEF Command!Retry
<1>13. CASE Command!ScanReturns
  BY <1>13 DEF Command!ScanReturns
<1>14. CASE Command!Save
  BY <1>14 DEF Command!Save
<1>15. CASE Command!Browse
  BY <1>15 DEF Command!Browse
<1>16. CASE Command!Report
  BY <1>16 DEF Command!Report
<1>17. CASE Command!OutputFails
  BY <1>17 DEF Command!OutputFails
<1> QED
  BY <1>1, <1>2, <1>3, <1>4, <1>5, <1>6, <1>7, <1>8, <1>9, <1>10, <1>11, <1>12, <1>13, <1>14, <1>15, <1>16, <1>17
  DEF Command!Next

LEMMA PhaseStep == CommandInv /\ Command!Next => PhaseInv'
<1> SUFFICES ASSUME CommandInv, Command!Next PROVE PhaseInv'
  OBVIOUS
<1> USE CommandTypesHeld
    DEF Command!asked, Command!probing, Command!made, Command!Exit, Command!Starting
<1>0. CommandTypes /\ PhaseInv /\ DestinationInv /\ SavedInv
  BY DEF CommandInv
<1> USE <1>0 DEF PhaseInv, Online
<1>1. CASE Command!CollectSetup
  BY <1>1 DEF Command!CollectSetup
<1>2. CASE Command!Configure
  BY <1>2 DEF Command!Configure
<1>3. CASE Command!Open
  BY <1>3 DEF Command!Open
<1>4. CASE Command!Connected
  BY <1>4 DEF Command!Connected
<1>5. CASE Command!InfoAnswers
  BY <1>5 DEF Command!InfoAnswers
<1>6. CASE Command!ProbeAddress
  BY <1>6 DEF Command!ProbeAddress
<1>7. CASE Command!Resolved
  BY <1>7 DEF Command!Resolved
<1>8. CASE Command!Listed
  BY <1>8 DEF Command!Listed
<1>9. CASE Command!ScanStarts
  BY <1>9 DEF Command!ScanStarts
<1>10. CASE Command!NotEnabled
  BY <1>10 DEF Command!NotEnabled
<1>11. CASE Command!Fails
  BY <1>11 DEF Command!Fails, Command!Recoverable
<1>12. CASE Command!Retry
  BY <1>12 DEF Command!Retry
<1>13. CASE Command!ScanReturns
  BY <1>13 DEF Command!ScanReturns
<1>14. CASE Command!Save
  BY <1>14 DEF Command!Save
<1>15. CASE Command!Browse
  BY <1>15 DEF Command!Browse
<1>16. CASE Command!Report
  BY <1>16 DEF Command!Report
<1>17. CASE Command!OutputFails
  BY <1>17 DEF Command!OutputFails
<1> QED
  BY <1>1, <1>2, <1>3, <1>4, <1>5, <1>6, <1>7, <1>8, <1>9, <1>10, <1>11, <1>12, <1>13, <1>14, <1>15, <1>16, <1>17
  DEF Command!Next

LEMMA DestinationStep == CommandInv /\ Command!Next => DestinationInv'
<1> SUFFICES ASSUME CommandInv, Command!Next PROVE DestinationInv'
  OBVIOUS
<1> USE CommandTypesHeld
    DEF Command!asked, Command!probing, Command!made, Command!Exit, Command!Starting
<1>0. CommandTypes /\ PhaseInv /\ DestinationInv /\ SavedInv
  BY DEF CommandInv
<1> USE <1>0 DEF DestinationInv, Destination, Named
<1>1. CASE Command!CollectSetup
  BY <1>1 DEF Command!CollectSetup
<1>2. CASE Command!Configure
  BY <1>2 DEF Command!Configure, CommandTypes
<1>3. CASE Command!Open
  BY <1>3 DEF Command!Open
<1>4. CASE Command!Connected
  BY <1>4 DEF Command!Connected
<1>5. CASE Command!InfoAnswers
  BY <1>5 DEF Command!InfoAnswers
<1>6. CASE Command!ProbeAddress
  BY <1>6 DEF Command!ProbeAddress
<1>7. CASE Command!Resolved
  <2>1. found # {} => Command!Chosen \in found
    BY LeastAddress DEF Command!Chosen, CommandTypes, Command!TypeOK
  <2> QED
    BY <1>7, <2>1 DEF Command!Resolved
<1>8. CASE Command!Listed
  BY <1>8 DEF Command!Listed
<1>9. CASE Command!ScanStarts
  BY <1>9 DEF Command!ScanStarts
<1>10. CASE Command!NotEnabled
  BY <1>10 DEF Command!NotEnabled
<1>11. CASE Command!Fails
  BY <1>11 DEF Command!Fails
<1>12. CASE Command!Retry
  BY <1>12 DEF Command!Retry
<1>13. CASE Command!ScanReturns
  BY <1>13 DEF Command!ScanReturns, PhaseInv, Online
<1>14. CASE Command!Save
  <2>1. phase = "result" /\ phase' = "saved" /\ dst \in Addresses
    BY <1>14 DEF Command!Save, CommandTypes
  <2>2. saved' # Command!None
    BY <1>14, <2>1 DEF Command!Save
  <2> QED
    BY <2>1, <2>2
<1>15. CASE Command!Browse
  BY <1>15 DEF Command!Browse
<1>16. CASE Command!Report
  BY <1>16 DEF Command!Report
<1>17. CASE Command!OutputFails
  BY <1>17 DEF Command!OutputFails
<1> QED
  BY <1>1, <1>2, <1>3, <1>4, <1>5, <1>6, <1>7, <1>8, <1>9, <1>10, <1>11, <1>12, <1>13, <1>14, <1>15, <1>16, <1>17
  DEF Command!Next

LEMMA SavedStep == CommandInv /\ Command!Next => SavedInv'
<1> SUFFICES ASSUME CommandInv, Command!Next PROVE SavedInv'
  OBVIOUS
<1> USE CommandTypesHeld
    DEF Command!asked, Command!probing, Command!made, Command!Exit, Command!Starting
<1>0. CommandTypes /\ PhaseInv /\ DestinationInv /\ SavedInv
  BY DEF CommandInv
<1> USE <1>0 DEF SavedInv, Destination, Closing
<1>1. CASE Command!CollectSetup
  BY <1>1 DEF Command!CollectSetup, CommandTypes, Command!TypeOK, PhaseInv
<1>2. CASE Command!Configure
  BY <1>2 DEF Command!Configure, CommandTypes, Command!TypeOK, PhaseInv
<1>3. CASE Command!Open
  BY <1>3 DEF Command!Open
<1>4. CASE Command!Connected
  BY <1>4 DEF Command!Connected
<1>5. CASE Command!InfoAnswers
  BY <1>5 DEF Command!InfoAnswers
<1>6. CASE Command!ProbeAddress
  BY <1>6 DEF Command!ProbeAddress
<1>7. CASE Command!Resolved
  BY <1>7 DEF Command!Resolved
<1>8. CASE Command!Listed
  BY <1>8 DEF Command!Listed, CommandTypes, Command!TypeOK, PhaseInv
<1>9. CASE Command!ScanStarts
  BY <1>9 DEF Command!ScanStarts
<1>10. CASE Command!NotEnabled
  BY <1>10 DEF Command!NotEnabled
<1>11. CASE Command!Fails
  BY <1>11 DEF Command!Fails
<1>12. CASE Command!Retry
  BY <1>12 DEF Command!Retry
<1>13. CASE Command!ScanReturns
  BY <1>13 DEF Command!ScanReturns
<1>14. CASE Command!Save
  BY <1>14 DEF Command!Save, DestinationInv, Named, CommandTypes, Command!TypeOK, PhaseInv
<1>15. CASE Command!Browse
  BY <1>15 DEF Command!Browse, DestinationInv, CommandTypes, Command!TypeOK, PhaseInv
<1>16. CASE Command!Report
  BY <1>16 DEF Command!Report, DestinationInv, CommandTypes, Command!TypeOK, PhaseInv
<1>17. CASE Command!OutputFails
  BY <1>17 DEF Command!OutputFails
<1> QED
  BY <1>1, <1>2, <1>3, <1>4, <1>5, <1>6, <1>7, <1>8, <1>9, <1>10, <1>11, <1>12, <1>13, <1>14, <1>15, <1>16, <1>17
  DEF Command!Next

(* A scan that has started keeps its endpoint and is the only one.         *)
LEMMA CommandStartsOnce == CommandInv /\ Command!Next => Command!StartsOnce
<1> SUFFICES ASSUME CommandInv, Command!Next PROVE Command!StartsOnce
  OBVIOUS
<1> USE DEF Command!asked, Command!probing, Command!made, Command!Exit
<1>1. CommandTypes /\ PhaseInv
  BY DEF CommandInv
<1>2. scans = 1 => /\ UNCHANGED <<settings, opened, retries, scans, dst, identity>>
                   /\ phase' \notin {"dialog", "open"}
  <2> SUFFICES ASSUME scans = 1
               PROVE  /\ UNCHANGED <<settings, opened, retries, scans, dst, identity>>
                      /\ phase' \notin {"dialog", "open"}
    OBVIOUS
  <2>1. phase \in {"scanning", "result", "saved", "browsed", "exit"}
    BY <1>1 DEF PhaseInv
  <2>2. \/ Command!NotEnabled \/ Command!Fails \/ Command!ScanReturns \/ Command!Save
        \/ Command!Browse \/ Command!Report \/ Command!OutputFails
    BY <2>1 DEF Command!Next, Command!CollectSetup, Command!Configure, Command!Open,
                Command!Connected, Command!InfoAnswers, Command!ProbeAddress,
                Command!Resolved, Command!Listed, Command!ScanStarts, Command!Retry
  <2>3. Command!Fails => phase = "scanning"
    BY <2>1 DEF Command!Fails
  <2> QED
    BY <2>2, <2>3
       DEF Command!NotEnabled, Command!Fails, Command!Recoverable, Command!ScanReturns,
           Command!Save, Command!Browse, Command!Report, Command!OutputFails
<1>3. opened' > opened /\ command = "scan" => prepared /\ ~setup.dry
  <2> SUFFICES ASSUME opened' > opened, command = "scan" PROVE prepared /\ ~setup.dry
    OBVIOUS
  <2>1. opened \in Nat
    BY <1>1 DEF CommandTypes
  <2>2. UNCHANGED opened \/ Command!Open
    BY DEF Command!Next, Command!CollectSetup, Command!Configure, Command!Connected,
           Command!InfoAnswers, Command!ProbeAddress, Command!Resolved, Command!Listed,
           Command!ScanStarts, Command!NotEnabled, Command!Fails, Command!Retry,
           Command!ScanReturns, Command!Save, Command!Browse, Command!Report,
           Command!OutputFails
  <2>3. Command!Open
    BY <2>1, <2>2
  <2> QED
    BY <1>1, <2>3 DEF Command!Open, PhaseInv, Online
<1> QED
  BY <1>2, <1>3 DEF Command!StartsOnce

LEMMA CommandRest == CommandInv /\ UNCHANGED onlyCommand => CommandInv'
<1> SUFFICES ASSUME CommandInv, UNCHANGED onlyCommand PROVE CommandInv'
  OBVIOUS
<1> USE DEF onlyCommand
<1>1. CommandTypes'
  BY DEF CommandInv, CommandTypes, Command!TypeOK
<1>2. PhaseInv'
  BY DEF CommandInv, PhaseInv, Online
<1>3. DestinationInv'
  BY DEF CommandInv, DestinationInv, Destination, Named
<1>4. SavedInv'
  BY DEF CommandInv, SavedInv, Destination, Closing
<1> QED
  BY <1>1, <1>2, <1>3, <1>4 DEF CommandInv

(* The command, while it is shown.                                         *)
CommandShownInv == part = "command" => CommandInv

LEMMA CommandShown ==
  /\ AllInit => CommandShownInv
  /\ CommandShownInv /\ [AllNext]_allVars => CommandShownInv'
  /\ CommandShownInv /\ [AllNext]_allVars => [part = "command" => Command!StartsOnce]_allVars
<1>1. AllInit => CommandShownInv
  BY CommandInit DEF AllInit, CommandShownInv
<1>2. ASSUME CommandInv, [Command!Next]_onlyCommand PROVE CommandInv'
  BY <1>2, CommandTypesStep, PhaseStep, DestinationStep, SavedStep, CommandRest DEF CommandInv
<1>3. CommandShownInv /\ [AllNext]_allVars => CommandShownInv'
  BY <1>2, OnePart DEF CommandShownInv
<1>4. ASSUME CommandShownInv, AllNext, part = "command" PROVE Command!StartsOnce
  BY <1>4, CommandStartsOnce DEF CommandShownInv, AllNext
<1> QED
  BY <1>1, <1>3, <1>4

(* Command: the artifact, its identity and the connection offered to the   *)
(* browser name one regulator on the endpoint that was scanned, whatever   *)
(* endpoints were tried before (scan in cli.py).                           *)
THEOREM CommandResultTrue == AllSpec => []ResultTrue
<1>1. CommandInv => Command!ResultTrue
  BY DEF CommandInv, CommandTypes, SavedInv, Destination, Command!ResultTrue
<1>2. CommandShownInv => ResultTrue
  BY <1>1 DEF CommandShownInv, ResultTrue
<1> QED
  BY <1>2, CommandShown, PTL DEF AllSpec

(* Command: a scan that has started is not started again, and no failure   *)
(* of it reopens the retry dialog.                                         *)
THEOREM CommandStartsOneScan == AllSpec => StartsOnce
BY CommandShown, PTL DEF AllSpec, StartsOnce
-----------------------------------------------------------------------------
(* Lists: what is in one, and that nothing is in it twice.                 *)
Listed(s) == {s[i] : i \in 1..Len(s)}
Distinct(s) == \A i, j \in 1..Len(s) : s[i] = s[j] => i = j

(* Induction over the naturals, as a fact about sets of them.              *)
LEMMA AllNaturals ==
  ASSUME NEW S, 0 \in S, \A n \in Nat : n \in S => n + 1 \in S
  PROVE  Nat \subseteq S
<1> SUFFICES ASSUME Nat \ S # {} PROVE FALSE
  OBVIOUS
<1>1. PICK n \in Nat \ S : \A m \in Nat \ S : n <= m
  <2>1. Nat \ S \in SUBSET Nat
    OBVIOUS
  <2> QED
    BY <2>1, LeastNatural
<1>2. n \in Nat /\ n \notin S /\ n # 0
  BY <1>1
<1>3. n - 1 \in Nat /\ n = (n - 1) + 1 /\ ~ (n <= n - 1)
  BY <1>2
<1>4. n - 1 \in S
  BY <1>1, <1>3
<1> QED
  BY <1>2, <1>3, <1>4

LEMMA TailList ==
  ASSUME NEW X, NEW s \in Seq(X), s # <<>>
  PROVE  /\ Head(s) \in X /\ Tail(s) \in Seq(X)
         /\ Listed(s) = {Head(s)} \cup Listed(Tail(s))
         /\ Distinct(s) => Distinct(Tail(s)) /\ Head(s) \notin Listed(Tail(s))
<1> DEFINE t == Tail(s)
<1>1. /\ Head(s) \in X /\ t \in Seq(X)
      /\ Len(t) = Len(s) - 1 /\ \A i \in 1..Len(t) : t[i] = s[i + 1]
      /\ Head(s) = s[1]
  BY HeadTailProperties
<1>2. PICK n \in Nat : n = Len(s)
  BY LenProperties
<1>3. n # 0 /\ Len(t) = n - 1
  <2>1. n # 0
    BY <1>2, EmptySeq
  <2> QED
    BY <1>1, <1>2, <2>1
<1> HIDE DEF t
<1>4. Listed(s) = {Head(s)} \cup Listed(t)
  <2>1. ASSUME NEW i \in 1..n PROVE s[i] \in {Head(s)} \cup Listed(t)
    <3>1. CASE i = 1
      BY <1>1, <3>1
    <3>2. CASE i # 1
      <4>1. i - 1 \in 1..(n - 1) /\ (i - 1) + 1 = i
        BY <3>2
      <4> QED
        BY <1>1, <1>3, <4>1 DEF Listed
    <3> QED
      BY <3>1, <3>2
  <2>2. ASSUME NEW i \in 1..(n - 1) PROVE t[i] \in Listed(s)
    <3>1. i + 1 \in 1..n
      OBVIOUS
    <3> QED
      BY <1>1, <1>2, <1>3, <3>1 DEF Listed
  <2>3. Head(s) \in Listed(s)
    <3>1. 1 \in 1..n
      BY <1>3
    <3> QED
      BY <1>1, <1>2, <3>1 DEF Listed
  <2>4. Listed(s) \subseteq {Head(s)} \cup Listed(t)
    BY <1>2, <2>1 DEF Listed
  <2>5. Listed(t) \subseteq Listed(s)
    BY <1>3, <2>2 DEF Listed
  <2> QED
    BY <2>3, <2>4, <2>5
<1>5. ASSUME Distinct(s) PROVE Distinct(t) /\ Head(s) \notin Listed(t)
  <2>1. ASSUME NEW i \in 1..(n - 1), NEW j \in 1..(n - 1), t[i] = t[j] PROVE i = j
    <3>1. i + 1 \in 1..n /\ j + 1 \in 1..n
      OBVIOUS
    <3>2. s[i + 1] = s[j + 1]
      BY <1>1, <1>3, <2>1
    <3> QED
      BY <1>2, <1>5, <3>1, <3>2 DEF Distinct
  <2>2. ASSUME NEW i \in 1..(n - 1) PROVE Head(s) # t[i]
    <3>1. i + 1 \in 1..n /\ 1 \in 1..n /\ i + 1 # 1
      OBVIOUS
    <3>2. t[i] = s[i + 1]
      BY <1>1, <1>3
    <3> QED
      BY <1>1, <1>2, <1>5, <3>1, <3>2 DEF Distinct
  <2> QED
    BY <1>3, <2>1, <2>2 DEF Distinct, Listed
<1> QED
  BY <1>1, <1>4, <1>5 DEF t

LEMMA JoinList ==
  ASSUME NEW X, NEW s \in Seq(X), NEW t \in Seq(X)
  PROVE  /\ s \o t \in Seq(X)
         /\ Listed(s \o t) = Listed(s) \cup Listed(t)
         /\ Distinct(s) /\ Distinct(t) /\ Listed(s) \cap Listed(t) = {} => Distinct(s \o t)
<1> DEFINE u == s \o t
<1>1. PICK m \in Nat : m = Len(s)
  BY LenProperties
<1>2. PICK n \in Nat : n = Len(t)
  BY LenProperties
<1>3. u \in Seq(X) /\ Len(u) = m + n
  BY <1>1, <1>2, ConcatProperties
<1>4. \A i \in 1..(m + n) : u[i] = IF i <= m THEN s[i] ELSE t[i - m]
  BY <1>1, <1>2, ConcatProperties
<1> HIDE DEF u
<1>5. \A i \in 1..m : i \in 1..(m + n) /\ u[i] = s[i]
  BY <1>4
<1>6. \A i \in 1..n : i + m \in 1..(m + n) /\ u[i + m] = t[i]
  BY <1>4
<1>7. \A i \in 1..(m + n) : i \in 1..m \/ (i - m \in 1..n /\ i = (i - m) + m)
  OBVIOUS
<1>8. Listed(u) = Listed(s) \cup Listed(t)
  <2>1. Listed(s) \subseteq Listed(u)
    BY <1>1, <1>3, <1>5 DEF Listed
  <2>2. Listed(t) \subseteq Listed(u)
    BY <1>2, <1>3, <1>6 DEF Listed
  <2>3. ASSUME NEW i \in 1..(m + n) PROVE u[i] \in Listed(s) \cup Listed(t)
    <3>1. CASE i \in 1..m
      BY <1>1, <1>5, <3>1 DEF Listed
    <3>2. CASE i - m \in 1..n /\ i = (i - m) + m
      <4>1. u[i] = t[i - m]
        BY <1>6, <3>2
      <4> QED
        BY <1>2, <3>2, <4>1 DEF Listed
    <3> QED
      BY <1>7, <3>1, <3>2
  <2> QED
    BY <1>3, <2>1, <2>2, <2>3 DEF Listed
<1>9. ASSUME Distinct(s), Distinct(t), Listed(s) \cap Listed(t) = {}
      PROVE  Distinct(u)
  <2> SUFFICES ASSUME NEW i \in 1..(m + n), NEW j \in 1..(m + n), u[i] = u[j]
               PROVE  i = j
    BY <1>3 DEF Distinct
  <2>1. ASSUME NEW k \in 1..m, NEW l \in 1..n PROVE s[k] # t[l]
    BY <1>1, <1>2, <1>9 DEF Listed
  <2>2. CASE i \in 1..m /\ j \in 1..m
    BY <1>1, <1>5, <1>9, <2>2 DEF Distinct
  <2>3. CASE i \in 1..m /\ j \notin 1..m
    <3>1. j - m \in 1..n /\ u[j] = t[j - m]
      BY <1>4, <2>3
    <3> QED
      BY <1>5, <2>1, <2>3, <3>1
  <2>4. CASE i \notin 1..m /\ j \in 1..m
    <3>1. i - m \in 1..n /\ u[i] = t[i - m]
      BY <1>4, <2>4
    <3> QED
      BY <1>5, <2>1, <2>4, <3>1
  <2>5. CASE i \notin 1..m /\ j \notin 1..m
    <3>1. i - m \in 1..n /\ u[i] = t[i - m] /\ j - m \in 1..n /\ u[j] = t[j - m]
      BY <1>4, <2>5
    <3>2. i - m = j - m
      BY <1>2, <1>9, <3>1 DEF Distinct
    <3> QED
      BY <3>2
  <2> QED
    BY <2>2, <2>3, <2>4, <2>5
<1> QED
  BY <1>3, <1>8, <1>9 DEF u

(* A list of lists put together (FlattenSeq).                              *)
Pieces(q, n, X) == n \in Nat /\ q \in [1..n -> Seq(X)]
Apart(q, n) ==
  /\ \A i \in 1..n : Distinct(q[i])
  /\ \A i, j \in 1..n : i # j => Listed(q[i]) \cap Listed(q[j]) = {}
AllListed(q, n) == UNION {Listed(q[i]) : i \in 1..n}
Onto(q, i, f) == IF i = 1 THEN q[i] ELSE f[i - 1] \o q[i]
Joined(q, n) == CHOOSE f : f = [i \in 1..n |-> Onto(q, i, f)]

LEMMA FlattenIsJoined ==
  ASSUME NEW q, NEW n, Len(q) = n, n # 0
  PROVE  Dump!FlattenSeq(q) = Joined(q, n)[n]
BY Zenon DEF Dump!FlattenSeq, Joined, Onto

LEMMA JoinedEquation ==
  ASSUME NEW q, NEW n \in Nat
  PROVE  Joined(q, n) = [i \in 1..n |-> Onto(q, i, Joined(q, n))]
<1> DEFINE Meets(k) == \E f : f = [i \in 1..k |-> Onto(q, i, f)]
           S == {k \in Nat : Meets(k)}
<1>1. Meets(0)
  <2>1. [i \in 1..0 |-> q] = [i \in 1..0 |-> Onto(q, i, [j \in 1..0 |-> q])]
    OBVIOUS
  <2> QED
    BY <2>1
<1>2. ASSUME NEW k \in Nat, Meets(k) PROVE Meets(k + 1)
  <2>1. PICK f : f = [i \in 1..k |-> Onto(q, i, f)]
    BY <1>2
  <2> DEFINE g == [i \in 1..(k + 1) |-> Onto(q, i, f)]
  <2>2. ASSUME NEW i \in 1..(k + 1) PROVE Onto(q, i, f) = Onto(q, i, g)
    <3>1. CASE i = 1
      BY <3>1 DEF Onto
    <3>2. CASE i # 1
      <4>1. i - 1 \in 1..k /\ i - 1 \in 1..(k + 1)
        BY <3>2
      <4>2. f[i - 1] = Onto(q, i - 1, f)
        BY <2>1, <4>1
      <4>3. g[i - 1] = Onto(q, i - 1, f)
        BY <4>1
      <4>4. f[i - 1] = g[i - 1]
        BY <4>2, <4>3
      <4> HIDE DEF g
      <4> QED
        BY <3>2, <4>4, Zenon DEF Onto
    <3> QED
      BY <3>1, <3>2
  <2>3. g = [i \in 1..(k + 1) |-> Onto(q, i, g)]
    BY <2>2
  <2> HIDE DEF g
  <2> QED
    BY <2>3
<1>3. 0 \in S /\ \A k \in Nat : k \in S => k + 1 \in S
  <2> HIDE DEF Meets
  <2> QED
    BY <1>1, <1>2
<1>4. n \in S
  <2> HIDE DEF S
  <2> QED
    BY <1>3, AllNaturals
<1>5. \E f : f = [i \in 1..n |-> Onto(q, i, f)]
  BY <1>4
<1> QED
  BY <1>5, Zenon DEF Joined

LEMMA FlattenGives ==
  ASSUME NEW X, NEW n, NEW q, Pieces(q, n, X)
  PROVE  /\ Dump!FlattenSeq(q) \in Seq(X)
         /\ Listed(Dump!FlattenSeq(q)) = AllListed(q, n)
         /\ Apart(q, n) => Distinct(Dump!FlattenSeq(q))
<1> DEFINE f == Joined(q, n)
           Good(i) == /\ f[i] \in Seq(X) /\ Listed(f[i]) = AllListed(q, i)
                      /\ Apart(q, n) => Distinct(f[i])
           S == {i \in Nat : i \in 1..n => Good(i)}
<1>1. n \in Nat /\ Len(q) = n /\ (\A i \in 1..n : q[i] \in Seq(X))
  BY DEF Pieces
<1>2. CASE n = 0
  <2>1. q = <<>> /\ Dump!FlattenSeq(q) = q
    BY <1>1, <1>2 DEF Pieces, Dump!FlattenSeq
  <2>2. <<>> \in Seq(X) /\ Len(<<>>) = 0
    OBVIOUS
  <2>3. Listed(q) = {} /\ AllListed(q, n) = {} /\ Distinct(q)
    BY <1>2, <2>1, <2>2 DEF Listed, AllListed, Distinct
  <2> QED
    BY <2>1, <2>2, <2>3
<1>3. CASE n # 0
  <2>1. \A i \in 1..n : f[i] = Onto(q, i, f)
    BY <1>1, JoinedEquation
  <2> HIDE DEF f
  <2>2. 0 \in S
    BY <1>1
  <2>3. ASSUME NEW i \in Nat, i \in S, i + 1 \in 1..n PROVE Good(i + 1)
    <3>1. CASE i = 0
      <4>1. f[1] = q[1] /\ 1 \in 1..n /\ i + 1 = 1
        BY <2>1, <2>3, <3>1 DEF Onto
      <4>2. AllListed(q, 1) = Listed(q[1])
        <5>1. 1..1 = {1}
          OBVIOUS
        <5> QED
          BY <5>1 DEF AllListed
      <4>3. Apart(q, n) => Distinct(q[1])
        BY <4>1 DEF Apart
      <4> QED
        BY <1>1, <4>1, <4>2, <4>3
    <3>2. CASE i # 0
      <4>1. i \in 1..n /\ i + 1 # 1 /\ (i + 1) - 1 = i
        BY <1>1, <2>3, <3>2
      <4>2. f[i + 1] = f[i] \o q[i + 1]
        BY <2>1, <2>3, <4>1 DEF Onto
      <4>3. Good(i)
        BY <2>3, <4>1
      <4>4. q[i + 1] \in Seq(X)
        BY <1>1, <2>3
      <4>5. AllListed(q, i + 1) = AllListed(q, i) \cup Listed(q[i + 1])
        <5>1. 1..(i + 1) = (1..i) \cup {i + 1}
          BY <2>3
        <5> QED
          BY <5>1 DEF AllListed
      <4>6. ASSUME Apart(q, n) PROVE AllListed(q, i) \cap Listed(q[i + 1]) = {}
        <5>0. n \in Nat /\ i \in 1..n
          BY <1>1, <4>1
        <5>1. \A j \in 1..i : j \in 1..n /\ j # i + 1
          <6> HIDE DEF S, Good
          <6> QED
            BY <5>0
        <5>2. \A j \in 1..n : j # i + 1 => Listed(q[j]) \cap Listed(q[i + 1]) = {}
          BY <2>3, <4>6, Zenon DEF Apart
        <5>3. \A j \in 1..i : Listed(q[j]) \cap Listed(q[i + 1]) = {}
          BY <5>1, <5>2
        <5> QED
          BY <5>3, Zenon DEF AllListed
      <4>7. Apart(q, n) => Distinct(q[i + 1])
        BY <2>3 DEF Apart
      <4>8. /\ f[i] \o q[i + 1] \in Seq(X)
            /\ Listed(f[i] \o q[i + 1]) = Listed(f[i]) \cup Listed(q[i + 1])
            /\ Distinct(f[i]) /\ Distinct(q[i + 1]) /\ Listed(f[i]) \cap Listed(q[i + 1]) = {}
                 => Distinct(f[i] \o q[i + 1])
        BY <4>3, <4>4, JoinList
      <4> QED
        BY <4>2, <4>3, <4>5, <4>6, <4>7, <4>8
    <3> QED
      BY <3>1, <3>2
  <2>4. \A i \in Nat : i \in S => i + 1 \in S
    BY <2>3
  <2>5. n \in S
    <3> HIDE DEF S
    <3> QED
      BY <1>1, <2>2, <2>4, AllNaturals
  <2>6. Good(n)
    BY <1>1, <1>3, <2>5
  <2> QED
    BY <1>1, <1>3, <2>6, FlattenIsJoined DEF f
<1> QED
  BY <1>2, <1>3

-----------------------------------------------------------------------------
(* ProtocolDumps: the selectors a dump begins with.                        *)
Selectors ==
  ({"config", "slots", "total", "b509"} \X Nat) \cup ({"year"} \X Nat \X Int)
    \cup ({"timer"} \X Nat \X Nat \X Nat)

LEMMA DumpNames ==
  /\ Programs \in Nat /\ Days \in Nat /\ MaxSlots \in Nat /\ Combos \in Nat
  /\ MaxRegister \in Nat /\ HostYear \in Nat
BY InterfaceConstants DEF InterfaceConstants, Dump!DumpConstants

(* Any two spans can be put in order.                                      *)
InOrder(s, given) ==
  /\ s \in [1..2 -> Dump!Spans] /\ Dump!Before(s[1], s[2])
  /\ \A i \in 1..2 : \E j \in 1..2 : s[i] = given[j]
  /\ \A j \in 1..2 : \E i \in 1..2 : given[j] = s[i]

OrderOn(given, D) ==
  CHOOSE o \in Dump!Bijection(D, D) :
    \A i, j \in D : i < j => Dump!Before(given[o[i]], given[o[j]])
SortedOn(given, D) == [i \in D |-> given[OrderOn(given, D)[i]]]

LEMMA SortedTwo ==
  ASSUME NEW given, given \in [1..2 -> Dump!Spans]
  PROVE  InOrder(Dump!Sorted(given), given)
<1> DEFINE B == Dump!Bijection(1..2, 1..2)
           Sorts(o) == \A i, j \in 1..2 : i < j => Dump!Before(given[o[i]], given[o[j]])
           order == OrderOn(given, 1..2)
<1>1. DOMAIN given = 1..2
  OBVIOUS
<1>2. \A o \in B : /\ o \in [1..2 -> 1..2]
                   /\ \A i, j \in 1..2 : o[i] = o[j] => i = j
                   /\ \A k \in 1..2 : \E i \in 1..2 : o[i] = k
  BY DEF Dump!Bijection, Dump!Injection, Dump!Surjection, Dump!IsInjective
<1>3. \E o \in B : Sorts(o)
  <2>1. given[1] \in Dump!Spans /\ given[2] \in Dump!Spans
    OBVIOUS
  <2>2. \A r \in Dump!Spans : r[1] \in Int /\ r[2] \in Int
    BY DumpNames DEF Dump!Spans
  <2>3. Dump!Before(given[1], given[2]) \/ Dump!Before(given[2], given[1])
    BY <2>1, <2>2 DEF Dump!Before
  <2>4. CASE Dump!Before(given[1], given[2])
    <3> DEFINE o == [i \in 1..2 |-> i]
    <3>1. o \in B
      BY DEF Dump!Bijection, Dump!Injection, Dump!Surjection, Dump!IsInjective
    <3>2. Sorts(o)
      BY <2>4
    <3> QED
      BY <3>1, <3>2
  <2>5. CASE Dump!Before(given[2], given[1])
    <3> DEFINE o == [i \in 1..2 |-> 3 - i]
    <3>1. o \in B
      <4>1. o \in [1..2 -> 1..2] /\ \A i, j \in 1..2 : o[i] = o[j] => i = j
        OBVIOUS
      <4>2. \A k \in 1..2 : 3 - k \in 1..2 /\ o[3 - k] = k
        OBVIOUS
      <4> HIDE DEF o
      <4> QED
        BY <4>1, <4>2 DEF Dump!Bijection, Dump!Injection, Dump!Surjection, Dump!IsInjective
    <3>2. Sorts(o)
      <4>1. \A i, j \in 1..2 : i < j => i = 1 /\ j = 2
        OBVIOUS
      <4>2. o[1] = 2 /\ o[2] = 1
        OBVIOUS
      <4> QED
        BY <2>5, <4>1, <4>2
    <3> QED
      BY <3>1, <3>2
  <2> QED
    BY <2>3, <2>4, <2>5
<1>4. order \in B /\ Sorts(order)
  BY <1>3 DEF OrderOn
<1>5. Dump!Sorted(given) = [i \in 1..2 |-> given[order[i]]]
  <2>1. Dump!Sorted(given) = SortedOn(given, DOMAIN given)
    BY Zenon DEF Dump!Sorted, SortedOn, OrderOn
  <2> QED
    BY <1>1, <2>1 DEF SortedOn
<1> HIDE DEF order, B, Sorts
<1>6. /\ order \in [1..2 -> 1..2]
      /\ \A k \in 1..2 : \E i \in 1..2 : order[i] = k
  BY <1>2, <1>4
<1> DEFINE s == [i \in 1..2 |-> given[order[i]]]
<1>7. s \in [1..2 -> Dump!Spans] /\ \A i \in 1..2 : s[i] = given[order[i]]
  BY <1>6
<1> HIDE DEF s
<1>8. Dump!Before(s[1], s[2])
  BY <1>4, <1>7 DEF Sorts
<1>9. \A i \in 1..2 : order[i] \in 1..2 /\ s[i] = given[order[i]]
  BY <1>6, <1>7
<1>10. \A j \in 1..2 : \E i \in 1..2 : given[j] = s[i]
  BY <1>6, <1>7
<1> QED
  BY <1>5, <1>7, <1>8, <1>9, <1>10 DEF InOrder, s

(* merge_b509_ranges on two spans: the fold is two merges.                 *)
MergeStep(s, T, it) ==
  IF T = {} THEN <<>> ELSE Dump!Merge(it[T \ {Dump!Max(T)}], s[Dump!Max(T)])
MergeIter(s, D) == CHOOSE it : it = [T \in SUBSET D |-> MergeStep(s, T, it)]

LEMMA MergedIsFold ==
  ASSUME NEW given
  PROVE  Dump!Merged(given) = MergeIter(Dump!Sorted(given), DOMAIN Dump!Sorted(given))
                                [DOMAIN Dump!Sorted(given)]
BY Zenon DEF Dump!Merged, Dump!FoldLeft, Dump!MapThenFoldSet, MergeIter, MergeStep

LEMMA MergedTwo ==
  ASSUME NEW given, given \in [1..2 -> Dump!Spans]
  PROVE  Dump!Merged(given) =
           Dump!Merge(Dump!Merge(<<>>, Dump!Sorted(given)[1]), Dump!Sorted(given)[2])
<1> DEFINE s == Dump!Sorted(given)
           D == 1..2
           m1 == Dump!Merge(<<>>, s[1])
           m2 == Dump!Merge(m1, s[2])
           w == [T \in SUBSET D |-> IF T = {} THEN <<>> ELSE
                                    IF T = {1} THEN m1 ELSE
                                    IF T = {2} THEN Dump!Merge(<<>>, s[2]) ELSE m2]
<1>1. DOMAIN s = D
  BY SortedTwo DEF InOrder
<1>2. Dump!Max({1}) = 1 /\ Dump!Max({2}) = 2 /\ Dump!Max(D) = 2
  <2>1. \A x \in D : (\A y \in D : x >= y) <=> x = 2
    OBVIOUS
  <2>2. 2 \in D
    OBVIOUS
  <2> QED
    BY <2>1, <2>2 DEF Dump!Max
<1>3. D \ {2} = {1} /\ {1} \ {1} = {} /\ {2} \ {2} = {} /\ D # {} /\ D # {1} /\ D # {2} /\ {1} # {2}
  OBVIOUS
<1>4. \A T \in SUBSET D : T = {} \/ T = {1} \/ T = {2} \/ T = D
  <2> SUFFICES ASSUME NEW T \in SUBSET D PROVE T = {} \/ T = {1} \/ T = {2} \/ T = D
    OBVIOUS
  <2>1. \A x \in D : x = 1 \/ x = 2
    OBVIOUS
  <2>2. 1 \in D /\ 2 \in D
    OBVIOUS
  <2> HIDE DEF D
  <2>3. CASE 1 \in T /\ 2 \in T
    BY <2>1, <2>3
  <2>4. CASE 1 \in T /\ 2 \notin T
    BY <2>1, <2>4
  <2>5. CASE 1 \notin T /\ 2 \in T
    BY <2>1, <2>5
  <2>6. CASE 1 \notin T /\ 2 \notin T
    BY <2>1, <2>6
  <2> QED
    BY <2>3, <2>4, <2>5, <2>6
<1>5. {} \in SUBSET D /\ {1} \in SUBSET D /\ {2} \in SUBSET D /\ D \in SUBSET D
  OBVIOUS
<1> HIDE DEF s, D, m1
<1>6. w[{}] = <<>> /\ w[{1}] = m1 /\ w[{2}] = Dump!Merge(<<>>, s[2]) /\ w[D] = m2
  BY <1>3, <1>5
<1>7. \A T \in SUBSET D : w[T] = MergeStep(s, T, w)
  <2>1. MergeStep(s, {}, w) = <<>>
    BY DEF MergeStep
  <2>2. MergeStep(s, {1}, w) = m1
    BY <1>2, <1>3, <1>6 DEF MergeStep, m1
  <2>3. MergeStep(s, {2}, w) = Dump!Merge(<<>>, s[2])
    BY <1>2, <1>3, <1>6 DEF MergeStep
  <2>4. MergeStep(s, D, w) = m2
    BY <1>2, <1>3, <1>6 DEF MergeStep
  <2> HIDE DEF w
  <2> QED
    BY <1>4, <1>6, <2>1, <2>2, <2>3, <2>4
<1>8. w = [T \in SUBSET D |-> MergeStep(s, T, w)]
  <2>1. w = [T \in SUBSET D |-> w[T]]
    OBVIOUS
  <2> HIDE DEF w
  <2> QED
    BY <1>7, <2>1
<1>9. \E it : it = [T \in SUBSET D |-> MergeStep(s, T, it)]
  <2> HIDE DEF w
  <2> QED
    BY <1>8
<1> DEFINE it == MergeIter(s, D)
<1>10. it = [T \in SUBSET D |-> MergeStep(s, T, it)]
  BY <1>9, Zenon DEF MergeIter
<1> HIDE DEF it, w
<1>11. \A T \in SUBSET D : it[T] = MergeStep(s, T, it)
  BY <1>10
<1>12. it[{}] = <<>>
  BY <1>5, <1>11 DEF MergeStep
<1>13. it[{1}] = m1
  BY <1>2, <1>3, <1>5, <1>11, <1>12 DEF MergeStep, m1
<1>14. it[D] = m2
  BY <1>2, <1>3, <1>5, <1>11, <1>13 DEF MergeStep
<1>15. Dump!Merged(given) = it[D]
  BY <1>1, MergedIsFold DEF it, s
<1> QED
  BY <1>14, <1>15 DEF m1, s

(* One span as a list of selectors.                                        *)
Row(r) == [k \in 1..(r[2] - r[1] + 1) |-> <<"b509", r[1] + k - 1>>]
Within(r) == {<<"b509", n>> : n \in {m \in 0..MaxRegister : r[1] <= m /\ m <= r[2]}}

LEMMA SpanNumbers ==
  ASSUME NEW r \in Dump!Spans
  PROVE  r[1] \in Nat /\ r[2] \in Nat /\ r[1] <= r[2] /\ r[2] <= MaxRegister
BY DumpNames DEF Dump!Spans

LEMMA RowGives ==
  ASSUME NEW r, r \in Dump!Spans
  PROVE  Row(r) \in Seq(Selectors) /\ Listed(Row(r)) = Within(r) /\ Distinct(Row(r))
<1>1. r[1] \in Nat /\ r[2] \in Nat /\ r[1] <= r[2] /\ r[2] <= MaxRegister
  BY SpanNumbers
<1>2. PICK a \in Nat : a = r[1]
  BY <1>1
<1>3. PICK b \in Nat : b = r[2]
  BY <1>1
<1> DEFINE n == b - a + 1
           s == Row(r)
<1>4. n \in Nat /\ a <= b /\ b <= MaxRegister
  BY <1>1, <1>2, <1>3
<1>5. s = [k \in 1..n |-> <<"b509", a + k - 1>>]
  BY <1>2, <1>3 DEF Row
<1>6. \A k \in 1..n : a + k - 1 \in Nat /\ a <= a + k - 1 /\ a + k - 1 <= b
  BY <1>4
<1>7. \A m \in Nat : a <= m /\ m <= b => m - a + 1 \in 1..n /\ a + (m - a + 1) - 1 = m
  BY <1>4
<1>8. \A i, j \in 1..n : a + i - 1 = a + j - 1 => i = j
  BY <1>4
<1> HIDE DEF n, s
<1>9. \A k \in 1..n : s[k] = <<"b509", a + k - 1>>
  BY <1>5
<1>10. s \in Seq(Selectors) /\ Len(s) = n
  <2>1. \A k \in 1..n : <<"b509", a + k - 1>> \in Selectors
    BY <1>6 DEF Selectors
  <2>2. s \in [1..n -> Selectors]
    BY <1>5, <2>1
  <2> QED
    BY <1>4, <2>2
<1>11. Listed(s) = Within(r)
  <2>1. ASSUME NEW k \in 1..n PROVE s[k] \in Within(r)
    <3>1. a + k - 1 \in 0..MaxRegister /\ r[1] <= a + k - 1 /\ a + k - 1 <= r[2]
      BY <1>2, <1>3, <1>4, <1>6, DumpNames
    <3> QED
      BY <1>9, <3>1 DEF Within
  <2>2. ASSUME NEW m \in 0..MaxRegister, r[1] <= m, m <= r[2]
        PROVE  <<"b509", m>> \in Listed(s)
    <3>1. m \in Nat /\ a <= m /\ m <= b
      BY <1>2, <1>3, <2>2, DumpNames
    <3>2. PICK k \in 1..n : a + k - 1 = m
      BY <1>7, <3>1
    <3> QED
      BY <1>9, <1>10, <3>2 DEF Listed
  <2> QED
    BY <1>10, <2>1, <2>2 DEF Listed, Within
<1>12. Distinct(s)
  <2> SUFFICES ASSUME NEW i \in 1..n, NEW j \in 1..n, s[i] = s[j] PROVE i = j
    BY <1>10 DEF Distinct
  <2>1. <<"b509", a + i - 1>> = <<"b509", a + j - 1>>
    BY <1>9
  <2>2. a + i - 1 = a + j - 1
    BY <2>1
  <2> QED
    BY <1>8, <2>2
<1> QED
  BY <1>10, <1>11, <1>12 DEF s

LEMMA TwoListed ==
  ASSUME NEW X, NEW x \in X, NEW y \in X
  PROVE  Append(<<x>>, y) = <<x, y>>
<1> DEFINE s == <<x>>
           u == <<x, y>>
<1>1. s \in Seq(X) /\ Len(s) = 1 /\ s[1] = x
  OBVIOUS
<1>2. u \in Seq(X) /\ Len(u) = 2 /\ u[1] = x /\ u[2] = y
  OBVIOUS
<1> HIDE DEF s, u
<1>3. /\ Append(s, y) \in Seq(X)
      /\ Append(s, y) # <<>>
      /\ Len(Append(s, y)) = Len(s) + 1
      /\ \A i \in 1..Len(s) : Append(s, y)[i] = s[i]
      /\ Append(s, y)[Len(s) + 1] = y
  <2>1. s \in Seq(X) /\ y \in X
    BY <1>1
  <2> QED
    BY <2>1, AppendProperties, Zenon
<1>4. \A i \in 1..2 : i = 1 \/ i = 2
  OBVIOUS
<1>5. Append(s, y)[1] = x /\ Append(s, y)[2] = y /\ Len(Append(s, y)) = 2
  BY <1>1, <1>3
<1>6. Append(s, y) = u
  BY <1>2, <1>3, <1>4, <1>5, SeqEqual
<1> QED
  BY <1>6 DEF s, u

LEMMA SetsOf ==
  ASSUME NEW u, NEW r, NEW t,
         \A n \in 0..MaxRegister : (u[1] <= n /\ n <= u[2])
           <=> ((r[1] <= n /\ n <= r[2]) \/ (t[1] <= n /\ n <= t[2]))
  PROVE  Within(u) = Within(r) \cup Within(t)
<1>1. {m \in 0..MaxRegister : u[1] <= m /\ m <= u[2]}
        = {m \in 0..MaxRegister : r[1] <= m /\ m <= r[2]}
            \cup {m \in 0..MaxRegister : t[1] <= m /\ m <= t[2]}
  OBVIOUS
<1> QED
  BY <1>1, Zenon DEF Within

(* The merged spans are one or two, in order, and have the registers of    *)
(* the given ones.                                                         *)
MergedSpans(m, given) ==
  /\ \/ m \in [1..1 -> Dump!Spans] \/ (m \in [1..2 -> Dump!Spans] /\ m[1][2] < m[2][1])
  /\ UNION {Within(m[i]) : i \in DOMAIN m} = Within(given[1]) \cup Within(given[2])

LEMMA MergedGives ==
  ASSUME NEW given, given \in [1..2 -> Dump!Spans]
  PROVE  MergedSpans(Dump!Merged(given), given)
<1> DEFINE s == Dump!Sorted(given)
           m == Dump!Merged(given)
<1>1. InOrder(s, given)
  BY SortedTwo
<1> HIDE DEF s
<1>2. PICK r \in Dump!Spans : r = s[1]
  BY <1>1 DEF InOrder
<1>3. PICK t \in Dump!Spans : t = s[2]
  BY <1>1 DEF InOrder
<1>4. r[1] \in Nat /\ r[2] \in Nat /\ r[1] <= r[2] /\ r[2] <= MaxRegister
  BY SpanNumbers
<1>5. t[1] \in Nat /\ t[2] \in Nat /\ t[1] <= t[2] /\ t[2] <= MaxRegister
  BY SpanNumbers
<1>6. r[1] <= t[1]
  BY <1>1, <1>2, <1>3, <1>4, <1>5 DEF InOrder, Dump!Before
<1>7. Dump!Merge(<<>>, r) = <<r>>
  BY DEF Dump!Merge
<1>8. m = Dump!Merge(<<r>>, t)
  BY <1>2, <1>3, <1>7, MergedTwo DEF s
<1>9. <<r>> # <<>> /\ Dump!Last(<<r>>) = r /\ Dump!Front(<<r>>) = <<>>
  BY DEF Dump!Last, Dump!Front
<1>10. Within(given[1]) \cup Within(given[2]) = Within(r) \cup Within(t)
  <2>1. \A i \in 1..2 : i = 1 \/ i = 2
    OBVIOUS
  <2>2. given[1] \in {r, t} /\ given[2] \in {r, t}
    BY <1>1, <1>2, <1>3, <2>1 DEF InOrder
  <2>3. r \in {given[1], given[2]} /\ t \in {given[1], given[2]}
    BY <1>1, <1>2, <1>3, <2>1 DEF InOrder
  <2>4. CASE given[1] = r
    BY <2>2, <2>3, <2>4
  <2>5. CASE given[1] = t
    BY <2>2, <2>3, <2>5
  <2> QED
    BY <2>2, <2>4, <2>5
<1> HIDE DEF m
<1>11. CASE t[1] <= r[2] + 1
  <2> DEFINE top == Dump!Max({r[2], t[2]})
             u == <<r[1], top>>
  <2>1. top \in {r[2], t[2]} /\ top >= r[2] /\ top >= t[2]
    <3>1. \E x \in {r[2], t[2]} : \A y \in {r[2], t[2]} : x >= y
      BY <1>4, <1>5
    <3> QED
      BY <3>1 DEF Dump!Max
  <2> HIDE DEF top
  <2>2. u \in Dump!Spans /\ u[1] = r[1] /\ u[2] = top
    <3>1. r[1] \in 0..MaxRegister /\ top \in 0..MaxRegister /\ r[1] <= top
      <4>1. top = r[2] \/ top = t[2]
        BY <2>1
      <4> QED
        BY <1>4, <1>5, <1>6, <4>1, DumpNames
    <3> QED
      BY <3>1 DEF Dump!Spans
  <2>3. m = <<u>>
    <3>1. Dump!Merge(<<r>>, t) = <<>> \o << <<r[1], top>> >>
      BY <1>9, <1>11, Zenon DEF Dump!Merge, top
    <3>2. <<>> \o << <<r[1], top>> >> = << <<r[1], top>> >>
      OBVIOUS
    <3> QED
      BY <1>8, <3>1, <3>2
  <2>4. m \in [1..1 -> Dump!Spans] /\ DOMAIN m = {1} /\ m[1] = u
    BY <2>2, <2>3
  <2>5. Within(u) = Within(r) \cup Within(t)
    <3>1. \A n \in 0..MaxRegister : (u[1] <= n /\ n <= u[2])
             <=> ((r[1] <= n /\ n <= r[2]) \/ (t[1] <= n /\ n <= t[2]))
      BY <1>4, <1>5, <1>6, <1>11, <2>1, <2>2, DumpNames
    <3> HIDE DEF u
    <3> QED
      BY <3>1, SetsOf
  <2>6. UNION {Within(m[i]) : i \in DOMAIN m} = Within(u)
    BY <2>4
  <2> QED
    BY <1>10, <2>4, <2>5, <2>6 DEF MergedSpans, m
<1>12. CASE ~ (t[1] <= r[2] + 1)
  <2>1. m = <<r, t>>
    <3>1. Dump!Merge(<<r>>, t) = Append(<<r>>, t)
      BY <1>9, <1>12, Zenon DEF Dump!Merge
    <3>2. Append(<<r>>, t) = <<r, t>>
      BY TwoListed
    <3> QED
      BY <1>8, <3>1, <3>2
  <2>2. m \in [1..2 -> Dump!Spans] /\ DOMAIN m = {1, 2} /\ m[1] = r /\ m[2] = t
    BY <2>1
  <2>3. r[2] < t[1]
    BY <1>4, <1>5, <1>12
  <2>4. UNION {Within(m[i]) : i \in DOMAIN m} = Within(r) \cup Within(t)
    BY <2>2
  <2> QED
    BY <1>10, <2>2, <2>3, <2>4 DEF MergedSpans, m
<1> QED
  BY <1>11, <1>12 DEF m

(* What a dump begins with, and what is added to its work.                 *)
Gives(s, S) == s \in Seq(Selectors) /\ Listed(s) = S /\ Distinct(s)
InRanges(given) ==
  {<<"b509", r>> : r \in {n \in 0..MaxRegister :
      \E i \in DOMAIN given : given[i][1] <= n /\ n <= given[i][2]}}

LEMMA ApartRows ==
  ASSUME NEW r \in Dump!Spans, NEW t \in Dump!Spans, r[2] < t[1]
  PROVE  Within(r) \cap Within(t) = {}
<1>1. r[1] \in Nat /\ r[2] \in Nat /\ t[1] \in Nat /\ t[2] \in Nat
  BY SpanNumbers
<1>2. ASSUME NEW m \in 0..MaxRegister, NEW n \in 0..MaxRegister, <<"b509", m>> = <<"b509", n>>,
             m <= r[2], t[1] <= n
      PROVE  FALSE
  <2>1. m = n
    BY <1>2
  <2> QED
    BY <1>1, <1>2, <2>1, DumpNames
<1> QED
  BY <1>2 DEF Within

LEMMA RegistersGive ==
  ASSUME NEW given, given \in [1..2 -> Dump!Spans]
  PROVE  Gives(Dump!Registers(given), InRanges(given))
<1> DEFINE m == Dump!Merged(given)
           q == [i \in DOMAIN m |-> Row(m[i])]
<1>1. Dump!Registers(given) = Dump!FlattenSeq(q)
  BY Zenon DEF Dump!Registers, Row
<1>2. MergedSpans(m, given)
  BY MergedGives
<1>3. InRanges(given) = Within(given[1]) \cup Within(given[2])
  <2>1. DOMAIN given = {1, 2}
    OBVIOUS
  <2> QED
    BY <2>1 DEF InRanges, Within
<1> HIDE DEF m
<1>4. PICK n \in Nat : /\ n \in {1, 2} /\ m \in [1..n -> Dump!Spans]
                       /\ n = 2 => m[1][2] < m[2][1]
  <2>1. CASE m \in [1..1 -> Dump!Spans]
    <3>1. 1 \in Nat /\ 1 \in {1, 2} /\ 1 # 2
      OBVIOUS
    <3> QED
      BY <2>1, <3>1
  <2>2. CASE m \in [1..2 -> Dump!Spans] /\ m[1][2] < m[2][1]
    <3>1. 2 \in Nat /\ 2 \in {1, 2}
      OBVIOUS
    <3> QED
      BY <2>2, <3>1
  <2> QED
    BY <1>2, <2>1, <2>2 DEF MergedSpans
<1>5. \A i \in 1..n : m[i] \in Dump!Spans
  BY <1>4
<1>6. \A i \in 1..n : Row(m[i]) \in Seq(Selectors) /\ Listed(Row(m[i])) = Within(m[i])
                      /\ Distinct(Row(m[i]))
  BY <1>5, RowGives
<1>7. DOMAIN m = 1..n
  BY <1>4
<1>8. q \in [1..n -> Seq(Selectors)] /\ \A i \in 1..n : q[i] = Row(m[i])
  BY <1>6, <1>7
<1> HIDE DEF q
<1>9. Pieces(q, n, Selectors)
  BY <1>4, <1>8 DEF Pieces
<1>10. Apart(q, n)
  <2>1. ASSUME NEW i \in 1..n, NEW j \in 1..n, i # j
        PROVE  Within(m[i]) \cap Within(m[j]) = {}
    <3>1. n = 2 /\ ((i = 1 /\ j = 2) \/ (i = 2 /\ j = 1))
      BY <1>4, <2>1
    <3>2. m[1] \in Dump!Spans /\ m[2] \in Dump!Spans /\ m[1][2] < m[2][1]
      BY <1>4, <1>5, <3>1
    <3>3. Within(m[1]) \cap Within(m[2]) = {}
      BY <3>2, ApartRows
    <3> QED
      BY <3>1, <3>3
  <2> QED
    BY <1>6, <1>8, <2>1 DEF Apart
<1>11. AllListed(q, n) = UNION {Within(m[i]) : i \in DOMAIN m}
  BY <1>6, <1>7, <1>8 DEF AllListed
<1>12. AllListed(q, n) = InRanges(given)
  BY <1>2, <1>3, <1>11 DEF MergedSpans
<1> QED
  BY <1>1, <1>9, <1>10, <1>12, FlattenGives DEF Gives

(* The selectors of one kind with one number.                              *)
LEMMA NumberedGive ==
  ASSUME NEW n, n \in Nat, NEW k, k \in {"config", "total"}
  PROVE  Gives([i \in 1..n |-> <<k, i>>], {<<k, i>> : i \in 1..n})
<1> DEFINE s == [i \in 1..n |-> <<k, i>>]
<1>1. s \in [1..n -> Selectors]
  BY DEF Selectors
<1>2. \A i \in 1..n : s[i] = <<k, i>>
  OBVIOUS
<1> HIDE DEF s
<1>3. s \in Seq(Selectors) /\ Len(s) = n
  BY <1>1
<1>4. Listed(s) = {<<k, i>> : i \in 1..n}
  BY <1>2, <1>3 DEF Listed
<1>5. Distinct(s)
  <2> SUFFICES ASSUME NEW i \in 1..n, NEW j \in 1..n, s[i] = s[j] PROVE i = j
    BY <1>3 DEF Distinct
  <2>1. <<k, i>> = <<k, j>>
    BY <1>2
  <2> QED
    BY <2>1
<1> QED
  BY <1>3, <1>4, <1>5 DEF Gives, s

YearSelectors(y) == {<<"year", c, z>> : c \in 1..Combos, z \in {y, y - 1}}

LEMMA SameYears ==
  \A a, b, y, z : <<"year", a, y>> = <<"year", b, z>> => a = b /\ y = z
OBVIOUS

LEMMA YearsGive ==
  ASSUME NEW y, y \in Int
  PROVE  Gives(Dump!Years(y), YearSelectors(y))
<1> DEFINE s == Dump!Years(y)
           n == 2 * Combos
<1>1. n \in Nat /\ Combos \in Nat /\ y \in Int /\ y - 1 \in Int
  BY DumpNames
<1>2. s = [i \in 1..n |-> IF i <= Combos THEN <<"year", i, y>>
                          ELSE <<"year", i - Combos, y - 1>>]
  BY DEF Dump!Years
<1>3. \A i \in 1..n : /\ i <= Combos => i \in 1..Combos
                      /\ ~ (i <= Combos) => i - Combos \in 1..Combos
  BY <1>1
<1>4. \A c \in 1..Combos : /\ c \in 1..n /\ c <= Combos
                           /\ c + Combos \in 1..n /\ ~ (c + Combos <= Combos)
                           /\ (c + Combos) - Combos = c
  BY <1>1
<1> HIDE DEF s, n
<1>5. \A i \in 1..n : /\ i <= Combos => s[i] = <<"year", i, y>>
                      /\ ~ (i <= Combos) => s[i] = <<"year", i - Combos, y - 1>>
  BY <1>2
<1>6. s \in Seq(Selectors) /\ Len(s) = n
  <2>1. ASSUME NEW i \in 1..n PROVE s[i] \in Selectors
    <3>1. CASE i <= Combos
      <4>1. i \in Nat /\ s[i] = <<"year", i, y>>
        BY <1>3, <1>5, <3>1
      <4> QED
        BY <1>1, <4>1 DEF Selectors
    <3>2. CASE ~ (i <= Combos)
      <4>1. i - Combos \in Nat /\ s[i] = <<"year", i - Combos, y - 1>>
        BY <1>3, <1>5, <3>2
      <4> QED
        BY <1>1, <4>1 DEF Selectors
    <3> QED
      BY <3>1, <3>2
  <2>2. s \in [1..n -> Selectors]
    <3>1. DOMAIN s = 1..n /\ s = [i \in 1..n |-> s[i]]
      BY <1>2
    <3> QED
      BY <2>1, <3>1
  <2> QED
    BY <1>1, <2>2
<1>7. Listed(s) = YearSelectors(y)
  <2>1. ASSUME NEW i \in 1..n PROVE s[i] \in YearSelectors(y)
    <3>1. CASE i <= Combos
      <4>1. i \in 1..Combos /\ s[i] = <<"year", i, y>>
        BY <1>3, <1>5, <3>1
      <4> QED
        BY <4>1 DEF YearSelectors
    <3>2. CASE ~ (i <= Combos)
      <4>1. i - Combos \in 1..Combos /\ s[i] = <<"year", i - Combos, y - 1>>
        BY <1>3, <1>5, <3>2
      <4> QED
        BY <4>1 DEF YearSelectors
    <3> QED
      BY <3>1, <3>2
  <2>2. ASSUME NEW c \in 1..Combos
        PROVE  <<"year", c, y>> \in Listed(s) /\ <<"year", c, y - 1>> \in Listed(s)
    <3>1. c \in 1..n /\ s[c] = <<"year", c, y>>
      BY <1>4, <1>5
    <3>2. c + Combos \in 1..n /\ s[c + Combos] = <<"year", c, y - 1>>
      BY <1>4, <1>5
    <3> QED
      BY <1>6, <3>1, <3>2 DEF Listed
  <2>3. Listed(s) \subseteq YearSelectors(y)
    BY <1>6, <2>1 DEF Listed
  <2>4. YearSelectors(y) \subseteq Listed(s)
    <3>1. ASSUME NEW c \in 1..Combos, NEW z \in {y, y - 1} PROVE <<"year", c, z>> \in Listed(s)
      <4>1. z = y \/ z = y - 1
        OBVIOUS
      <4> QED
        BY <2>2, <4>1
    <3>2. ASSUME NEW x \in YearSelectors(y) PROVE x \in Listed(s)
      <4>1. PICK c \in 1..Combos, z \in {y, y - 1} : x = <<"year", c, z>>
        BY DEF YearSelectors
      <4> QED
        BY <3>1, <4>1
    <3> QED
      BY <3>2
  <2> QED
    BY <2>3, <2>4
<1>8. Distinct(s)
  <2> SUFFICES ASSUME NEW i \in 1..n, NEW j \in 1..n, s[i] = s[j] PROVE i = j
    BY <1>6 DEF Distinct
  <2>1. CASE i <= Combos /\ j <= Combos
    <3>1. s[i] = <<"year", i, y>> /\ s[j] = <<"year", j, y>>
      BY <1>5, <2>1
    <3> QED
      BY <3>1, SameYears
  <2>2. CASE i <= Combos /\ ~ (j <= Combos)
    <3>1. s[i] = <<"year", i, y>> /\ s[j] = <<"year", j - Combos, y - 1>>
      BY <1>5, <2>2
    <3>0. <<"year", i, y>> = <<"year", j - Combos, y - 1>>
      BY <3>1
    <3>2. y = y - 1
      BY <3>0, SameYears
    <3> QED
      BY <1>1, <3>2
  <2>3. CASE ~ (i <= Combos) /\ j <= Combos
    <3>1. s[j] = <<"year", j, y>> /\ s[i] = <<"year", i - Combos, y - 1>>
      BY <1>5, <2>3
    <3>0. <<"year", j, y>> = <<"year", i - Combos, y - 1>>
      BY <3>1
    <3>2. y = y - 1
      BY <3>0, SameYears
    <3> QED
      BY <1>1, <3>2
  <2>4. CASE ~ (i <= Combos) /\ ~ (j <= Combos)
    <3>1. s[i] = <<"year", i - Combos, y - 1>> /\ s[j] = <<"year", j - Combos, y - 1>>
      BY <1>5, <2>4
    <3>0. <<"year", i - Combos, y - 1>> = <<"year", j - Combos, y - 1>>
      BY <3>1
    <3>2. i - Combos = j - Combos
      BY <3>0, SameYears
    <3> QED
      BY <1>1, <3>2
  <2> QED
    BY <2>1, <2>2, <2>3, <2>4
<1> QED
  BY <1>6, <1>7, <1>8 DEF Gives, s

(* The timers of one program: those a day reports and the program can have.*)
DayRow(p, d, n) == [k \in 1..n |-> <<"timer", p, d, k>>]
DayTimers(p, d, n) == {<<"timer", p, d, k>> : k \in 1..n}
Timings(p, reported, most) ==
  UNION {{<<"timer", p, d, k>> : k \in {i \in 1..MaxSlots : i <= reported[d] /\ i <= most}}
         : d \in 1..Days}
Asking(p, reported, most) ==
  Dump!FlattenSeq([d \in 1..Days |->
    [k \in 1..Dump!DaySlots(reported[d], most) |-> <<"timer", p, d, k>>]])

LEMMA DayRowGives ==
  ASSUME NEW p, p \in Nat, NEW d, d \in Nat, NEW n, n \in Nat
  PROVE  Gives(DayRow(p, d, n), DayTimers(p, d, n))
<1> DEFINE s == DayRow(p, d, n)
<1>1. s \in [1..n -> Selectors]
  BY DEF Selectors, DayRow
<1>2. \A k \in 1..n : s[k] = <<"timer", p, d, k>>
  BY DEF DayRow
<1> HIDE DEF s
<1>3. s \in Seq(Selectors) /\ Len(s) = n
  BY <1>1
<1>4. Listed(s) = DayTimers(p, d, n)
  BY <1>2, <1>3 DEF Listed, DayTimers
<1>5. Distinct(s)
  <2> SUFFICES ASSUME NEW i \in 1..n, NEW j \in 1..n, s[i] = s[j] PROVE i = j
    BY <1>3 DEF Distinct
  <2>1. <<"timer", p, d, i>> = <<"timer", p, d, j>>
    BY <1>2
  <2> QED
    BY <2>1
<1> QED
  BY <1>3, <1>4, <1>5 DEF Gives, s

LEMMA SlotsInDay ==
  ASSUME NEW n \in 0..MaxSlots, NEW m \in 0..MaxSlots
  PROVE  /\ Dump!DaySlots(n, m) \in 0..MaxSlots
         /\ \A k \in Nat \ {0} :
              k \in 1..Dump!DaySlots(n, m) <=> (k \in 1..MaxSlots /\ k <= n /\ k <= m)
<1> DEFINE l == Dump!DaySlots(n, m)
<1>1. n \in Nat /\ m \in Nat /\ n <= MaxSlots /\ m <= MaxSlots /\ MaxSlots \in Nat
  BY DumpNames
<1>2. l \in {n, m} /\ l <= n /\ l <= m
  <2>1. \E x \in {n, m} : \A y \in {n, m} : x <= y
    BY <1>1
  <2> QED
    BY <2>1 DEF Dump!DaySlots, Dump!Min
<1> HIDE DEF l
<1>3. l \in Nat /\ l <= MaxSlots /\ (l = n \/ l = m)
  BY <1>1, <1>2
<1>4. \A k \in Nat \ {0} : k \in 1..l <=> (k \in 1..MaxSlots /\ k <= n /\ k <= m)
  BY <1>1, <1>2, <1>3
<1> QED
  BY <1>3, <1>4 DEF l

LEMMA AskingGives ==
  ASSUME NEW p, p \in Nat, NEW reported, reported \in [1..Days -> 0..MaxSlots],
         NEW most, most \in 0..MaxSlots
  PROVE  Gives(Asking(p, reported, most), Timings(p, reported, most))
<1> DEFINE n(d) == Dump!DaySlots(reported[d], most)
           q == [d \in 1..Days |-> DayRow(p, d, n(d))]
           T(d) == {<<"timer", p, d, k>> : k \in {i \in 1..MaxSlots : i <= reported[d] /\ i <= most}}
<1>1. Asking(p, reported, most) = Dump!FlattenSeq(q)
  BY Zenon DEF Asking, DayRow
<1>2. Days \in Nat /\ MaxSlots \in Nat
  BY DumpNames
<1>3. ASSUME NEW d \in 1..Days PROVE Gives(DayRow(p, d, n(d)), T(d))
  <2>1. reported[d] \in 0..MaxSlots /\ d \in Nat
    OBVIOUS
  <2>2. /\ n(d) \in 0..MaxSlots
        /\ \A k \in Nat \ {0} : k \in 1..n(d) <=> (k \in 1..MaxSlots /\ k <= reported[d] /\ k <= most)
    BY <2>1, SlotsInDay
  <2> HIDE DEF n
  <2>3. n(d) \in Nat
    BY <2>2
  <2>4. 1..n(d) = {i \in 1..MaxSlots : i <= reported[d] /\ i <= most}
    <3>1. \A k \in 1..n(d) : k \in Nat \ {0}
      BY <2>3
    <3>2. \A k \in 1..MaxSlots : k \in Nat \ {0}
      BY <1>2
    <3> QED
      BY <2>2, <3>1, <3>2
  <2>5. DayTimers(p, d, n(d)) = T(d)
    BY <2>4, Zenon DEF DayTimers
  <2>6. Gives(DayRow(p, d, n(d)), DayTimers(p, d, n(d)))
    BY <2>1, <2>3, DayRowGives
  <2> QED
    BY <2>5, <2>6
<1>4. \A d \in 1..Days : q[d] = DayRow(p, d, n(d))
  OBVIOUS
<1>5. q \in [1..Days -> Seq(Selectors)]
  <2>1. \A d \in 1..Days : DayRow(p, d, n(d)) \in Seq(Selectors)
    BY <1>3 DEF Gives
  <2> HIDE DEF n
  <2> QED
    BY <2>1
<1> HIDE DEF q, n
<1>6. Pieces(q, Days, Selectors)
  BY <1>2, <1>5 DEF Pieces
<1>7. \A d \in 1..Days : Listed(q[d]) = T(d) /\ Distinct(q[d])
  BY <1>3, <1>4 DEF Gives
<1>8. ASSUME NEW d \in 1..Days, NEW e \in 1..Days, d # e PROVE T(d) \cap T(e) = {}
  <2>1. ASSUME NEW k, NEW j PROVE <<"timer", p, d, k>> # <<"timer", p, e, j>>
    BY <1>8
  <2> QED
    BY <2>1
<1>9. Apart(q, Days)
  <2> HIDE DEF T
  <2> QED
    BY <1>7, <1>8 DEF Apart
<1>10. AllListed(q, Days) = Timings(p, reported, most)
  <2>1. Timings(p, reported, most) = UNION {T(d) : d \in 1..Days}
    BY Zenon DEF Timings
  <2>2. AllListed(q, Days) = UNION {T(d) : d \in 1..Days}
    <3> HIDE DEF T
    <3> QED
      BY <1>7 DEF AllListed
  <2> QED
    BY <2>1, <2>2
<1> QED
  BY <1>1, <1>6, <1>9, <1>10, FlattenGives DEF Gives

(* One selector is read: it leaves the work, and others may come before or *)
(* behind the rest.                                                        *)
Disjoint(list, made) == list \in Seq(Selectors) /\ Distinct(list) /\ Listed(list) \cap made = {}
Fits(new, S, list, made) == Gives(new, S) /\ S \cap (made \cup Listed(list)) = {}
Goes(list, made, next, S) ==
  /\ Disjoint(next, made \cup {Head(list)})
  /\ (made \cup {Head(list)}) \cup Listed(next) = (made \cup Listed(list)) \cup S

LEMMA GoesOn ==
  ASSUME NEW list, NEW made, Disjoint(list, made), list # <<>>
  PROVE  Goes(list, made, Tail(list), {})
<1>1. /\ Head(list) \in Selectors /\ Tail(list) \in Seq(Selectors)
      /\ Listed(list) = {Head(list)} \cup Listed(Tail(list))
      /\ Distinct(list) => Distinct(Tail(list)) /\ Head(list) \notin Listed(Tail(list))
  BY TailList DEF Disjoint
<1> QED
  BY <1>1 DEF Disjoint, Goes

LEMMA GoesFurther ==
  ASSUME NEW list, NEW made, Disjoint(list, made), list # <<>>,
         NEW new, NEW S, Fits(new, S, list, made)
  PROVE  /\ Goes(list, made, new \o Tail(list), S)
         /\ Goes(list, made, Tail(list) \o new, S)
<1> DEFINE h == Head(list)
           t == Tail(list)
<1>1. /\ h \in Selectors /\ t \in Seq(Selectors)
      /\ Listed(list) = {h} \cup Listed(t)
      /\ Distinct(t) /\ h \notin Listed(t)
  BY TailList DEF Disjoint
<1>2. new \in Seq(Selectors) /\ Listed(new) = S /\ Distinct(new)
      /\ S \cap (made \cup Listed(list)) = {}
  BY DEF Fits, Gives
<1>3. Listed(list) \cap made = {}
  BY DEF Disjoint
<1> HIDE DEF h, t
<1>4. Listed(new) \cap Listed(t) = {} /\ Listed(t) \cap Listed(new) = {}
  BY <1>1, <1>2
<1>5. new \o t \in Seq(Selectors) /\ Listed(new \o t) = S \cup Listed(t) /\ Distinct(new \o t)
  BY <1>1, <1>2, <1>4, JoinList
<1>6. t \o new \in Seq(Selectors) /\ Listed(t \o new) = S \cup Listed(t) /\ Distinct(t \o new)
  BY <1>1, <1>2, <1>4, JoinList
<1>7. /\ (S \cup Listed(t)) \cap (made \cup {h}) = {}
      /\ (made \cup {h}) \cup (S \cup Listed(t)) = (made \cup Listed(list)) \cup S
  BY <1>1, <1>2, <1>3
<1> QED
  BY <1>5, <1>6, <1>7 DEF Goes, Disjoint, h, t

-----------------------------------------------------------------------------
(* The dump under way: what its replies so far call for is what it has     *)
(* read and what it has still to read.                                     *)
Doing == Dump!Dumps[at]
ErrorsOf(made) == {s \in DOMAIN made : made[s] \in Dump!Errors}
Counted ==
  /\ IsFiniteSet(DOMAIN entries) /\ reads = Cardinality(DOMAIN entries)
  /\ errors = Cardinality(ErrorsOf(entries))

TimersAt(x, n, m) ==
  {<<"timer", x[1], x[2], k>> : k \in {i \in 1..MaxSlots : i <= n /\ i <= m}}
TimersOf(most, reported) ==
  UNION {TimersAt(x, reported[x], most[x[1]]) : x \in DOMAIN reported}
Called(most, reported) ==
  {<<"config", p>> : p \in 1..Programs} \cup {<<"slots", p>> : p \in DOMAIN most}
    \cup TimersOf(most, reported)
Places(A, B) == A \X B
TimerTypes ==
  /\ DOMAIN config \subseteq 1..Programs /\ \A p \in DOMAIN config : config[p] \in 0..MaxSlots
  /\ DOMAIN slots \subseteq Places(DOMAIN config, 1..Days)
TimerWork ==
  /\ TimerTypes
  /\ \A p \in DOMAIN config : <<"config", p>> \in DOMAIN entries
  /\ \A x \in DOMAIN slots : <<"slots", x[1]>> \in DOMAIN entries
  /\ DOMAIN entries \cup Listed(work) = Called(config, slots)

(* The years are called for when the last total has answered.              *)
AllTotals == {<<"total", c>> : c \in 1..Combos}
AllCounters(years) == AllTotals \cup YearSelectors(Head(Append(years, HostYear)))
TotalsWork ==
  /\ DOMAIN entries \cup Listed(work) = AllTotals
  /\ work # <<>> /\ work[Len(work)] = <<"total", Combos>>
YearsWork ==
  DOMAIN entries \cup Listed(work) = AllCounters(echoes) /\ AllTotals \subseteq DOMAIN entries
CounterWork == echoes \in Seq(Int) /\ (TotalsWork \/ YearsWork)

RegisterWork == DOMAIN entries \cup Listed(work) = InRanges(ranges)

ReadingInv ==
  /\ Disjoint(work, DOMAIN entries) /\ Counted
  /\ Doing = "b555" => TimerWork
  /\ Doing = "b516" => CounterWork
  /\ Doing = "b509" => RegisterWork

(* Which dumps are in the artifact.                                        *)
Passed(n) == {d \in enabled : \E i \in 1..(n - 1) : Dump!Dumps[i] = d}
OrderInv ==
  /\ at \in 1..4 /\ enabled \subseteq {"b555", "b516", "b509"}
  /\ stage \in {"next", "reading", "dumped"} =>
       incomplete = "none" /\ dumped = Passed(at)
  /\ stage \in {"reading", "dumped"} => at \in 1..3 /\ Doing \in enabled
  /\ stage \in {"next", "reading"} => stopped = "none"
  /\ stopped \in {"none", "user_interrupt"}
  /\ stage = "next" =>
       /\ work = <<>> /\ entries = Dump!Empty /\ config = Dump!Empty /\ slots = Dump!Empty
       /\ echoes = <<>> /\ reads = 0 /\ errors = 0

LEMMA TheDumps ==
  /\ Dump!Dumps[1] = "b555" /\ Dump!Dumps[2] = "b516" /\ Dump!Dumps[3] = "b509"
  /\ DOMAIN Dump!Dumps = 1..3
BY DEF Dump!Dumps

LEMMA SameSizes == \A S : Dump!Cardinality(S) = Cardinality(S)
BY Zenon DEF Dump!Cardinality, Cardinality, Dump!IsFiniteSet, IsFiniteSet

(* A reply is counted once.                                                *)
LEMMA NoteCounts ==
  ASSUME Counted, Head(work) \notin DOMAIN entries, NEW result, Dump!Note(result)
  PROVE  DOMAIN entries' = DOMAIN entries \cup {Head(work)} /\ Counted'
<1> DEFINE D == DOMAIN entries
           h == Head(work)
<1>1. /\ entries' = [s \in D \cup {h} |-> IF s = h THEN result ELSE entries[s]]
      /\ reads' = reads + 1
      /\ errors' = IF result \in Dump!Errors THEN errors + 1 ELSE errors
  BY DEF Dump!Note, Dump!Asked
<1>2. DOMAIN entries' = D \cup {h}
  BY <1>1
<1>3. IsFiniteSet(D) /\ IsFiniteSet(ErrorsOf(entries)) /\ ErrorsOf(entries) \subseteq D
  <2>1. ErrorsOf(entries) \in SUBSET D
    BY DEF ErrorsOf
  <2> QED
    BY <2>1, FS_Subset DEF Counted
<1>4. IsFiniteSet(D \cup {h}) /\ Cardinality(D \cup {h}) = Cardinality(D) + 1
  BY <1>3, FS_AddElement
<1>5. h \notin ErrorsOf(entries)
  BY <1>3
<1>6. ErrorsOf(entries') = IF result \in Dump!Errors THEN ErrorsOf(entries) \cup {h}
                           ELSE ErrorsOf(entries)
  <2>1. \A s \in D : s # h /\ entries'[s] = entries[s]
    BY <1>1
  <2>2. entries'[h] = result
    BY <1>1
  <2> HIDE DEF D, h
  <2>3. ErrorsOf(entries') = {s \in D \cup {h} : entries'[s] \in Dump!Errors}
    BY <1>2 DEF ErrorsOf
  <2>4. ErrorsOf(entries) = {s \in D : entries[s] \in Dump!Errors}
    BY DEF ErrorsOf, D
  <2> QED
    BY <2>1, <2>2, <2>3, <2>4
<1>7. Cardinality(ErrorsOf(entries) \cup {h}) = Cardinality(ErrorsOf(entries)) + 1
  BY <1>3, <1>5, FS_AddElement
<1>8. reads' = Cardinality(D \cup {h}) /\ errors' = Cardinality(ErrorsOf(entries'))
  BY <1>1, <1>4, <1>6, <1>7 DEF Counted
<1> QED
  BY <1>2, <1>4, <1>8 DEF Counted

LEMMA HeadIsDue ==
  ASSUME Disjoint(work, DOMAIN entries), work # <<>>
  PROVE  /\ Head(work) \in Listed(work) /\ Head(work) \notin DOMAIN entries
         /\ Head(work) \in Selectors
<1>1. work \in Seq(Selectors) /\ Listed(work) \cap DOMAIN entries = {}
  BY DEF Disjoint
<1>2. Head(work) \in Selectors /\ Listed(work) = {Head(work)} \cup Listed(Tail(work))
  BY <1>1, TailList
<1> QED
  BY <1>1, <1>2

(* Timers.                                                                 *)
LEMMA CalledShape ==
  ASSUME NEW s, s \in Called(config, slots)
  PROVE  /\ s[1] \in {"config", "slots", "timer"}
         /\ s[1] = "config" => \E p \in 1..Programs : s = <<"config", p>>
         /\ s[1] = "slots" => \E p \in DOMAIN config : s = <<"slots", p>>
         /\ s[1] = "timer" => s \in TimersOf(config, slots)
<1>1. CASE s \in {<<"config", p>> : p \in 1..Programs}
  BY <1>1
<1>2. CASE s \in {<<"slots", p>> : p \in DOMAIN config}
  BY <1>2
<1>3. CASE s \in TimersOf(config, slots)
  <2>1. PICK x \in DOMAIN slots, k \in Nat : s = <<"timer", x[1], x[2], k>>
    BY <1>3, DumpNames DEF TimersOf, TimersAt
  <2> QED
    BY <1>3, <2>1
<1> QED
  BY <1>1, <1>2, <1>3 DEF Called

LEMMA PlaceOf ==
  \A A, B, x : x \in Places(A, B) <=> (x[1] \in A /\ x[2] \in B /\ x = <<x[1], x[2]>>)
BY DEF Places

LEMMA SlotPlaces ==
  ASSUME TimerTypes
  PROVE  \A x \in DOMAIN slots : /\ x[1] \in DOMAIN config /\ x[2] \in 1..Days
                                /\ x = <<x[1], x[2]>>
BY PlaceOf, Zenon DEF TimerTypes

LEMMA TimerStays ==
  ASSUME ReadingInv, Doing = "b555", work # <<>>,
         DOMAIN entries' = DOMAIN entries \cup {Head(work)},
         work' = Tail(work), UNCHANGED <<config, slots>>
  PROVE  TimerWork' /\ Disjoint(work, DOMAIN entries)'
<1>1. TimerWork /\ Disjoint(work, DOMAIN entries)
  BY DEF ReadingInv
<1>2. Goes(work, DOMAIN entries, work', {})
  BY <1>1, GoesOn
<1>3. DOMAIN entries' \cup Listed(work') = Called(config, slots)
  BY <1>1, <1>2 DEF Goes, TimerWork
<1>4. Disjoint(work', DOMAIN entries')
  BY <1>2 DEF Goes
<1>5. TimerTypes'
  BY <1>1 DEF TimerWork, TimerTypes
<1>6. Listed(work)' = Listed(work') /\ Called(config, slots)' = Called(config, slots)
  BY DEF Listed, Called, TimersOf
<1>7. Disjoint(work, DOMAIN entries)' <=> Disjoint(work', DOMAIN entries')
  BY DEF Disjoint, Distinct, Listed
<1> QED
  BY <1>1, <1>3, <1>4, <1>5, <1>6, <1>7 DEF TimerWork

LEMMA TimerConfig ==
  ASSUME ReadingInv, Doing = "b555", work # <<>>,
         DOMAIN entries' = DOMAIN entries \cup {Head(work)},
         NEW most \in 0..MaxSlots, Dump!ConfigRead(most)
  PROVE  TimerWork' /\ Disjoint(work, DOMAIN entries)'
<1> DEFINE D == DOMAIN entries
           h == Head(work)
           C == Called(config, slots)
<1>1. TimerWork /\ TimerTypes /\ Disjoint(work, D)
  BY DEF ReadingInv, TimerWork
<1>2. h \in Listed(work) /\ h \notin D
  BY <1>1, HeadIsDue
<1>3. D \cup Listed(work) = C /\ h \in C
  BY <1>1, <1>2 DEF TimerWork
<1>4. /\ h[1] = "config" /\ UNCHANGED <<slots, echoes>>
      /\ config' = [p \in DOMAIN config \cup {h[2]} |-> IF p = h[2] THEN most ELSE config[p]]
      /\ work' = <<(<<"slots", h[2]>>)>> \o Tail(work)
  BY DEF Dump!ConfigRead, Dump!Asked
<1>0. slots' = slots /\ DOMAIN slots' = DOMAIN slots
  BY <1>4
<1>5. PICK p \in 1..Programs : h = <<"config", p>>
  BY <1>3, <1>4, CalledShape
<1>6. h[2] = p /\ p \in Nat
  BY <1>5, DumpNames
<1> DEFINE sel == <<"slots", p>>
<1>7. p \notin DOMAIN config
  BY <1>1, <1>2, <1>5 DEF TimerWork
<1>8. sel \notin C
  <2>1. sel[1] = "slots"
    OBVIOUS
  <2>2. ASSUME sel \in C PROVE FALSE
    <3>1. PICK r \in DOMAIN config : sel = <<"slots", r>>
      BY <2>1, <2>2, CalledShape
    <3> QED
      BY <1>7, <3>1
  <2> QED
    BY <2>2
<1>9. Gives(<<sel>>, {sel})
  <2>1. sel \in Selectors
    BY <1>6 DEF Selectors
  <2> HIDE DEF sel
  <2>2. <<sel>> \in Seq(Selectors) /\ Len(<<sel>>) = 1 /\ <<sel>>[1] = sel
    BY <2>1
  <2> QED
    BY <2>2 DEF Gives, Listed, Distinct
<1>10. DOMAIN config' = DOMAIN config \cup {p} /\ config'[p] = most
       /\ \A r \in DOMAIN config : config'[r] = config[r]
  BY <1>4, <1>6, <1>7
<1>11. TimersOf(config', slots') = TimersOf(config, slots)
  <2>1. \A x \in DOMAIN slots : x[1] \in DOMAIN config
    BY <1>1, SlotPlaces
  <2>2. \A x \in DOMAIN slots : config'[x[1]] = config[x[1]]
    BY <1>10, <2>1
  <2> QED
    BY <1>0, <2>2 DEF TimersOf
<1>12. Called(config', slots') = C \cup {sel}
  BY <1>10, <1>11 DEF Called
<1> HIDE DEF sel, h, D, C
<1>13. Fits(<<sel>>, {sel}, work, D)
  BY <1>3, <1>8, <1>9 DEF Fits
<1>14. Goes(work, D, work', {sel})
  <2>1. work' = <<sel>> \o Tail(work)
    BY <1>4, <1>6 DEF sel
  <2> QED
    BY <1>1, <1>13, <2>1, GoesFurther
<1>15. Disjoint(work', D \cup {h}) /\ (D \cup {h}) \cup Listed(work') = C \cup {sel}
  BY <1>3, <1>14 DEF Goes, h
<1>16. TimerTypes'
  <2>1. \A x \in DOMAIN slots : x[1] \in DOMAIN config /\ x[2] \in 1..Days /\ x = <<x[1], x[2]>>
    BY <1>1, SlotPlaces
  <2>2. DOMAIN slots' \subseteq Places(DOMAIN config', 1..Days)
    <3>1. ASSUME NEW x \in DOMAIN slots PROVE x \in Places(DOMAIN config', 1..Days)
      <4>1. x[1] \in DOMAIN config' /\ x[2] \in 1..Days /\ x = <<x[1], x[2]>>
        BY <1>10, <2>1
      <4> QED
        BY <4>1, PlaceOf, Zenon
    <3> QED
      BY <1>0, <3>1
  <2>3. DOMAIN config' \subseteq 1..Programs
    BY <1>1, <1>10 DEF TimerTypes
  <2>4. \A r \in DOMAIN config' : config'[r] \in 0..MaxSlots
    BY <1>1, <1>10 DEF TimerTypes
  <2> QED
    BY <2>2, <2>3, <2>4 DEF TimerTypes
<1>17. /\ \A r \in DOMAIN config' : <<"config", r>> \in D \cup {h}
       /\ \A x \in DOMAIN slots' : <<"slots", x[1]>> \in D \cup {h}
  BY <1>1, <1>4, <1>5, <1>10 DEF TimerWork, D
<1>18. DOMAIN entries' = D \cup {h}
  BY DEF D, h
<1>19. Listed(work)' = Listed(work') /\ Called(config, slots)' = Called(config', slots')
  BY DEF Listed, Called, TimersOf
<1>20. Disjoint(work, DOMAIN entries)' <=> Disjoint(work', DOMAIN entries')
  BY DEF Disjoint, Distinct, Listed
<1> QED
  BY <1>12, <1>15, <1>16, <1>17, <1>18, <1>19, <1>20 DEF TimerWork

(* The timers of a place, given how many are reported and allowed there.   *)
LEMMA TimersListed ==
  ASSUME NEW most, NEW reported, NEW s
  PROVE  s \in TimersOf(most, reported) <=>
           \E x \in DOMAIN reported : s \in TimersAt(x, reported[x], most[x[1]])
BY Zenon DEF TimersOf

LEMMA TimerAt ==
  ASSUME NEW x, NEW n, NEW m, NEW s, s \in TimersAt(x, n, m)
  PROVE  s[1] = "timer" /\ s[2] = x[1]
<1>1. PICK k : s = <<"timer", x[1], x[2], k>>
  BY DEF TimersAt
<1> QED
  BY <1>1

LEMMA TimingsListed ==
  ASSUME NEW p, NEW reported, NEW most, NEW s
  PROVE  s \in Timings(p, reported, most) <=>
           \E d \in 1..Days : s \in TimersAt(<<p, d>>, reported[d], most)
<1>1. ASSUME NEW d
      PROVE  TimersAt(<<p, d>>, reported[d], most) =
               {<<"timer", p, d, k>> : k \in {i \in 1..MaxSlots : i <= reported[d] /\ i <= most}}
  <2>1. <<p, d>>[1] = p /\ <<p, d>>[2] = d
    OBVIOUS
  <2> QED
    BY <2>1, Zenon DEF TimersAt
<1>2. s \in Timings(p, reported, most) <=>
        \E d \in 1..Days :
          s \in {<<"timer", p, d, k>> : k \in {i \in 1..MaxSlots : i <= reported[d] /\ i <= most}}
  BY Zenon DEF Timings
<1> QED
  BY <1>1, <1>2, Zenon

LEMMA TimerSlots ==
  ASSUME ReadingInv, Doing = "b555", work # <<>>,
         DOMAIN entries' = DOMAIN entries \cup {Head(work)},
         NEW reported \in [1..Days -> 0..MaxSlots], Dump!SlotsRead(reported)
  PROVE  TimerWork' /\ Disjoint(work, DOMAIN entries)'
<1> DEFINE D == DOMAIN entries
           h == Head(work)
           C == Called(config, slots)
<1>1. TimerWork /\ TimerTypes /\ Disjoint(work, D)
  BY DEF ReadingInv, TimerWork
<1>2. h \in Listed(work) /\ h \notin D
  BY <1>1, HeadIsDue
<1>3. D \cup Listed(work) = C /\ h \in C
  BY <1>1, <1>2 DEF TimerWork
<1>4. /\ h[1] = "slots" /\ config' = config
      /\ slots' = [x \in DOMAIN slots \cup {<<h[2], d>> : d \in 1..Days} |->
                     IF x[1] = h[2] THEN reported[x[2]] ELSE slots[x]]
      /\ work' = Asking(h[2], reported, config[h[2]]) \o Tail(work)
  BY DEF Dump!SlotsRead, Dump!Asked, Asking
<1>5. PICK p \in DOMAIN config : h = <<"slots", p>>
  BY <1>3, <1>4, CalledShape
<1>6. h[2] = p /\ p \in Nat /\ config[p] \in 0..MaxSlots
  <2>1. h[2] = p
    BY <1>5
  <2> QED
    BY <1>1, <1>5, <2>1, DumpNames DEF TimerTypes
<1>7. \A x \in DOMAIN slots : x[1] # p
  BY <1>1, <1>2, <1>5 DEF TimerWork
<1> DEFINE Places0 == {<<p, d>> : d \in 1..Days}
           S == Timings(p, reported, config[p])
<1>8. /\ DOMAIN slots' = DOMAIN slots \cup Places0
      /\ \A x \in DOMAIN slots : slots'[x] = slots[x]
      /\ \A d \in 1..Days : slots'[<<p, d>>] = reported[d]
  <2>1. /\ DOMAIN slots' = DOMAIN slots \cup Places0
        /\ \A x \in DOMAIN slots \cup Places0 :
             slots'[x] = IF x[1] = p THEN reported[x[2]] ELSE slots[x]
    BY <1>4, <1>6
  <2>2. \A d \in 1..Days : <<p, d>>[1] = p /\ <<p, d>>[2] = d
    OBVIOUS
  <2> HIDE DEF Places0
  <2>3. \A x \in DOMAIN slots : slots'[x] = slots[x]
    BY <1>7, <2>1
  <2>4. \A d \in 1..Days : <<p, d>> \in Places0
    BY DEF Places0
  <2>5. ASSUME NEW d \in 1..Days PROVE slots'[<<p, d>>] = reported[d]
    <3>1. PICK x : x = <<p, d>>
      OBVIOUS
    <3>2. x \in Places0 /\ x[1] = p /\ x[2] = d
      BY <2>2, <2>4, <3>1
    <3>3. slots'[x] = reported[d]
      BY <2>1, <3>2
    <3> QED
      BY <3>1, <3>3
  <2> QED
    BY <2>1, <2>3, <2>5
<1>9. TimersOf(config, slots') = TimersOf(config, slots) \cup S
  <2>1. ASSUME NEW s, s \in TimersOf(config, slots') PROVE s \in TimersOf(config, slots) \cup S
    <3>1. PICK x \in DOMAIN slots' : s \in TimersAt(x, slots'[x], config[x[1]])
      BY <2>1, TimersListed
    <3>2. CASE x \in DOMAIN slots
      BY <1>8, <3>1, <3>2, TimersListed
    <3>3. CASE x \in Places0
      <4>1. PICK d \in 1..Days : x = <<p, d>>
        BY <3>3
      <4>2. x[1] = p /\ slots'[x] = reported[d]
        BY <1>8, <4>1
      <4>3. s \in TimersAt(<<p, d>>, reported[d], config[p])
        BY <3>1, <4>1, <4>2, Zenon
      <4> QED
        BY <4>3, TimingsListed
    <3> QED
      BY <1>8, <3>1, <3>2, <3>3
  <2>2. ASSUME NEW s, s \in TimersOf(config, slots) PROVE s \in TimersOf(config, slots')
    <3>1. PICK x \in DOMAIN slots : s \in TimersAt(x, slots[x], config[x[1]])
      BY <2>2, TimersListed
    <3>2. x \in DOMAIN slots' /\ slots'[x] = slots[x]
      BY <1>8
    <3> QED
      BY <3>1, <3>2, TimersListed
  <2>3. ASSUME NEW s, s \in S PROVE s \in TimersOf(config, slots')
    <3>1. PICK d \in 1..Days : s \in TimersAt(<<p, d>>, reported[d], config[p])
      BY <2>3, TimingsListed
    <3>2. PICK x : x = <<p, d>>
      OBVIOUS
    <3>3. x \in DOMAIN slots' /\ slots'[x] = reported[d] /\ x[1] = p
      BY <1>8, <3>2
    <3>4. s \in TimersAt(x, slots'[x], config[x[1]])
      BY <3>1, <3>2, <3>3, Zenon
    <3> QED
      BY <3>3, <3>4, TimersListed
  <2> QED
    BY <2>1, <2>2, <2>3
<1> HIDE DEF S, Places0
<1>10. S \cap C = {}
  <2> SUFFICES ASSUME NEW s, s \in S, s \in C PROVE FALSE
    OBVIOUS
  <2>1. PICK d \in 1..Days : s \in TimersAt(<<p, d>>, reported[d], config[p])
    BY TimingsListed DEF S
  <2>2. s[1] = "timer" /\ s[2] = p
    <3>1. s[1] = "timer" /\ s[2] = <<p, d>>[1]
      BY <2>1, TimerAt
    <3> QED
      BY <3>1
  <2>3. s \in TimersOf(config, slots)
    BY <2>2, CalledShape
  <2>4. PICK x \in DOMAIN slots : s \in TimersAt(x, slots[x], config[x[1]])
    BY <2>3, TimersListed
  <2>5. s[2] = x[1]
    BY <2>4, TimerAt
  <2> QED
    BY <1>7, <2>2, <2>5
<1> DEFINE new == Asking(p, reported, config[p])
<1>11. Gives(new, S)
  BY <1>6, AskingGives DEF S
<1>12. Called(config', slots') = C \cup S
  BY <1>4, <1>9 DEF Called
<1> HIDE DEF h, D, C, new
<1>13. Fits(new, S, work, D)
  BY <1>3, <1>10, <1>11 DEF Fits
<1>14. Goes(work, D, work', S)
  <2>1. work' = new \o Tail(work)
    BY <1>4, <1>6 DEF new
  <2> QED
    BY <1>1, <1>13, <2>1, GoesFurther
<1>15. Disjoint(work', D \cup {h}) /\ (D \cup {h}) \cup Listed(work') = C \cup S
  BY <1>3, <1>14 DEF Goes, h
<1>16. TimerTypes'
  <2>1. \A x \in DOMAIN slots : x[1] \in DOMAIN config /\ x[2] \in 1..Days /\ x = <<x[1], x[2]>>
    BY <1>1, SlotPlaces
  <2>2. DOMAIN slots' \subseteq Places(DOMAIN config', 1..Days)
    <3>1. ASSUME NEW x \in DOMAIN slots PROVE x \in Places(DOMAIN config, 1..Days)
      BY <2>1, PlaceOf, Zenon
    <3>2. ASSUME NEW x \in Places0 PROVE x \in Places(DOMAIN config, 1..Days)
      <4>1. PICK d \in 1..Days : x = <<p, d>>
        BY DEF Places0
      <4>2. x[1] = p /\ x[2] = d /\ x = <<x[1], x[2]>>
        BY <4>1
      <4> QED
        BY <4>2, PlaceOf, Zenon
    <3> QED
      BY <1>4, <1>8, <3>1, <3>2
  <2>3. DOMAIN config' \subseteq 1..Programs /\ \A r \in DOMAIN config' : config'[r] \in 0..MaxSlots
    BY <1>1, <1>4 DEF TimerTypes
  <2> QED
    BY <2>2, <2>3 DEF TimerTypes
<1>17. /\ \A r \in DOMAIN config' : <<"config", r>> \in D \cup {h}
       /\ \A x \in DOMAIN slots' : <<"slots", x[1]>> \in D \cup {h}
  <2>1. \A r \in DOMAIN config' : <<"config", r>> \in D \cup {h}
    BY <1>1, <1>4 DEF TimerWork, D
  <2>2. \A x \in DOMAIN slots : <<"slots", x[1]>> \in D \cup {h}
    BY <1>1 DEF TimerWork, D
  <2>3. ASSUME NEW x \in Places0 PROVE <<"slots", x[1]>> \in D \cup {h}
    <3>1. x[1] = p
      BY DEF Places0
    <3> QED
      BY <1>5, <3>1
  <2> QED
    BY <1>8, <2>1, <2>2, <2>3
<1>18. DOMAIN entries' = D \cup {h}
  BY DEF D, h
<1>19. Listed(work)' = Listed(work') /\ Called(config, slots)' = Called(config', slots')
  BY DEF Listed, Called, TimersOf
<1>20. Disjoint(work, DOMAIN entries)' <=> Disjoint(work', DOMAIN entries')
  BY DEF Disjoint, Distinct, Listed
<1> QED
  BY <1>12, <1>15, <1>16, <1>17, <1>18, <1>19, <1>20 DEF TimerWork

(* Counters: after a reply that is not the last total's, the rest follows; *)
(* after the last total's, the years of the year it gives.                 *)
LEMMA LastStays ==
  ASSUME NEW X, NEW s \in Seq(X), s # <<>>, Tail(s) # <<>>
  PROVE  Tail(s)[Len(Tail(s))] = s[Len(s)]
<1>1. /\ Tail(s) \in Seq(X) /\ Len(Tail(s)) = Len(s) - 1
      /\ \A i \in 1..Len(Tail(s)) : Tail(s)[i] = s[i + 1]
  BY HeadTailProperties
<1>2. PICK n \in Nat : n = Len(s)
  BY LenProperties
<1>3. PICK t \in Seq(X) : t = Tail(s)
  BY <1>1
<1>4. PICK m \in Nat : m = Len(t)
  BY LenProperties
<1>5. m # 0 /\ m + 1 = n
  <2>1. m # 0
    BY <1>3, <1>4, EmptySeq
  <2> QED
    BY <1>1, <1>2, <1>3, <1>4, <2>1
<1>6. m \in 1..m
  BY <1>5
<1>7. t[m] = s[m + 1]
  BY <1>1, <1>3, <1>4, <1>6
<1> QED
  BY <1>2, <1>3, <1>4, <1>5, <1>7

LEMMA LastAlone ==
  ASSUME NEW X, NEW s \in Seq(X), s # <<>>, Distinct(s)
  PROVE  Head(s) = s[Len(s)] <=> Tail(s) = <<>>
<1>1. /\ Tail(s) \in Seq(X) /\ Len(Tail(s)) = Len(s) - 1 /\ Head(s) = s[1]
  BY HeadTailProperties
<1>2. PICK n \in Nat : n = Len(s)
  BY LenProperties
<1>3. n # 0
  BY <1>2, EmptySeq
<1>4. s[1] = s[n] <=> n = 1
  <2>1. 1 \in 1..n /\ n \in 1..n
    BY <1>3
  <2> QED
    BY <1>2, <2>1 DEF Distinct
<1>5. Tail(s) = <<>> <=> Len(Tail(s)) = 0
  BY <1>1, EmptySeq
<1> QED
  BY <1>1, <1>2, <1>4, <1>5

LEMMA CounterShape ==
  ASSUME NEW s, s \in AllCounters(echoes)
  PROVE  s[1] \in {"total", "year"} /\ (s[1] = "total" => s \in AllTotals)
<1>1. CASE s \in AllTotals
  BY <1>1 DEF AllTotals
<1>2. CASE s \in YearSelectors(Head(Append(echoes, HostYear)))
  <2>1. PICK c, z : s = <<"year", c, z>>
    BY <1>2 DEF YearSelectors
  <2> QED
    BY <2>1
<1> QED
  BY <1>1, <1>2 DEF AllCounters

LEMMA TotalShape ==
  ASSUME NEW s, s \in AllTotals
  PROVE  s[1] = "total"
BY DEF AllTotals

LEMMA YearOf ==
  ASSUME NEW years \in Seq(Int)
  PROVE  /\ Dump!Reference(years) = Head(Append(years, HostYear))
         /\ Dump!Reference(years) \in Int
<1>0. HostYear \in Int
  BY InterfaceConstants DEF InterfaceConstants, Dump!DumpConstants
<1>1. CASE years = <<>>
  BY <1>0, <1>1 DEF Dump!Reference
<1>2. CASE years # <<>>
  <2>1. Head(years) \in Int /\ Head(years) = years[1]
    BY <1>2, HeadTailProperties
  <2>2. /\ Append(years, HostYear) \in Seq(Int) /\ Len(Append(years, HostYear)) = Len(years) + 1
        /\ \A i \in 1..Len(years) : Append(years, HostYear)[i] = years[i]
    BY <1>0, AppendProperties
  <2>3. Len(years) \in Nat /\ Len(years) # 0
    BY <1>2, EmptySeq, LenProperties
  <2>4. 1 \in 1..Len(years) /\ Append(years, HostYear) # <<>>
    BY <2>2, <2>3, EmptySeq
  <2>5. Head(Append(years, HostYear)) = Append(years, HostYear)[1]
    BY <2>2, <2>4, HeadTailProperties
  <2> QED
    BY <1>2, <2>1, <2>2, <2>4, <2>5 DEF Dump!Reference
<1> QED
  BY <1>1, <1>2

LEMMA CounterStep ==
  ASSUME ReadingInv, Doing = "b516", work # <<>>,
         DOMAIN entries' = DOMAIN entries \cup {Head(work)}, echoes' \in Seq(Int),
         Head(work)[1] = "total" => work' = Dump!Onward(echoes'),
         Head(work)[1] # "total" => work' = Tail(work) /\ echoes' = echoes
  PROVE  CounterWork' /\ Disjoint(work, DOMAIN entries)'
<1> DEFINE D == DOMAIN entries
           h == Head(work)
           last == <<"total", Combos>>
<1>1. CounterWork /\ Disjoint(work, D)
  BY DEF ReadingInv
<1>2. /\ h \in Listed(work) /\ h \notin D /\ work \in Seq(Selectors) /\ Distinct(work)
      /\ Listed(work) \cap D = {}
  BY <1>1, HeadIsDue DEF Disjoint
<1>3. /\ Goes(work, D, Tail(work), {})
      /\ Tail(work) \in Seq(Selectors)
  BY <1>1, <1>2, GoesOn, TailList
<1>4. DOMAIN entries' = D \cup {h} /\ Listed(work)' = Listed(work')
  BY DEF Listed
<1>5. Disjoint(work, DOMAIN entries)' <=> Disjoint(work', DOMAIN entries')
  BY DEF Disjoint, Distinct, Listed
<1>6. AllTotals' = AllTotals /\ AllCounters(echoes)' = AllCounters(echoes')
  BY DEF AllTotals, AllCounters, YearSelectors
<1> HIDE DEF D, h
<1>7. CASE TotalsWork
  <2>1. D \cup Listed(work) = AllTotals /\ work[Len(work)] = last
    BY <1>7 DEF TotalsWork, D
  <2>2. h[1] = "total"
    BY <1>2, <2>1, TotalShape
  <2>3. work' = Dump!Onward(echoes')
    BY <2>2 DEF h
  <2>4. h = last <=> Tail(work) = <<>>
    BY <1>2, <2>1, LastAlone DEF h
  <2>5. CASE h = last
    <3> DEFINE y == Dump!Reference(echoes')
               new == Dump!Years(y)
               S == YearSelectors(y)
    <3>1. y = Head(Append(echoes', HostYear)) /\ y \in Int
      BY YearOf
    <3> HIDE DEF y
    <3>2. Gives(new, S)
      BY <3>1, YearsGive
    <3>3. S \cap AllTotals = {}
      <4>1. \A s \in S : s[1] = "year"
        BY DEF YearSelectors
      <4> QED
        BY <4>1, TotalShape
    <3>4. work' = Tail(work) \o new
      BY <2>3, <2>5 DEF Dump!Onward, Dump!Asked, h, y
    <3> HIDE DEF new, S
    <3>5. Fits(new, S, work, D)
      BY <2>1, <3>2, <3>3 DEF Fits
    <3>6. Goes(work, D, work', S)
      BY <1>1, <3>4, <3>5, GoesFurther
    <3>7. Disjoint(work', D \cup {h}) /\ (D \cup {h}) \cup Listed(work') = AllTotals \cup S
      BY <2>1, <3>6 DEF Goes, h
    <3>8. AllCounters(echoes') = AllTotals \cup S
      BY <3>1, Zenon DEF AllCounters, S
    <3>9. AllTotals \subseteq D \cup {h}
      <4>1. Listed(Tail(work)) = {}
        BY <2>4, <2>5 DEF Listed
      <4>2. (D \cup {h}) \cup Listed(Tail(work)) = D \cup Listed(work)
        BY <1>3 DEF Goes, h
      <4> QED
        BY <2>1, <4>1, <4>2
    <3>10. YearsWork'
      BY <1>4, <1>6, <3>7, <3>8, <3>9 DEF YearsWork
    <3> QED
      BY <1>4, <1>5, <3>7, <3>10 DEF CounterWork, D, h
  <2>6. CASE h # last
    <3>1. work' = Tail(work)
      <4>1. Dump!Onward(echoes') = Tail(work) \o <<>>
        BY <2>6 DEF Dump!Onward, Dump!Asked, h
      <4>2. Tail(work) \o <<>> = Tail(work)
        BY <1>3, ConcatEmptySeq
      <4> QED
        BY <2>3, <4>1, <4>2
    <3>2. Disjoint(work', D \cup {h}) /\ (D \cup {h}) \cup Listed(work') = AllTotals
      BY <1>3, <2>1, <3>1 DEF Goes, h
    <3>3. work' # <<>> /\ work'[Len(work')] = last
      BY <1>2, <2>1, <2>4, <2>6, <3>1, LastStays
    <3>4. TotalsWork'
      BY <1>4, <1>6, <3>2, <3>3 DEF TotalsWork
    <3> QED
      BY <1>4, <1>5, <3>2, <3>4 DEF CounterWork, D, h
  <2> QED
    BY <2>5, <2>6
<1>8. CASE YearsWork
  <2>1. D \cup Listed(work) = AllCounters(echoes) /\ AllTotals \subseteq D
    BY <1>8 DEF YearsWork, D
  <2>2. h[1] # "total"
    BY <1>2, <2>1, CounterShape
  <2>3. work' = Tail(work) /\ echoes' = echoes
    BY <2>2 DEF h
  <2>4. Disjoint(work', D \cup {h}) /\ (D \cup {h}) \cup Listed(work') = AllCounters(echoes')
    BY <1>3, <2>1, <2>3 DEF Goes, h
  <2>5. YearsWork'
    BY <1>4, <1>6, <2>1, <2>4 DEF YearsWork
  <2> QED
    BY <1>4, <1>5, <2>4, <2>5 DEF CounterWork, D, h
<1> QED
  BY <1>1, <1>7, <1>8 DEF CounterWork

LEMMA RegisterShape ==
  ASSUME NEW s, s \in InRanges(ranges)
  PROVE  s[1] = "b509"
BY DEF InRanges

LEMMA RegisterStep ==
  ASSUME ReadingInv, Doing = "b509", work # <<>>,
         DOMAIN entries' = DOMAIN entries \cup {Head(work)},
         work' = Tail(work), ranges' = ranges
  PROVE  RegisterWork' /\ Disjoint(work, DOMAIN entries)'
<1> DEFINE D == DOMAIN entries
           h == Head(work)
<1>1. RegisterWork /\ Disjoint(work, D)
  BY DEF ReadingInv
<1>2. Goes(work, D, Tail(work), {})
  BY <1>1, GoesOn
<1>3. Disjoint(work', D \cup {h}) /\ (D \cup {h}) \cup Listed(work') = InRanges(ranges')
  BY <1>1, <1>2 DEF Goes, RegisterWork
<1>4. DOMAIN entries' = D \cup {h} /\ Listed(work)' = Listed(work')
      /\ InRanges(ranges)' = InRanges(ranges')
  BY DEF Listed, InRanges
<1>5. Disjoint(work, DOMAIN entries)' <=> Disjoint(work', DOMAIN entries')
  BY DEF Disjoint, Distinct, Listed
<1> HIDE DEF D, h
<1> QED
  BY <1>3, <1>4, <1>5 DEF RegisterWork

LEMMA AnswerKeeps ==
  ASSUME ReadingInv, at \in 1..3, Dump!Answer
  PROVE  ReadingInv'
<1> DEFINE h == Head(work)
<1>1. /\ work # <<>> /\ Disjoint(work, DOMAIN entries) /\ Counted /\ h \notin DOMAIN entries
      /\ h \in Listed(work)
  BY HeadIsDue DEF ReadingInv, Dump!Answer, Dump!Reading
<1>2. ranges' = ranges /\ at' = at /\ stage' = stage
  BY DEF Dump!Answer, Dump!Rest
<1>3. Doing' = Doing /\ Doing \in {"b555", "b516", "b509"}
  <2>1. Doing' = Doing
    BY <1>2 DEF Doing, Dump!Dumps
  <2>2. at = 1 \/ at = 2 \/ at = 3
    OBVIOUS
  <2> QED
    BY <2>1, <2>2, TheDumps DEF Doing
<1>4. ASSUME NEW result, Dump!Note(result)
      PROVE  DOMAIN entries' = DOMAIN entries \cup {h} /\ Counted'
  BY <1>1, <1>4, NoteCounts
<1>5. Doing = "b555" => h[1] \in {"config", "slots", "timer"}
  <2>1. ASSUME Doing = "b555" PROVE h \in Called(config, slots)
    BY <1>1, <2>1 DEF ReadingInv, TimerWork
  <2> QED
    BY <2>1, CalledShape
<1>6. Doing = "b516" => h[1] \in {"total", "year"}
  <2>1. ASSUME Doing = "b516" PROVE h \in AllCounters(echoes) \/ h \in AllTotals
    BY <1>1, <2>1 DEF ReadingInv, CounterWork, TotalsWork, YearsWork
  <2> QED
    BY <2>1, CounterShape, TotalShape
<1>7. Doing = "b509" => h[1] = "b509"
  <2>1. ASSUME Doing = "b509" PROVE h \in InRanges(ranges)
    BY <1>1, <2>1 DEF ReadingInv, RegisterWork
  <2> QED
    BY <2>1, RegisterShape
<1>8. CASE \E most \in 0..MaxSlots : Dump!ConfigRead(most)
  <2>1. PICK most \in 0..MaxSlots : Dump!ConfigRead(most)
    BY <1>8
  <2>2. Dump!Note("ok") /\ h[1] = "config"
    BY <2>1 DEF Dump!ConfigRead, Dump!Asked
  <2>3. Doing = "b555"
    BY <1>3, <1>6, <1>7, <2>2
  <2>4. DOMAIN entries' = DOMAIN entries \cup {h} /\ Counted'
    BY <1>4, <2>2
  <2>5. TimerWork' /\ Disjoint(work, DOMAIN entries)'
    BY <1>1, <2>1, <2>3, <2>4, TimerConfig
  <2> QED
    BY <1>3, <2>3, <2>4, <2>5 DEF ReadingInv
<1>9. CASE \E reported \in [1..Days -> 0..MaxSlots] : Dump!SlotsRead(reported)
  <2>1. PICK reported \in [1..Days -> 0..MaxSlots] : Dump!SlotsRead(reported)
    BY <1>9
  <2>2. Dump!Note("ok") /\ h[1] = "slots"
    BY <2>1 DEF Dump!SlotsRead, Dump!Asked
  <2>3. Doing = "b555"
    BY <1>3, <1>6, <1>7, <2>2
  <2>4. DOMAIN entries' = DOMAIN entries \cup {h} /\ Counted'
    BY <1>4, <2>2
  <2>5. TimerWork' /\ Disjoint(work, DOMAIN entries)'
    BY <1>1, <2>1, <2>3, <2>4, TimerSlots
  <2> QED
    BY <1>3, <2>3, <2>4, <2>5 DEF ReadingInv
<1>10. CASE \E year \in {0, HostYear - 1, HostYear} : Dump!TotalRead(year)
  <2>1. PICK year \in {0, HostYear - 1, HostYear} : Dump!TotalRead(year)
    BY <1>10
  <2>2. /\ Dump!Note("ok") /\ h[1] = "total"
        /\ echoes' = IF year = 0 THEN echoes ELSE Append(echoes, year)
        /\ work' = Dump!Onward(echoes')
    BY <2>1 DEF Dump!TotalRead, Dump!Asked
  <2>3. Doing = "b516"
    BY <1>3, <1>5, <1>7, <2>2
  <2>4. DOMAIN entries' = DOMAIN entries \cup {h} /\ Counted'
    BY <1>4, <2>2
  <2>5. echoes' \in Seq(Int)
    <3>1. echoes \in Seq(Int)
      BY <2>3 DEF ReadingInv, CounterWork
    <3>2. HostYear \in Nat
      BY InterfaceConstants DEF InterfaceConstants, Dump!DumpConstants
    <3>3. year \in Int
      BY <3>2
    <3>4. Append(echoes, year) \in Seq(Int)
      BY <3>1, <3>3, AppendProperties
    <3> QED
      BY <2>2, <3>1, <3>4
  <2>6. CounterWork' /\ Disjoint(work, DOMAIN entries)'
    BY <1>1, <2>2, <2>3, <2>4, <2>5, CounterStep
  <2> QED
    BY <1>3, <2>3, <2>4, <2>6 DEF ReadingInv
<1>11. CASE \E result \in {"ok", "off"} \cup Dump!Errors : Dump!Plain(result)
  <2>1. PICK result \in {"ok", "off"} \cup Dump!Errors : Dump!Plain(result)
    BY <1>11
  <2>2. /\ Dump!Note(result) /\ config' = config /\ slots' = slots /\ echoes' = echoes
        /\ work' = IF h[1] = "total" THEN Dump!Onward(echoes) ELSE Tail(work)
    BY <2>1 DEF Dump!Plain, Dump!Asked, Dump!device
  <2>3. DOMAIN entries' = DOMAIN entries \cup {h} /\ Counted'
    BY <1>4, <2>2
  <2>4. CASE Doing = "b555"
    <3>1. work' = Tail(work)
      BY <1>5, <2>2, <2>4
    <3>2. TimerWork' /\ Disjoint(work, DOMAIN entries)'
      BY <1>1, <2>2, <2>3, <2>4, <3>1, TimerStays
    <3> QED
      BY <1>3, <2>3, <2>4, <3>2 DEF ReadingInv
  <2>5. CASE Doing = "b516"
    <3>1. echoes' \in Seq(Int)
      BY <2>2, <2>5 DEF ReadingInv, CounterWork
    <3>2. /\ h[1] = "total" => work' = Dump!Onward(echoes')
          /\ h[1] # "total" => work' = Tail(work) /\ echoes' = echoes
      <4>1. Dump!Onward(echoes') = Dump!Onward(echoes)
        BY <2>2
      <4> QED
        BY <2>2, <4>1
    <3>3. CounterWork' /\ Disjoint(work, DOMAIN entries)'
      BY <1>1, <2>3, <2>5, <3>1, <3>2, CounterStep
    <3> QED
      BY <1>3, <2>3, <2>5, <3>3 DEF ReadingInv
  <2>6. CASE Doing = "b509"
    <3>1. work' = Tail(work)
      BY <1>7, <2>2, <2>6
    <3>2. RegisterWork' /\ Disjoint(work, DOMAIN entries)'
      BY <1>1, <1>2, <2>3, <2>6, <3>1, RegisterStep
    <3> QED
      BY <1>3, <2>3, <2>6, <3>2 DEF ReadingInv
  <2> QED
    BY <1>3, <2>4, <2>5, <2>6
<1> QED
  BY <1>8, <1>9, <1>10, <1>11 DEF Dump!Answer

(* What a complete dump reads, by dump.                                    *)
LEMMA WantedIs ==
  ASSUME at \in 1..3, ReadingInv
  PROVE  /\ DOMAIN entries \subseteq Dump!Wanted
         /\ work = <<>> => DOMAIN entries = Dump!Wanted
<1>1. Doing = "b555" => Dump!Wanted = Called(config, slots)
  <2>1. ASSUME Doing = "b555"
        PROVE  Dump!Wanted =
          {<<"config", p>> : p \in 1..Programs} \cup {<<"slots", p>> : p \in DOMAIN config}
          \cup UNION {{<<"timer", x[1], x[2], k>> :
                        k \in {i \in 1..MaxSlots : i <= slots[x] /\ i <= config[x[1]]}} :
                      x \in DOMAIN slots}
    BY <2>1 DEF Dump!Wanted, Doing
  <2> QED
    BY <2>1, Zenon DEF Called, TimersOf, TimersAt
<1>2. Doing = "b516" => Dump!Wanted = AllCounters(echoes)
  <2>1. ASSUME Doing = "b516"
        PROVE  Dump!Wanted = {<<"total", c>> : c \in 1..Combos}
                 \cup {<<"year", c, y>> : c \in 1..Combos,
                                         y \in {Dump!RegulatorYear, Dump!RegulatorYear - 1}}
    BY <2>1 DEF Dump!Wanted, Doing
  <2> DEFINE r == Dump!RegulatorYear
  <2>2. {<<"year", c, y>> : c \in 1..Combos, y \in {r, r - 1}} = YearSelectors(r)
    BY DEF YearSelectors
  <2>3. r = Head(Append(echoes, HostYear))
    BY DEF Dump!RegulatorYear
  <2> HIDE DEF r
  <2>4. AllCounters(echoes) = {<<"total", c>> : c \in 1..Combos} \cup YearSelectors(r)
    BY <2>3, Zenon DEF AllCounters, AllTotals
  <2> QED
    BY <2>1, <2>2, <2>4 DEF r
<1>3. Doing = "b509" => Dump!Wanted = InRanges(ranges)
  <2>1. ASSUME Doing = "b509"
        PROVE  Dump!Wanted = {<<"b509", r>> : r \in {n \in 0..MaxRegister :
                   \E i \in DOMAIN ranges : ranges[i][1] <= n /\ n <= ranges[i][2]}}
    BY <2>1 DEF Dump!Wanted, Doing
  <2> QED
    BY <2>1, Zenon DEF InRanges
<1>4. Doing \in {"b555", "b516", "b509"}
  <2>1. at = 1 \/ at = 2 \/ at = 3
    OBVIOUS
  <2> QED
    BY <2>1, TheDumps DEF Doing
<1>5. work = <<>> => Listed(work) = {}
  BY DEF Listed
<1>6. CASE Doing = "b555"
  <2>1. DOMAIN entries \cup Listed(work) = Called(config, slots)
    BY <1>6 DEF ReadingInv, TimerWork
  <2> QED
    BY <1>1, <1>5, <1>6, <2>1
<1>7. CASE Doing = "b516"
  <2>1. CASE TotalsWork
    <3>1. DOMAIN entries \cup Listed(work) = AllTotals /\ work # <<>>
      BY <2>1 DEF TotalsWork
    <3>2. AllTotals \subseteq AllCounters(echoes)
      BY DEF AllCounters
    <3> QED
      BY <1>2, <1>7, <3>1, <3>2
  <2>2. CASE YearsWork
    <3>1. DOMAIN entries \cup Listed(work) = AllCounters(echoes)
      BY <2>2 DEF YearsWork
    <3> QED
      BY <1>2, <1>5, <1>7, <3>1
  <2> QED
    BY <1>7, <2>1, <2>2 DEF ReadingInv, CounterWork
<1>8. CASE Doing = "b509"
  <2>1. DOMAIN entries \cup Listed(work) = InRanges(ranges)
    BY <1>8 DEF ReadingInv, RegisterWork
  <2> QED
    BY <1>3, <1>5, <1>8, <2>1
<1> QED
  BY <1>4, <1>6, <1>7, <1>8

LEMMA Passing ==
  ASSUME enabled \subseteq {"b555", "b516", "b509"}, at \in 1..3
  PROVE  /\ Passed(at + 1) = Passed(at) \cup (enabled \cap {Doing})
         /\ Passed(1) = {} /\ Passed(4) = enabled
<1>1. 1..((at + 1) - 1) = 1..(at - 1) \cup {at} /\ at \in Int
  OBVIOUS
<1>2. 1..(1 - 1) = {} /\ 1..(4 - 1) = {1, 2, 3}
  OBVIOUS
<1>3. Passed(at + 1) = Passed(at) \cup (enabled \cap {Doing})
  BY <1>1, Zenon DEF Passed, Doing
<1>4. Passed(1) = {}
  BY <1>2, Zenon DEF Passed
<1>5. Passed(4) = enabled
  BY <1>2, TheDumps DEF Passed
<1> QED
  BY <1>3, <1>4, <1>5

(* A dump begins with nothing read.                                        *)
LEMMA StartKeeps ==
  ASSUME OrderInv, Dump!Start
  PROVE  ReadingInv' /\ at \in 1..3 /\ Doing \in enabled
<1>1. /\ at \in 1..3 /\ Doing \in enabled /\ work' = Dump!First(Doing) /\ stage = "next"
      /\ ranges' \in (IF Doing = "b509" THEN [1..2 -> Dump!Spans] ELSE {<<>>})
      /\ at' = at /\ entries' = entries /\ config' = config /\ slots' = slots
      /\ echoes' = echoes /\ reads' = reads /\ errors' = errors
  BY TheDumps DEF Dump!Start, Doing, Dump!device, Dump!counted
<1>2. /\ entries' = Dump!Empty /\ config' = Dump!Empty /\ slots' = Dump!Empty
      /\ echoes' = <<>> /\ reads' = 0 /\ errors' = 0
  BY <1>1 DEF OrderInv
<1>3. Doing' = Doing /\ Doing \in {"b555", "b516", "b509"}
  BY <1>1 DEF Doing, Dump!Dumps, OrderInv
<1>4. DOMAIN Dump!Empty = {}
  BY DEF Dump!Empty
<1>5. Counted'
  <2>1. DOMAIN entries' = {} /\ ErrorsOf(entries') = {}
    BY <1>2, <1>4 DEF ErrorsOf
  <2>2. ErrorsOf(entries)' = ErrorsOf(entries')
    BY DEF ErrorsOf, Dump!Errors
  <2> QED
    BY <1>2, <2>1, <2>2, FS_EmptySet DEF Counted
<1>6. ASSUME NEW S, Gives(work', S) PROVE Disjoint(work, DOMAIN entries)' /\ Listed(work)' = S
  BY <1>2, <1>4, <1>6 DEF Gives, Disjoint, Listed, Distinct
<1>7. Programs \in Nat /\ Combos \in Nat /\ HostYear \in Nat
  BY InterfaceConstants DEF InterfaceConstants, Dump!DumpConstants
<1>8. CASE Doing = "b555"
  <2>1. work' = [i \in 1..Programs |-> <<"config", i>>]
    BY <1>1, <1>8 DEF Dump!First
  <2>2. Gives(work', {<<"config", i>> : i \in 1..Programs})
    BY <1>7, <2>1, NumberedGive
  <2>3. Called(config', slots') = {<<"config", i>> : i \in 1..Programs}
    BY <1>2, <1>4 DEF Called, TimersOf
  <2>4. Disjoint(work, DOMAIN entries)' /\ Listed(work)' = Called(config', slots')
    BY <1>6, <2>2, <2>3
  <2>5. Called(config, slots)' = Called(config', slots')
    BY DEF Called, TimersOf
  <2>6. TimerTypes'
    BY <1>2, <1>4 DEF TimerTypes
  <2>7. TimerWork'
    BY <1>2, <1>4, <2>4, <2>5, <2>6 DEF TimerWork
  <2> QED
    BY <1>1, <1>3, <1>5, <1>8, <2>4, <2>7 DEF ReadingInv
<1>9. CASE Doing = "b516"
  <2>1. work' = [i \in 1..Combos |-> <<"total", i>>]
    BY <1>1, <1>9 DEF Dump!First, Dump!Totals
  <2>2. Gives(work', AllTotals)
    BY <1>7, <2>1, NumberedGive DEF AllTotals
  <2>3. Disjoint(work, DOMAIN entries)' /\ Listed(work)' = AllTotals /\ AllTotals' = AllTotals
    BY <1>6, <2>2 DEF AllTotals
  <2>4. CASE Combos = 0
    <3>1. AllTotals = {} /\ AllCounters(echoes)' = {}
      BY <2>4 DEF AllTotals, AllCounters, YearSelectors
    <3>2. YearsWork'
      BY <1>2, <1>4, <2>3, <3>1 DEF YearsWork
    <3> QED
      BY <1>1, <1>2, <1>3, <1>5, <1>9, <2>3, <3>2 DEF ReadingInv, CounterWork
  <2>5. CASE Combos # 0
    <3>1. Len(work') = Combos /\ work'[Combos] = <<"total", Combos>> /\ work' # <<>>
      <4>1. Combos \in 1..Combos
        BY <1>7, <2>5
      <4>2. Len(work') = Combos
        BY <1>7, <2>1
      <4> QED
        BY <1>7, <2>1, <2>5, <4>1, <4>2
    <3>2. TotalsWork'
      BY <1>2, <1>4, <2>3, <3>1 DEF TotalsWork
    <3> QED
      BY <1>1, <1>2, <1>3, <1>5, <1>9, <2>3, <3>2 DEF ReadingInv, CounterWork
  <2> QED
    BY <2>4, <2>5
<1>10. CASE Doing = "b509"
  <2>1. work' = Dump!Registers(ranges') /\ ranges' \in [1..2 -> Dump!Spans]
    BY <1>1, <1>10 DEF Dump!First
  <2>2. Gives(work', InRanges(ranges'))
    <3>1. PICK given : given = ranges'
      OBVIOUS
    <3>2. Gives(Dump!Registers(given), InRanges(given))
      BY <2>1, <3>1, RegistersGive
    <3> QED
      BY <2>1, <3>1, <3>2, Zenon
  <2>3. Disjoint(work, DOMAIN entries)' /\ Listed(work)' = InRanges(ranges')
    BY <1>6, <2>2
  <2>4. InRanges(ranges)' = InRanges(ranges')
    BY DEF InRanges
  <2>5. RegisterWork'
    BY <1>2, <1>4, <2>3, <2>4 DEF RegisterWork
  <2> QED
    BY <1>1, <1>3, <1>5, <1>10, <2>3, <2>5 DEF ReadingInv
<1> QED
  BY <1>1, <1>3, <1>8, <1>9, <1>10

(* What DumpsTrue says of a dump that ended, and of the scan.              *)
DumpedInv ==
  stage = "dumped" =>
    /\ reads = Cardinality(DOMAIN entries) /\ errors = Cardinality(ErrorsOf(entries))
    /\ DOMAIN entries \subseteq Dump!Wanted
    /\ stopped = "none" => DOMAIN entries = Dump!Wanted
EndedInv ==
  /\ stage = "ended" /\ incomplete = "none" /\ telegrams => dumped = enabled
  /\ stage = "ended" /\ stopped # "none" => incomplete = Doing
  /\ incomplete = "b524" => dumped = {}
DumpInv ==
  OrderInv /\ (stage = "reading" => ReadingInv) /\ Dump!TypeOK /\ DumpedInv /\ EndedInv

LEMMA DumpInvMeans == DumpInv => Dump!DumpsTrue
<1> SUFFICES ASSUME DumpInv PROVE Dump!DumpsTrue
  OBVIOUS
<1>1. stage = "dumped" =>
        /\ reads = Dump!Cardinality(DOMAIN entries)
        /\ errors = Dump!Cardinality({s \in DOMAIN entries : entries[s] \in Dump!Errors})
        /\ IF stopped = "none" THEN DOMAIN entries = Dump!Wanted
                               ELSE DOMAIN entries \subseteq Dump!Wanted
  <2>1. ErrorsOf(entries) = {s \in DOMAIN entries : entries[s] \in Dump!Errors}
    BY DEF ErrorsOf
  <2> QED
    BY <2>1, SameSizes, Zenon DEF DumpInv, DumpedInv
<1> QED
  BY <1>1, Zenon DEF DumpInv, EndedInv, Doing, Dump!DumpsTrue

LEMMA DumpInit == Dump!Init => DumpInv
<1> SUFFICES ASSUME Dump!Init PROVE DumpInv
  OBVIOUS
<1>1. enabled \subseteq {"b555", "b516", "b509"}
  <2>1. Dump!ToSet(Dump!Dumps) = {Dump!Dumps[i] : i \in 1..3}
    BY TheDumps DEF Dump!ToSet
  <2> QED
    BY <2>1, TheDumps DEF Dump!Init
<1>2. /\ at = 1 /\ dumped = {} /\ reads = 0 /\ errors = 0 /\ stopped = "none"
      /\ work = <<>> /\ entries = Dump!Empty /\ config = Dump!Empty /\ slots = Dump!Empty
      /\ echoes = <<>> /\ incomplete \in {"none", "b524"} /\ telegrams \in BOOLEAN
      /\ stage = IF incomplete = "none" /\ telegrams THEN "next" ELSE "ended"
  BY DEF Dump!Init
<1>3. Passed(1) = {}
  <2>1. 1..(1 - 1) = {}
    OBVIOUS
  <2> QED
    BY <2>1, Zenon DEF Passed
<1>4. OrderInv
  BY <1>1, <1>2, <1>3 DEF OrderInv
<1>5. Dump!TypeOK /\ DumpedInv /\ EndedInv
  BY <1>2 DEF Dump!TypeOK, DumpedInv, EndedInv
<1> QED
  BY <1>2, <1>4, <1>5 DEF DumpInv

LEMMA PassedStays == ASSUME enabled' = enabled PROVE Passed(at)' = Passed(at')
BY DEF Passed, Dump!Dumps

LEMMA DoingStays == ASSUME at' = at PROVE Doing' = Doing
BY DEF Doing, Dump!Dumps

LEMMA StartStep == DumpInv /\ Dump!Start => DumpInv'
<1> SUFFICES ASSUME DumpInv, Dump!Start PROVE DumpInv'
  OBVIOUS
<1>1. /\ stage = "next" /\ stage' = "reading" /\ at' = at /\ enabled' = enabled
      /\ telegrams' = telegrams /\ stopped' = stopped /\ incomplete' = incomplete
      /\ dumped' = dumped /\ reads' = reads /\ errors' = errors
  BY DEF Dump!Start, Dump!counted
<1>2. ReadingInv' /\ at \in 1..3 /\ Doing \in enabled
  BY StartKeeps DEF DumpInv
<1>3. Passed(at)' = Passed(at) /\ Doing' = Doing
  BY <1>1, PassedStays, DoingStays
<1>4. OrderInv'
  BY <1>1, <1>2, <1>3 DEF DumpInv, OrderInv
<1>5. Dump!TypeOK' /\ DumpedInv' /\ EndedInv'
  BY <1>1 DEF DumpInv, Dump!TypeOK, DumpedInv, EndedInv
<1> QED
  BY <1>2, <1>4, <1>5 DEF DumpInv

LEMMA SkipStep == DumpInv /\ Dump!Skip => DumpInv'
<1> SUFFICES ASSUME DumpInv, Dump!Skip PROVE DumpInv'
  OBVIOUS
<1>1. /\ stage = "next" /\ enabled' = enabled /\ telegrams' = telegrams /\ work' = work
      /\ entries' = entries /\ config' = config /\ slots' = slots /\ echoes' = echoes
      /\ reads' = reads /\ errors' = errors /\ stopped' = stopped
      /\ incomplete' = incomplete /\ dumped' = dumped
  BY DEF Dump!Skip, Dump!device, Dump!counted
<1>2. /\ at \in 1..4 /\ enabled \subseteq {"b555", "b516", "b509"} /\ incomplete = "none"
      /\ dumped = Passed(at) /\ stopped = "none"
  BY <1>1 DEF DumpInv, OrderInv
<1>3. CASE at \in 1..3
  <2>1. at' = at + 1 /\ stage' = stage /\ Doing \notin enabled
    BY <1>3, TheDumps DEF Dump!Skip, Doing
  <2>2. Passed(at)' = Passed(at) /\ at' \in 1..4
    <3>1. Passed(at)' = Passed(at + 1)
      BY <1>1, <2>1, PassedStays
    <3>2. Passed(at + 1) = Passed(at) \cup (enabled \cap {Doing})
      BY <1>2, <1>3, Passing
    <3> QED
      BY <1>3, <2>1, <3>1, <3>2
  <2>3. OrderInv'
    BY <1>1, <1>2, <2>1, <2>2 DEF DumpInv, OrderInv, Dump!Empty
  <2>4. Dump!TypeOK' /\ DumpedInv' /\ EndedInv'
    BY <1>1, <1>2, <2>1, <2>2 DEF DumpInv, Dump!TypeOK, DumpedInv, EndedInv
  <2> QED
    BY <1>1, <2>1, <2>3, <2>4 DEF DumpInv
<1>4. CASE at \notin 1..3
  <2>1. at' = at /\ stage' = "ended" /\ at = 4
    BY <1>2, <1>4, TheDumps DEF Dump!Skip
  <2>2. dumped = enabled
    <3>1. 1..(4 - 1) = {1, 2, 3}
      OBVIOUS
    <3>2. Passed(4) = enabled
      BY <1>2, <3>1, TheDumps DEF Passed
    <3> QED
      BY <1>2, <2>1, <3>2
  <2>3. OrderInv'
    BY <1>1, <1>2, <2>1 DEF DumpInv, OrderInv
  <2>4. Dump!TypeOK' /\ DumpedInv' /\ EndedInv'
    BY <1>1, <1>2, <2>1, <2>2 DEF DumpInv, Dump!TypeOK, DumpedInv, EndedInv
  <2> QED
    BY <2>1, <2>3, <2>4 DEF DumpInv
<1> QED
  BY <1>3, <1>4

LEMMA AnswerStep == DumpInv /\ Dump!Answer => DumpInv'
<1> SUFFICES ASSUME DumpInv, Dump!Answer PROVE DumpInv'
  OBVIOUS
<1>1. /\ stage = "reading" /\ stage' = stage /\ at' = at /\ enabled' = enabled
      /\ telegrams' = telegrams /\ stopped' = stopped /\ incomplete' = incomplete
      /\ dumped' = dumped
  BY DEF Dump!Answer, Dump!Rest, Dump!Reading
<1>2. at \in 1..3 /\ ReadingInv
  BY <1>1 DEF DumpInv, OrderInv
<1>3. ReadingInv'
  BY <1>2, AnswerKeeps
<1>4. Passed(at)' = Passed(at) /\ Doing' = Doing
  BY <1>1, PassedStays, DoingStays
<1>5. OrderInv'
  BY <1>1, <1>4 DEF DumpInv, OrderInv
<1>6. reads' \in Nat /\ errors' \in 0..reads'
  <2>1. reads \in Nat /\ errors \in 0..reads
    BY DEF DumpInv, Dump!TypeOK
  <2>2. reads' = reads + 1 /\ (errors' = errors \/ errors' = errors + 1)
    BY DEF Dump!Answer, Dump!ConfigRead, Dump!SlotsRead, Dump!TotalRead, Dump!Plain, Dump!Note
  <2> QED
    BY <2>1, <2>2
<1>7. Dump!TypeOK' /\ DumpedInv' /\ EndedInv'
  BY <1>1, <1>6 DEF DumpInv, Dump!TypeOK, DumpedInv, EndedInv
<1> QED
  BY <1>3, <1>5, <1>7 DEF DumpInv

LEMMA NotEnabledStep == DumpInv /\ Dump!NotEnabled => DumpInv'
<1> SUFFICES ASSUME DumpInv, Dump!NotEnabled PROVE DumpInv'
  OBVIOUS
<1>1. /\ stage = "reading" /\ stage' = "lost" /\ at' = at /\ enabled' = enabled
      /\ telegrams' = telegrams /\ stopped' = stopped /\ incomplete' = incomplete
      /\ dumped' = dumped /\ reads' = reads /\ errors' = errors
  BY DEF Dump!NotEnabled, Dump!Reading, Dump!counted
<1> QED
  BY <1>1 DEF DumpInv, OrderInv, Dump!TypeOK, DumpedInv, EndedInv

(* The dump under way ends, read or not.                                   *)
LEMMA DumpEnds ==
  ASSUME DumpInv, stage = "reading", stage' = "dumped",
         stopped' \in {"none", "user_interrupt"}, stopped' = "none" => work = <<>>,
         UNCHANGED <<enabled, telegrams, ranges, at, work, entries, Dump!device, Dump!counted,
                     incomplete, dumped>>
  PROVE  DumpInv'
<1>1. /\ at' = at /\ enabled' = enabled /\ telegrams' = telegrams /\ incomplete' = incomplete
      /\ dumped' = dumped /\ reads' = reads /\ errors' = errors /\ entries' = entries
      /\ ranges' = ranges /\ config' = config /\ slots' = slots /\ echoes' = echoes
  BY DEF Dump!device, Dump!counted
<1>2. at \in 1..3 /\ ReadingInv
  BY DEF DumpInv, OrderInv
<1>3. Passed(at)' = Passed(at) /\ Doing' = Doing
  BY <1>1, PassedStays, DoingStays
<1>4. OrderInv'
  BY <1>1, <1>3 DEF DumpInv, OrderInv
<1>5. Dump!TypeOK' /\ EndedInv'
  BY <1>1 DEF DumpInv, OrderInv, Dump!TypeOK, EndedInv
<1>6. DumpedInv'
  <2>1. /\ reads = Cardinality(DOMAIN entries) /\ errors = Cardinality(ErrorsOf(entries))
    BY <1>2 DEF ReadingInv, Counted
  <2>2. /\ DOMAIN entries \subseteq Dump!Wanted
        /\ stopped' = "none" => DOMAIN entries = Dump!Wanted
    BY <1>2, WantedIs
  <2>3. Dump!Wanted' = Dump!Wanted
    BY <1>1 DEF Dump!Wanted, Dump!RegulatorYear, Dump!Dumps
  <2>4. ErrorsOf(entries)' = ErrorsOf(entries)
    BY <1>1 DEF ErrorsOf, Dump!Errors
  <2> QED
    BY <1>1, <2>1, <2>2, <2>3, <2>4 DEF DumpedInv
<1> QED
  BY <1>4, <1>5, <1>6 DEF DumpInv

LEMMA InterruptStep == DumpInv /\ (Dump!Interrupt \/ Dump!Finish) => DumpInv'
<1>1. ASSUME DumpInv, Dump!Interrupt PROVE DumpInv'
  BY <1>1, DumpEnds DEF Dump!Interrupt
<1>2. ASSUME DumpInv, Dump!Finish PROVE DumpInv'
  <2>1. stopped' = stopped /\ stopped = "none"
    BY <1>2 DEF Dump!Finish, DumpInv, OrderInv
  <2> QED
    BY <1>2, <2>1, DumpEnds DEF Dump!Finish
<1> QED
  BY <1>1, <1>2

LEMMA AttachStep == DumpInv /\ Dump!Attach => DumpInv'
<1> SUFFICES ASSUME DumpInv, Dump!Attach PROVE DumpInv'
  OBVIOUS
<1>1. /\ stage = "dumped" /\ dumped' = dumped \cup {Doing} /\ enabled' = enabled
      /\ telegrams' = telegrams /\ stopped' = stopped
      /\ work' = <<>> /\ entries' = Dump!Empty /\ config' = Dump!Empty /\ slots' = Dump!Empty
      /\ echoes' = <<>> /\ reads' = 0 /\ errors' = 0
  BY DEF Dump!Attach, Dump!Fresh, Doing
<1>2. /\ at \in 1..3 /\ Doing \in enabled /\ incomplete = "none" /\ dumped = Passed(at)
      /\ enabled \subseteq {"b555", "b516", "b509"} /\ stopped \in {"none", "user_interrupt"}
  BY <1>1 DEF DumpInv, OrderInv
<1>3. CASE stopped = "none"
  <2>1. stage' = "next" /\ at' = at + 1 /\ incomplete' = incomplete
    BY <1>3 DEF Dump!Attach
  <2>2. dumped' = Passed(at)'
    <3>1. Passed(at)' = Passed(at + 1)
      BY <1>1, <2>1, PassedStays
    <3>2. Passed(at + 1) = Passed(at) \cup (enabled \cap {Doing})
      BY <1>2, Passing
    <3> QED
      BY <1>1, <1>2, <3>1, <3>2
  <2>3. OrderInv'
    BY <1>1, <1>2, <1>3, <2>1, <2>2 DEF OrderInv, Dump!Empty
  <2>4. Dump!TypeOK' /\ DumpedInv' /\ EndedInv'
    BY <1>1, <1>2, <2>1 DEF DumpInv, Dump!TypeOK, DumpedInv, EndedInv
  <2> QED
    BY <2>1, <2>3, <2>4 DEF DumpInv
<1>4. CASE stopped # "none"
  <2>1. stage' = "ended" /\ at' = at /\ incomplete' = Doing
    BY <1>2, <1>4 DEF Dump!Attach, Doing
  <2>2. Doing' = Doing /\ Doing # "b524" /\ Doing # "none"
    BY <1>2, <2>1, DoingStays
  <2>3. OrderInv'
    BY <1>1, <1>2, <2>1 DEF OrderInv
  <2>4. Dump!TypeOK' /\ DumpedInv' /\ EndedInv'
    BY <1>1, <1>2, <2>1, <2>2 DEF DumpInv, Dump!TypeOK, DumpedInv, EndedInv
  <2> QED
    BY <2>1, <2>3, <2>4 DEF DumpInv
<1> QED
  BY <1>3, <1>4

LEMMA DumpRest == DumpInv /\ UNCHANGED onlyDump => DumpInv'
<1> SUFFICES ASSUME DumpInv, UNCHANGED onlyDump PROVE DumpInv'
  OBVIOUS
<1> USE DEF onlyDump
<1>1. Doing' = Doing /\ Passed(at)' = Passed(at)
  BY PassedStays, DoingStays
<1>2. OrderInv'
  BY <1>1 DEF DumpInv, OrderInv, Dump!Empty
<1>3. ReadingInv' <=> ReadingInv
  <2>1. TimerWork' <=> TimerWork
    BY DEF TimerWork, TimerTypes, Listed, Called, TimersOf
  <2>2. CounterWork' <=> CounterWork
    BY DEF CounterWork, TotalsWork, YearsWork, Listed, AllTotals, AllCounters, YearSelectors
  <2>3. RegisterWork' <=> RegisterWork
    BY DEF RegisterWork, Listed, InRanges
  <2>4. Disjoint(work, DOMAIN entries)' <=> Disjoint(work, DOMAIN entries)
    BY DEF Disjoint, Distinct, Listed
  <2>5. Counted' <=> Counted
    BY DEF Counted, ErrorsOf, Dump!Errors
  <2> QED
    BY <1>1, <2>1, <2>2, <2>3, <2>4, <2>5, Zenon DEF ReadingInv
<1>4. DumpedInv' <=> DumpedInv
  <2>1. Dump!Wanted' = Dump!Wanted
    BY DEF Dump!Wanted, Dump!RegulatorYear, Dump!Dumps
  <2>2. ErrorsOf(entries)' = ErrorsOf(entries)
    BY DEF ErrorsOf, Dump!Errors
  <2> QED
    BY <2>1, <2>2 DEF DumpedInv
<1>5. Dump!TypeOK' /\ EndedInv'
  BY <1>1 DEF DumpInv, Dump!TypeOK, EndedInv
<1> QED
  BY <1>2, <1>3, <1>4, <1>5 DEF DumpInv

(* The dumps, while they are shown.                                        *)
DumpShownInv == part = "dumps" => DumpInv

LEMMA DumpShown ==
  /\ AllInit => DumpShownInv
  /\ DumpShownInv /\ [AllNext]_allVars => DumpShownInv'
<1>1. AllInit => DumpShownInv
  BY DumpInit DEF AllInit, DumpShownInv
<1>2. ASSUME DumpInv, [Dump!Next]_onlyDump PROVE DumpInv'
  BY <1>2, StartStep, SkipStep, AnswerStep, NotEnabledStep, InterruptStep, AttachStep, DumpRest
     DEF Dump!Next
<1>3. DumpShownInv /\ [AllNext]_allVars => DumpShownInv'
  BY <1>2, OnePart DEF DumpShownInv
<1> QED
  BY <1>1, <1>3

(* Dumps: each selector is asked once, and unless the user stops it a dump *)
(* asks exactly those its replies call for, whatever was reported; what is *)
(* complete has every dump in it (scan_vrc and the dump scanners).         *)
THEOREM DumpsAreTrue == AllSpec => []DumpsTrue
<1>1. DumpShownInv => DumpsTrue
  BY DumpInvMeans DEF DumpShownInv, DumpsTrue
<1> QED
  BY <1>1, DumpShown, PTL DEF AllSpec
=============================================================================
