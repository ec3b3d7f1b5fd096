------------------------------ MODULE Interfaces -------------------------------
(***************************************************************************)
(* The programs around a scan, part by part: the command that starts it    *)
(* (ScanCommand), the dumps of other protocols behind it (ProtocolDumps),  *)
(* the live browser (BrowserLive), the parameter write (ParameterWrite) and*)
(* the controlled timer write (OperationWrite).  A behaviour shows one     *)
(* part; the variables of the others stay 0, those of OperationWrite at an *)
(* initial state.                                                          *)
(***************************************************************************)
EXTENDS OperationWrite

CONSTANTS Addresses, Preferred, Hosts, MaxRetries, Programs, Days, MaxSlots, Combos,
          MaxRegister, HostYear, MaxSessions, MaxOps, Values, MaxRechecks

VARIABLES
  part,   \* the part a behaviour shows
  (* of ScanCommand *)
  command, tty, preset, settings, phase, setup, targets, left, found, dst, identity,
  opened, retries, prepared, scans, saved, shown, code,
  (* of ProtocolDumps *)
  enabled, telegrams, ranges, at, stage, work, entries, config, slots, echoes,
  reads, errors, stopped, incomplete, dumped,
  (* of BrowserLive *)
  app, ui, screen, session, verified, busy, inflight, recorded, teardown, context,
  pending, unknown, kind, outcomes, queue, worker, history, brokenRender,
  (* of ParameterWrite *)
  writing, preparation, device, foreign, admissions, written, travelling, verdict,
  changed, rechecks

Command == INSTANCE ScanCommand
Dump == INSTANCE ProtocolDumps
Live == INSTANCE BrowserLive WITH
  outcome <- outcomes
Parameter == INSTANCE ParameterWrite WITH
  pc <- writing, plan <- preparation, attempts <- admissions, frames <- written,
  inFlight <- travelling, outcome <- verdict, changes <- changed

ASSUME InterfaceConstants ==
  Command!CommandConstants /\ Dump!DumpConstants /\ Live!BrowserConstants
  /\ Parameter!WriteConstants

onlyCommand == <<command, tty, preset, settings, phase, setup, targets, left, found,
                 dst, identity, opened, retries, prepared, scans, saved, shown, code>>
onlyDump == <<enabled, telegrams, ranges, at, stage, work, entries, config, slots,
              echoes, reads, errors, stopped, incomplete, dumped>>
onlyLive == <<app, ui, screen, session, verified, busy, inflight, recorded,
              teardown, context, pending, unknown, kind, outcomes, queue, worker,
              history, brokenRender>>
onlyParameter == <<writing, preparation, device, foreign, admissions, written,
                   travelling, verdict, changed, rechecks>>
allVars == <<part, onlyCommand, onlyDump, onlyLive, onlyParameter, vars>>

(* The variables of a part that is not shown.                               *)
NoCommand ==
  /\ command = 0 /\ tty = 0 /\ preset = 0 /\ settings = 0 /\ phase = 0 /\ setup = 0
  /\ targets = 0 /\ left = 0 /\ found = 0 /\ dst = 0 /\ identity = 0 /\ opened = 0
  /\ retries = 0 /\ prepared = 0 /\ scans = 0 /\ saved = 0 /\ shown = 0 /\ code = 0
NoDump ==
  /\ enabled = 0 /\ telegrams = 0 /\ ranges = 0 /\ at = 0 /\ stage = 0 /\ work = 0
  /\ entries = 0 /\ config = 0 /\ slots = 0 /\ echoes = 0 /\ reads = 0 /\ errors = 0
  /\ stopped = 0 /\ incomplete = 0 /\ dumped = 0
NoLive ==
  /\ app = 0 /\ ui = 0 /\ screen = 0 /\ session = 0 /\ verified = 0 /\ busy = 0
  /\ inflight = 0 /\ recorded = 0 /\ teardown = 0 /\ context = 0 /\ pending = 0 /\ unknown = 0
  /\ kind = 0 /\ outcomes = 0 /\ queue = 0 /\ worker = 0 /\ history = 0 /\ brokenRender = 0
NoParameter ==
  /\ writing = 0 /\ preparation = 0 /\ device = 0 /\ foreign = 0 /\ admissions = 0 /\ written = 0
  /\ travelling = 0 /\ verdict = 0 /\ changed = 0 /\ rechecks = 0
NoWrite ==
  /\ Init /\ plan = [before |-> timer, after |-> timer] /\ ~qualified
  /\ timer = CHOOSE t \in Timers : TRUE
-----------------------------------------------------------------------------
AllInit ==
  \/ /\ part = "command" /\ NoWrite /\ Command!Init
     /\ NoDump /\ NoLive /\ NoParameter
  \/ /\ part = "dumps" /\ NoWrite /\ Dump!Init
     /\ NoCommand /\ NoLive /\ NoParameter
  \/ /\ part = "browser" /\ NoWrite /\ Live!Init
     /\ NoCommand /\ NoDump /\ NoParameter
  \/ /\ part = "parameter" /\ NoWrite /\ Parameter!Init
     /\ NoCommand /\ NoDump /\ NoLive
  \/ /\ part = "timer" /\ Init
     /\ NoCommand /\ NoDump /\ NoLive /\ NoParameter

OthersThanCommand ==
  UNCHANGED <<part, onlyDump, onlyLive, onlyParameter, vars>>
OthersThanDump ==
  UNCHANGED <<part, onlyCommand, onlyLive, onlyParameter, vars>>
OthersThanLive ==
  UNCHANGED <<part, onlyCommand, onlyDump, onlyParameter, vars>>
OthersThanParameter ==
  UNCHANGED <<part, onlyCommand, onlyDump, onlyLive, vars>>
OthersThanWrite ==
  UNCHANGED <<part, onlyCommand, onlyDump, onlyLive, onlyParameter>>

AllNext ==
  \/ part = "command" /\ Command!Next /\ OthersThanCommand
  \/ part = "dumps" /\ Dump!Next /\ OthersThanDump
  \/ part = "browser" /\ Live!Next /\ OthersThanLive
  \/ part = "parameter" /\ Parameter!Next /\ OthersThanParameter
  \/ part = "timer" /\ Next /\ OthersThanWrite

(* The loop of the browser runs its handlers, a worker ends every operation *)
(* (a transport request has a deadline), and the teardown is straight-line *)
(* code.  Every request of a parameter write ends as well.  The user owes  *)
(* nothing, and the other parts owe nothing.                               *)
Browsing(A) == part = "browser" /\ A /\ OthersThanLive
Writing == part = "parameter" /\ Parameter!Execution /\ OthersThanParameter
AllSpec ==
  /\ AllInit /\ [][AllNext]_allVars
  /\ WF_allVars(Browsing(Live!Loop)) /\ WF_allVars(Browsing(Live!Teardown))
  /\ \A s \in 1..MaxSessions : WF_allVars(Browsing(Live!Worker(s)))
  /\ WF_allVars(Writing)
-----------------------------------------------------------------------------
(* Command: what the command reports, saves and shows is what happened.    *)
ResultTrue == part = "command" => Command!ResultTrue

(* Command: nothing is connected or asked again once a scan has begun.     *)
StartsOnce == [][part = "command" => Command!StartsOnce]_allVars

(* Dumps: the selectors asked are the ones the replies call for, and the   *)
(* artifact is complete only with every dump in it.                        *)
DumpsTrue == part = "dumps" => Dump!DumpsTrue

(* Browser: one operation at most, on a verified connection that is kept.  *)
OneVerifiedOperation == part = "browser" => Live!OneVerifiedOperation

(* Browser: however it ends, each result is in the history, once.          *)
HistoryTrue == part = "browser" => Live!HistoryTrue

(* Browser: a write goes to the connection its preparation was read from.  *)
WriteWherePrepared == [][part = "browser" => Live!WriteWherePrepared]_allVars

(* Browser: a tracked operation releases the browser unless the app stops, *)
(* and however the app stops, the program ends.                            *)
BusyEnds ==
  (part = "browser" /\ busy) ~> (part = "browser" => ~busy \/ app # "running")
TeardownEnds ==
  (part = "browser" /\ app = "stopping") ~> (part = "browser" => app = "ended")
NothingHangs == BusyEnds /\ TeardownEnds

(* Parameter: one frame at most, whatever is reported of it is true.       *)
ParameterFrames == part = "parameter" => Parameter!FrameInv

(* Parameter: a frame never overwrites a value other than the confirmed    *)
(* baseline, unless somebody changed the device after it was read.         *)
NoBlindOverwrite == [][part = "parameter" => Parameter!OverBaseline]_allVars

(* Parameter: every execution and every recheck ends with an outcome.      *)
ParameterEnds ==
  (part = "parameter" /\ writing # "done")
    ~> (part = "parameter" => writing = "done" /\ verdict # "none")

(* Parameter: the write keeps the promise of a confirmed write.            *)
ParameterPromise == INSTANCE SingleWrite WITH
  phase <- IF part = "parameter" THEN Parameter!Phase ELSE "checking",
  frames <- IF part = "parameter" THEN written ELSE 0,
  claim <- IF part = "parameter" THEN Parameter!Claim ELSE "none"
ParameterPromiseKept == ParameterPromise!Spec
=============================================================================
