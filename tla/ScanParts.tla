------------------------------- MODULE ScanParts -------------------------------
(***************************************************************************)
(* What happens to one scan, part by part: the scan with its budget, its   *)
(* exceptions and its replanning (B524Scan), the planner its user edits    *)
(* (Planner), the parameter descriptions acquired                          *)
(* (DescriptionAcquisition), the artifact replayed from its trace          *)
(* (ReplayTrace) and the rows and the tree an artifact is browsed by       *)
(* (BrowseStore).  A behaviour shows one part; the variables of the others *)
(* stay 0, those of DescriptionAcquisition at an initial state.            *)
(***************************************************************************)
EXTENDS DescriptionAcquisition

CONSTANTS TaskCount, ProgramCount, MaxBudget, MaxProbes, MaxReplans, Groups,
          MaxCode, MaxEdits, MaxRequests, MaxReconnects, MaxEntries

VARIABLES
  part,   \* the part a behaviour shows
  (* of B524Scan *)
  stage, planner, forced, plan, queue, done, task, entries, automatic, offered,
  selected, op, records, opAttempts, recorded, probing, probed, probes, asking,
  tries, sent, budget, reason, replans,
  (* of Planner *)
  kind, screen, step, on, scope, chosen, byHand, preset, policy, exact, requests,
  selection, editable, edits,
  (* of ReplayTrace *)
  seq, open, traced, doing, history, silent, confused, trace,
  (* of BrowseStore *)
  file, store, node, tab

Registers == INSTANCE B524Scan WITH
  phase <- stage, described <- probed, sends <- sent, limit <- budget,
  tried <- tries, MaxLimit <- MaxBudget
Edit == INSTANCE Planner
Replay == INSTANCE ReplayTrace
Rows == INSTANCE BrowseStore

ASSUME ScanConstants ==
  Registers!BudgetConstants /\ Edit!PlannerConstants /\ Replay!TraceConstants
  /\ Rows!StoreConstants

onlyRegisters == <<stage, planner, forced, plan, queue, done, task, entries,
                   automatic, offered, selected, op, records, opAttempts, recorded,
                   probing, probed, probes, asking, tries, sent, budget, reason,
                   replans>>
onlyEdit == <<kind, screen, step, on, scope, chosen, byHand, preset, policy, exact,
              requests, selection, editable, edits>>
onlyReplay == <<seq, open, traced, doing, history, silent, confused, trace>>
onlyRows == <<file, store, node, tab>>
allVars == <<part, onlyRegisters, onlyEdit, onlyReplay, onlyRows, vars>>

(* The variables of a part that is not shown.                               *)
NoRegisters ==
  /\ stage = 0 /\ planner = 0 /\ forced = 0 /\ plan = 0 /\ queue = 0 /\ done = 0
  /\ task = 0 /\ entries = 0 /\ automatic = 0 /\ offered = 0 /\ selected = 0 /\ op = 0
  /\ records = 0 /\ opAttempts = 0 /\ recorded = 0 /\ probing = 0 /\ probed = 0 /\ probes = 0
  /\ asking = 0 /\ tries = 0 /\ sent = 0 /\ budget = 0 /\ reason = 0 /\ replans = 0
NoEdit ==
  /\ kind = 0 /\ screen = 0 /\ step = 0 /\ on = 0 /\ scope = 0 /\ chosen = 0
  /\ byHand = 0 /\ preset = 0 /\ policy = 0 /\ exact = 0 /\ requests = 0 /\ selection = 0
  /\ editable = 0 /\ edits = 0
NoReplay ==
  /\ seq = 0 /\ open = 0 /\ traced = 0 /\ doing = 0 /\ history = 0 /\ silent = 0
  /\ confused = 0 /\ trace = 0
NoRows ==
  /\ file = 0 /\ store = 0 /\ node = 0 /\ tab = 0
NoDescribe ==
  /\ Init /\ limit = Unlimited /\ described = Unlimited
  /\ before = 0 /\ Total(eligible) = 0
-----------------------------------------------------------------------------
AllInit ==
  \/ /\ part = "registers" /\ NoDescribe /\ Registers!Init
     /\ NoEdit /\ NoReplay /\ NoRows
  \/ /\ part = "planner" /\ NoDescribe /\ Edit!Init
     /\ NoRegisters /\ NoReplay /\ NoRows
  \/ /\ part = "replay" /\ NoDescribe /\ Replay!Init
     /\ NoRegisters /\ NoEdit /\ NoRows
  \/ /\ part = "store" /\ NoDescribe /\ Rows!Init
     /\ NoRegisters /\ NoEdit /\ NoReplay
  \/ /\ part = "descriptions" /\ Init
     /\ NoRegisters /\ NoEdit /\ NoReplay /\ NoRows

OthersThanRegisters ==
  UNCHANGED <<part, onlyEdit, onlyReplay, onlyRows, vars>>
OthersThanEdit ==
  UNCHANGED <<part, onlyRegisters, onlyReplay, onlyRows, vars>>
OthersThanReplay ==
  UNCHANGED <<part, onlyRegisters, onlyEdit, onlyRows, vars>>
OthersThanRows ==
  UNCHANGED <<part, onlyRegisters, onlyEdit, onlyReplay, vars>>
OthersThanDescribe ==
  UNCHANGED <<part, onlyRegisters, onlyEdit, onlyReplay, onlyRows>>

AllNext ==
  \/ part = "registers" /\ Registers!Next /\ OthersThanRegisters
  \/ part = "planner" /\ Edit!Next /\ OthersThanEdit
  \/ part = "replay" /\ Replay!Next /\ OthersThanReplay
  \/ part = "store" /\ Rows!Next /\ OthersThanRows
  \/ part = "descriptions" /\ Next /\ OthersThanDescribe

AllSpec == AllInit /\ [][AllNext]_allVars
-----------------------------------------------------------------------------
(* Registers: the artifact says of every selected operation and register   *)
(* what became of it, however the scan ended.                              *)
ArtifactTrue == part = "registers" => Registers!ArtifactTrue

(* Registers: a plan changed while registers are read loses no register    *)
(* and reads none twice.                                                   *)
ReplanKeeps == [][part = "registers" => Registers!KeepsRegisters]_allVars

(* Descriptions: the coverage adds up to what was sent, and a budget is    *)
(* told exhausted only when it is.                                         *)
ReportsTrue == part = "descriptions" => ReportTrue

(* Descriptions: no namespace waits while another is served twice.         *)
TakenInTurn == part = "descriptions" => NamespacesInTurn

(* Planner: the plan and the selections that come back are ones the user   *)
(* can have meant.                                                         *)
PlanSound == part = "planner" => Edit!PlanSound

(* Replay: a trace's artifact says what the transport did and received.    *)
ReplayTrue == part = "replay" => Replay!ReplayTrue

(* Store: what is in the artifact has its row, under one leaf.             *)
RowsTrue == part = "store" => Rows!RowsTrue
=============================================================================
