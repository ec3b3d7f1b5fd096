------------------------------- MODULE B524Scan -------------------------------
(***************************************************************************)
(* run_b524_scan: one request budget shared by discovery, register reads,  *)
(* descriptions and operation reads; a planner that may be called again    *)
(* while registers are read; Ctrl-C, an empty budget or a lost adapter at  *)
(* any request; and the artifact that must say what was and was not read.  *)
(* A register is a number in the order of the work queue.  Operations come *)
(* in programs: GetEvent (odd), then GetEventSetPoint (even).  What the    *)
(* description acquisition does inside its share is DescriptionAcquisition.*)
(***************************************************************************)
EXTENDS Naturals

CONSTANTS TaskCount, ProgramCount,
          MaxAttempts,   \* attempts of the transport for one request
          MaxLimit,      \* bound: request_budget
          MaxProbes,     \* bound: requests of discovery, and of descriptions
          MaxReplans     \* bound: planner calls while registers are read

BudgetConstants == {TaskCount, ProgramCount, MaxAttempts, MaxLimit, MaxProbes, MaxReplans} \subseteq Nat

Tasks == 1..TaskCount
Operations == 1..(2 * ProgramCount)
Program(i) == (i + 1) \div 2
IsEvent(i) == i % 2 = 1

VARIABLES
  phase,      \* "discovery", "planner", "reading", "describing", "operations",
              \* "final" (after the try statement), "ended"
  planner, forced,          \* planner_mode; planner_ui asked for textual only
  plan, queue, done, task,  \* scan plan, work_queue, done, the task popped
  entries,                  \* registers with an entry in the artifact
  automatic, offered, selected,   \* operation_request_list, operation_selection
  op, records, opAttempts, recorded,  \* records: state per operation, "none" if absent
  probing, described, probes,     \* probe_constraints; acquisition finished
  asking, tried, sends, limit,    \* the request under way; CountingTransport
  reason, replans

planning == <<planner, forced, plan, queue, replans>>
reading == <<done, task, entries>>
operating == <<op, records, opAttempts, recorded>>
offering == <<automatic, offered, selected>>
describing == <<probing, described>>
counting == <<asking, tried, sends, limit>>
vars == <<phase, planning, reading, operating, offering, describing, probes, counting, reason>>

Init ==
  /\ phase = "discovery" /\ planner \in {"textual", "classic", "disabled"}
  /\ forced \in BOOLEAN /\ (forced => planner = "textual")
  /\ plan = {} /\ queue = {} /\ done = {} /\ task = 0 /\ entries = {}
  /\ automatic \in BOOLEAN /\ offered = ~automatic
  /\ selected = IF offered THEN Operations ELSE {}
  /\ op = 1 /\ records = [i \in Operations |-> "none"] /\ recorded = FALSE
  /\ opAttempts = [i \in Operations |-> 0]
  /\ probing \in BOOLEAN /\ described = FALSE /\ probes = 0
  /\ asking = FALSE /\ tried = 0 /\ sends = 0 /\ limit \in 1..MaxLimit
  /\ reason = "none" /\ replans = 0

-----------------------------------------------------------------------------
(* Mutant of Later: the operation after the current one is forgotten.      *)
LaterButOne(i) == {j \in selected : j > i + 1}
Later(i) == {j \in selected : j > i}

(* acquire_operation_reads on its way out: the current record keeps its    *)
(* attempts, and _mark_unattempted adds the rest.  A lost adapter is an    *)
(* error of the transport even before the first attempt.                   *)
StopOperations(why) ==
  /\ records' = [i \in Operations |->
                   IF i \in Later(op) THEN "unattempted"
                   ELSE IF i # op THEN records[i]
                   ELSE IF tried > 0 \/ why = "transport_recovery_exhausted"
                   THEN "transport_error" ELSE "unattempted"]
  /\ opAttempts' = [opAttempts EXCEPT ![op] = tried]

(* One of the three exceptions that end the scan and keep its artifact.    *)
Stop(why) ==
  /\ phase' = "final" /\ reason' = why
  /\ UNCHANGED <<planning, offering, describing, probes, counting, done, task, op, recorded>>

Spoil(why) ==
  /\ Stop(why)
  /\ IF phase = "operations" /\ asking THEN StopOperations(why)
     ELSE UNCHANGED <<records, opAttempts>>
  /\ entries' = IF why = "transport_recovery_exhausted" /\ phase = "reading"
                THEN entries \cup {task} ELSE entries

Running == phase \notin {"final", "ended"}

(* The hook of CountingTransport, before each attempt of the transport.    *)
Attempt ==
  /\ asking /\ Running /\ tried < MaxAttempts /\ sends < limit
  /\ tried' = tried + 1 /\ sends' = sends + 1
  /\ UNCHANGED <<phase, planning, reading, operating, offering, describing, probes, asking,
                 limit, reason>>
BudgetExhausted ==
  asking /\ Running /\ tried < MaxAttempts /\ sends >= limit /\ Spoil("request_budget_exhausted")
RecoveryExhausted == asking /\ Running /\ Spoil("transport_recovery_exhausted")
Interrupt == Running /\ Spoil("user_interrupt")

(* Any other exception leaves the scan without an artifact.                *)
Escape ==
  /\ phase' = "ended" /\ reason' = "raised"
  /\ UNCHANGED <<planning, reading, operating, offering, describing, probes, counting>>
(* TransportCommandNotEnabled; the operation reads record it as any error. *)
NotEnabled == asking /\ phase \in {"discovery", "reading", "describing"} /\ Escape

Ask == asking' = TRUE /\ tried' = 0 /\ UNCHANGED <<sends, limit>>
Answered == asking /\ asking' = FALSE /\ UNCHANGED <<tried, sends, limit>>
-----------------------------------------------------------------------------
(* System information, identity and instance discovery; the requests of    *)
(* the description acquisition count against the same budget.              *)
ProbeStarts ==
  /\ phase \in {"discovery", "describing"} /\ ~asking /\ probes < MaxProbes
  /\ Ask /\ probes' = probes + 1
  /\ UNCHANGED <<phase, planning, reading, operating, offering, describing, reason>>
ProbeEnds ==
  /\ phase \in {"discovery", "describing"} /\ Answered
  /\ UNCHANGED <<phase, planning, reading, operating, offering, describing, probes, reason>>

(* Mutant of Remaining: replanning starts from the whole plan.             *)
WholePlan(newPlan) == newPlan
(* build_work_queue.                                                       *)
Remaining(newPlan) == newPlan \ done

(* Automatic event programs are offered when the caller asked for none and *)
(* the device is known; the plan is the preset's or the caller's.          *)
DiscoveryEnds ==
  /\ phase = "discovery" /\ ~asking /\ probes' = 0
  /\ IF automatic
     THEN offered' \in BOOLEAN /\ selected' = (IF offered' THEN Operations ELSE {})
     ELSE UNCHANGED <<offered, selected>>
  /\ plan' \in SUBSET Tasks
  /\ IF planner = "disabled"
     THEN phase' = "reading" /\ queue' = Remaining(plan')
     ELSE phase' = "planner" /\ UNCHANGED queue
  /\ UNCHANGED <<planner, forced, replans, automatic, reading, operating, describing, counting,
                 reason>>

(* The operations a user may leave selected: whole programs of the         *)
(* automatic ones, any of the caller's.                                    *)
Selections ==
  IF ~offered THEN {{}}
  ELSE IF automatic THEN {{i \in Operations : Program(i) \in P} : P \in SUBSET (1..ProgramCount)}
  ELSE SUBSET Operations

(* Either planner returns a plan and edits the selection in place; textual *)
(* falls back to classic when it cannot start.                             *)
PlannerReturns ==
  /\ phase = "planner" /\ phase' = "reading"
  /\ planner' = planner \/ (planner = "textual" /\ ~forced /\ planner' = "classic")
  /\ plan' \in SUBSET Tasks /\ selected' \in Selections /\ queue' = Remaining(plan')
  /\ UNCHANGED <<forced, replans, automatic, offered, reading, operating, describing, probes,
                 counting, reason>>
PlannerUnavailable == phase = "planner" /\ forced /\ Escape

Hotkey ==
  /\ phase = "reading" /\ ~asking /\ queue # {} /\ planner # "disabled" /\ replans < MaxReplans
  /\ phase' = "planner" /\ replans' = replans + 1
  /\ UNCHANGED <<planner, forced, plan, queue, reading, operating, offering, describing, probes,
                 counting, reason>>
-----------------------------------------------------------------------------
ReadStarts ==
  /\ phase = "reading" /\ ~asking /\ queue # {}
  /\ task' \in queue /\ (\A t \in queue : task' <= t) /\ queue' = queue \ {task'} /\ Ask
  /\ UNCHANGED <<phase, planner, forced, plan, replans, done, entries, operating, offering,
                 describing, probes, reason>>

(* A value, or an error read_register turns into an entry.                 *)
ReadEnds ==
  /\ phase = "reading" /\ Answered
  /\ done' = done \cup {task} /\ entries' = entries \cup {task}
  /\ UNCHANGED <<phase, planning, task, operating, offering, describing, probes, reason>>

(* The operation reads, if any is selected.                                *)
StartOperations ==
  /\ phase' = "operations" /\ recorded' = (selected # {})
  /\ UNCHANGED <<planning, reading, op, records, opAttempts, offering, probing, probes, counting,
                 reason>>
ReadingEnds ==
  /\ phase = "reading" /\ ~asking /\ queue = {}
  /\ IF probing
     THEN phase' = "describing" /\ UNCHANGED <<planning, reading, operating, offering,
                                               describing, probes, counting, reason>>
     ELSE StartOperations /\ UNCHANGED described
DescriptionsEnd ==
  /\ phase = "describing" /\ ~asking /\ described' = TRUE /\ StartOperations
(* acquire_descriptions ran out of budget without asking the transport.    *)
DescriptionsPreempted ==
  phase = "describing" /\ ~asking /\ Spoil("request_budget_exhausted")
-----------------------------------------------------------------------------
(* Automatic setpoints are read only after a usable Event of their program.*)
Usable(i) == automatic /\ ~IsEvent(i) => records[i - 1] = "value"

Record(state) ==
  /\ records' = [records EXCEPT ![op] = state] /\ opAttempts' = [opAttempts EXCEPT ![op] = tried]
  /\ op' = op + 1

InOperations == phase = "operations" /\ ~asking /\ op \in Operations
OperationPassed ==
  /\ InOperations
  /\ \/ op \notin selected /\ UNCHANGED <<records, opAttempts>>
     \/ op \in selected /\ ~Usable(op) /\ UNCHANGED opAttempts
        /\ records' = [records EXCEPT ![op] = "unattempted"]
  /\ op' = op + 1
  /\ UNCHANGED <<phase, planning, reading, recorded, offering, describing, probes, counting,
                 reason>>
OperationStarts ==
  /\ InOperations /\ op \in selected /\ Usable(op) /\ Ask
  /\ UNCHANGED <<phase, planning, reading, operating, offering, describing, probes, reason>>
OperationEnds ==
  /\ phase = "operations" /\ Answered
  /\ \/ tried > 0 /\ Record("value")
     \/ Record("failed")
  /\ UNCHANGED <<phase, planning, reading, recorded, offering, describing, probes, reason>>
OperationsEnd ==
  /\ phase = "operations" /\ ~asking /\ op \notin Operations /\ phase' = "final"
  /\ UNCHANGED <<planning, reading, operating, offering, describing, probes, counting, reason>>

(* After the try statement: operations never begun are written down as     *)
(* unattempted.  completed is "no reason".                                 *)
Finalize ==
  /\ phase = "final" /\ phase' = "ended"
  /\ IF offered /\ ~recorded
     THEN /\ records' = [i \in Operations |-> IF i \in selected THEN "unattempted" ELSE "none"]
          /\ recorded' = TRUE
     ELSE UNCHANGED <<records, recorded>>
  /\ UNCHANGED <<planning, reading, op, opAttempts, offering, describing, probes, counting,
                 reason>>

Next ==
  \/ Attempt \/ BudgetExhausted \/ RecoveryExhausted \/ Interrupt \/ NotEnabled
  \/ ProbeStarts \/ ProbeEnds \/ DiscoveryEnds
  \/ PlannerReturns \/ PlannerUnavailable \/ Hotkey
  \/ ReadStarts \/ ReadEnds \/ ReadingEnds \/ DescriptionsEnd \/ DescriptionsPreempted
  \/ OperationPassed \/ OperationStarts \/ OperationEnds \/ OperationsEnd \/ Finalize

Spec == Init /\ [][Next]_vars
-----------------------------------------------------------------------------
TypeOK ==
  /\ plan \subseteq Tasks /\ queue \subseteq plan /\ done \subseteq entries
  /\ entries \subseteq Tasks /\ selected \subseteq Operations /\ op \in 1..(2 * ProgramCount + 1)
  /\ records \in [Operations -> {"none", "value", "failed", "transport_error", "unattempted"}]
  /\ sends \in 0..limit /\ tried \in 0..MaxAttempts
  /\ reason \in {"none", "user_interrupt", "request_budget_exhausted",
                 "transport_recovery_exhausted", "raised"}

(* Ctrl-C between two operation reads: the records not made yet are lost.  *)
InterruptedBetween == reason = "user_interrupt" /\ recorded /\ ~asking

(* The artifact says what happened (the except clauses and the end of      *)
(* run_b524_scan).  A completed scan has an entry for every register of    *)
(* the plan it reports, whatever was replanned, and its descriptions and   *)
(* selected operations behind it.  An interrupted one has one record per   *)
(* selected operation and none for another; an unattempted one never       *)
(* reached the transport, and a setpoint was asked only after its Event.   *)
ArtifactTrue ==
  /\ TypeOK
  /\ phase = "ended" /\ reason = "none" => plan \subseteq entries /\ (probing => described)
  /\ phase = "ended" /\ reason # "raised" =>
       /\ reason # "transport_recovery_exhausted" => entries = done
       /\ \A i \in Operations :
            /\ records[i] # "none" => i \in selected
            /\ i \in selected => records[i] # "none" \/ InterruptedBetween
            /\ records[i] = "unattempted" => opAttempts[i] = 0
            /\ automatic /\ ~IsEvent(i) /\ opAttempts[i] > 0 => records[i - 1] = "value"

(* "allow replanning without rewriting scanned data": a register in the    *)
(* artifact is never read again, whatever plans follow, no entry is lost,  *)
(* and only registers of the current plan are read.  (For every step.)     *)
KeepsRegisters ==
  /\ entries \subseteq entries'
  /\ phase = "reading" /\ ~asking /\ asking' => task' \notin entries /\ task' \in plan
=============================================================================
