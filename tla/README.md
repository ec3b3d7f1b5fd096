# Verification of helianthus-vrc-explorer

TLA+ models of the VRC explorer (`src/src/helianthus_vrc_explorer`), the TLC configurations that
check them on small instances, and TLAPS proofs about them. Paths below are relative to that
package.

1. [The system](#1-the-system)
2. [Modules](#2-modules)
3. [Runs](#3-runs)
4. [Fairness](#4-fairness)
5. [Proofs](#5-proofs)
6. [What the models showed about the code](#6-what-the-models-showed-about-the-code)
7. [What is not modelled](#7-what-is-not-modelled)
8. [Plan](#8-plan)

## 1. The system

The explorer discovers, reads and, after a confirmation, writes the registers of Vaillant
regulators over eBUS (protocol B524, and B555, B516, B509 beside it). A caller (a scan, the browser,
the command line) asks a *transport* for one request at a time. The transport talks TCP, either to
an eBUS adapter (the enhanced protocol) or to an ebusd daemon, and hides retries, reconnects and
time limits behind one reply or one exception. A scan collects what it read in an *artifact*, a JSON
document that has to say of everything it selected what became of it.

```
 commands, cli ──┬── browser (Textual) ── BrowserSession worker ──┬── parameter / operation write
                 └── run_b524_scan ─┬─ discovery, register reads  │             │
                                    ├─ description acquisition    │             │
                                    └─ operation reads            │             │
                                          CountingTransport ──────┴─────────────┤
                                                 send_with_attempt_hook         │
                                     EnhancedTcpTransport │ EbusdTcpTransport ──┘
                                          eBUS adapter    │      ebusd
```

Two interactions matter throughout. Calls go down as *one logical request* each; the transport may
turn it into several native ones. Before each native one it calls back up through the *attempt
hooks* that were stacked on the way down: the scan's request budget, the fair share of the
descriptions, the "one write only" count. A hook refuses by raising, and its exception travels
through the retry loop.

### Inventory

| Part | State | Operations | Hard behaviour | What makes it correct |
| --- | --- | --- | --- | --- |
| Request contract: `transport/base.py` | a request, its native admissions, its budget | `send`, `send_with_attempt_hook`, `send_proto` | several implementations, one promise | writes not repeated; nothing after the budget; every request ends |
| Enhanced policy: `transport/enhanced_tcp.py` `_send_with_policy`, `transport/request_deadline.py` | six retry counters, deadline, connection, diagnosis | one request with retries and reconnects | counters renewed by reconnects; hooks that raise; deadline between any two steps | bounded admissions; true diagnosis; contract |
| Enhanced wire: the same file, `_send_proto_once` and below | bytes in flight, bus ownership, SYN guard, parser | arbitration, echo, ACK, response, INFO | stale frames, adapter resets inside a read, local repetition | the reply is this request's; the bus is given back |
| Enhanced sessions: the same file, `session`, `close`, `_locked` | lock, depth, thread-local deadline | nested contexts from several threads | a close against a request, waits that expire | depth counts contexts; nothing late |
| ebusd transport: `transport/ebusd_tcp.py` | retry counters, no-signal window, line buffer | one request; line reading; drain | silence taken for the end of a response; fixed backoffs | replies are own lines; quiet bus |
| Counting transport: `transport/instrumented.py` | send counter, request budget | hook before every attempt | a retry costs budget | budget never exceeded |
| Browser session: `scanner/browser_session.py` | FIFO queue, worker, closed flag | `submit`, `connect`, `close` | worker thread against event loop | one operation at a time |
| Browser: `ui/browse_textual.py` | session, busy flag, future, pending write, history | connect, edit, confirm, write, recheck, disconnect, quit | results that arrive after a dialog, a disconnect or the end of the app | no result lost; a write goes where it was prepared |
| Writes: `scanner/b524_parameter_writes.py`, `b524_operation_writes.py` | checks, attempt count, outcome | execute, recheck | the value changes under the confirmation; the frame is sent and its answer lost | one frame; honest report |
| Descriptions: `scanner/description_scheduler.py`, `description_acquisition.py` | schedule, outstanding promises, coverage | one probe per candidate | retries eat the share of others; six ways out | promised first attempts happen; coverage adds up |
| B524 scan: `scanner/b524_orchestration.py` | plan, queue, done, selection, records, budget | planner, reads, replanning, descriptions, operations | Ctrl-C, empty budget, lost adapter at any request; replanning | the artifact is true and complete |
| Discovery: the same file, `director.py`, `b524_plan.py`, `register.py`, `scan_policy.py` | system information, opcodes, instance flags, counts | probes of groups and slots, the plan made of them | reported counts that lie; silence against absence; a phase cut short | received bytes are kept; coverage is not overstated; plans rest on confirmed slots |
| Operation reads: `scanner/b524_operation_reads.py` | records | acquisition, one record per operation | aborted in the middle | one record per selected operation |
| Other scans: `scanner/scan.py`, `b555.py`, `b516.py`, `b509.py` | a work list, a dump per protocol | one selector after another; replies add selectors | reported slot counts beyond the program; overlapping ranges; year boundaries; every way out | each selector once, and all the replies call for |
| Codecs: `protocol/` | none | encode, decode | ranges, schedule overlays | round trips |
| Artifact, evidence: `artifact_schema.py`, `evidence_*.py` | files | migrate, export | every schema since the first, malformed shapes | nothing lost, moved or renamed |
| Trace replay: `replay_trace.py` | one pass over a trace: exchange, attempts, session | per line: start, response, retry, reconnect, failure | attempts, resets and restarts interleaved in one file | answers stay with their requests |
| Command line: `cli.py`, `commands/`, `ui/scan_setup.py`, `ui/transport_retry_textual.py` | settings, resolved destination, artifact | scan, discover, retry dialogue, report | a start that failed on one endpoint and is retried on another | the artifact names the regulator that was scanned; a scan is not started twice |
| Planner: `ui/planner.py`, `planner_textual.py`, `planner_selection.py` | chosen groups, instances, scopes, operations | presets, edits, prompts, save | edits in any order, two front ends | the plan is what was selected |
| Artifact browser: `ui/browse_hydration.py`, `browse_query.py`, `browse_store.py` | rows, tree, node, tab | hydrate, select, switch tab | partial artifacts of every schema | every entry shown, once and where it belongs |
| Register identities: `scanner/identity.py` | none | keys and labels of namespaces and registers | none | pure functions, not modelled |
| Other interfaces: `ui/html_report.py`, `summary.py`, `live.py`, `browse_detail.py` | layout | render | none | readable |
| Description profiles: `schema/parameter_descriptions.py` | baselines, profiles attached to artifacts | publish, merge, attach, look up | a description outlives the device it was read from | limits are the device's own |
| Other schemas: `schema/` | static tables | lookup | none | tables consistent |
| Dummy transport: `transport/dummy.py` | fixtures | lookup | none | none |

`PROJECT.json` lists the same parts with their status, and the hazards of the code, each at its line
with the properties aimed at it.

## 2. Modules

Two abstract specifications, one module per component, and composing modules. Definitions carry the
names of the source where TLA+ allows it; `PROJECT.json` "map" names the lines of each. An operator
whose comment starts with "Mutant of" is a plausible error of the code, never used by the
specification; it stands before the definition it would replace.

### What a request and a write promise

**`RequestContract`** (abstract): what callers of a transport rely on. A request begins, is admitted
natively, once or, if it is safe to repeat, several times; a reply needs an admission and comes
before the elapsed budget is spent; every request ends. Its `Reply \/ Fail` is weakly fair.

**`SingleWrite`** (abstract): what a confirmed write promises. At most one frame, no frame after the
report, and a report that nothing was sent is true.

### Transports

**`EnhancedPolicy`** is the loop of `_send_with_policy` with `_recover_session`. Every `except` clause
is an action guarded by the exception the attempt ended with; the attempt itself is opaque and may
end as `AttemptEnds` allows, leaving the connection open or closed as the wire module shows.
`elapsed` is the time since the root deadline was created; it may pass between any two steps and
stops at `Budget`, where every check raises. It implements `RequestContract`. Three history variables
no guard reads (what the last attempt raised, whether the last reconnect begun reached the adapter,
whether anything but SYN before ACK was met) let `TerminalDiagnosis` compare the reported failure with
what happened, and not with the counters it was computed from.

**`EnhancedWire`** is what `EnhancedPolicy` takes as opaque: one attempt after another, and INFO
queries, on a connection that outlives them. Symbols are reduced to roles. `owed` is the FIFO of
frames the adapter still has to deliver, each tagged with the operation and the telegram that caused
it, so an answer may arrive any number of operations late; SYN, foreign grants, garbage, resets, host
errors and silence may be read at every wait. An echo is compared with what was sent: that of another
telegram is a mismatch, that of an identical one is not, and neither is the reply behind it. `AttemptEndsOrderly` is the bridge: the table it checks is the one
`EnhancedPolicy` assumes.

**`EnhancedSession`** is the concurrency around both: threads that enter nested `session()` contexts,
send requests and call `close()`, the reentrant lock with its bounded wait, the thread-local
deadline, the connection that exists while `_session_depth` is positive.

**`EbusdPolicy`** is the other `_send_with_policy`, with the no-signal window, the one
reconnect after a connection failure and the fixed pauses (one unit of time is 5 s).
**`EbusdSession`** is how `_send_command_lines` cuts the line stream into responses: every way to cut
the pieces of a response into reads, the drain of trailing lines, what is kept for the next command.

### Writes and the descriptions behind them

**`ParameterWrite`** and **`OperationWrite`** are the two executors from the confirmation to the
outcome, with the checks in the order of the code, the transport that retries below the hook, a frame
that takes effect late or never, and other controllers that change the device at any moment. Both
implement `SingleWrite`: the phase is derived from the program counter, the claim from the kind of
outcome.

**`EditLimits`** is where the limits of a parameter write come from. A device of one identity is
scanned; descriptions are read, published in a baseline (`bundle`), merged with rows already there,
attached to the `artifact` of a later scan, native or bundled, and given to the editor (`pending`)
and to the writer under the identity checks of the browser, while a device is exchanged (`Swap`) at
any point. Each row remembers where its limits were read, which the code does not.

### Scan

**`Availability`** is pure: what `read_register` makes of an answer or an exception, and what
`probe_instance_availability` concludes from it under the contract of a namespace.

**`Discovery`** is the first phases of `run_b524_scan`: identifiers of the system information with
their repeated attempts (`info`, and what of it is `stored` in the artifact), the read opcodes of
groups without a profile (`responsive`), the instances of every namespace in the order of the code
(`todo`, slots in `window`, the verdicts `Availability` gives, instances marked present, instances
denied without a probe), the expected counts and capacities the device reported, the completeness
of the coverage, the scan plan of a preset and the automatic Event programs. Every request can meet
Ctrl-C, the end of the request budget, the end of the recovery, or "command not enabled".

**`B524Scan`** is `run_b524_scan` behind that: one budget for discovery, register reads, descriptions
and operation reads, the planner and its replanning, and a Ctrl-C, a lost adapter, an empty budget or
an escaping exception at every request. Discovery and the descriptions are reduced to the requests
they make (they have modules of their own), and Ctrl-C comes at requests or between operations, not
between two Python statements.

**`DescriptionSchedule`** has the pure part of the fair schedule: rounds over the namespaces, the two
reservations, and what each family consumes. **`DescriptionAcquisition`** is `acquire_descriptions`
with both attempt hooks and every way out (complete, budget, recovery exhausted, Ctrl-C, nothing
enabled). A candidate is its position; the qualification of an answer and the text are abstracted,
since only the number of attempts and the kind of the end matter to what is checked. Duplicates of a
selector are left out, and so is the branch of `_retain_matched_or_store` for an entry that is
matched already: `run_b524_scan` clears the entries before it acquires.

**`Planner`** is both front ends of the scan planner, the Textual screen and the dialogue of prompts,
over one selection: which groups, which instances, which registers, exact operation reads, and the
source of descriptions per class. `kind` is what discovery said of a group, and only `byHand` knows
whether the user chose the instances. The planner starts from the plan the scan hands it: that of the
preset (`OfPreset`; research plans families without a qualified scope too, up to its own ceiling), of
every group discovery resolved (`OfDiscovery`), or the explicit plan of a file (`OfFile`), whose
instances may lie outside a group's range (`given`). `Replan` is the hotkey during the scan: the planner
is opened again over the plan it returned.

**`ReplayTrace`** has the writer and the reader of a trace in one behaviour: the transport's steps
write lines (requests, attempts, answers, NACKs, resets, reconnects, failure markers; a process that
is killed and started again, in the same file), and every line updates what the reader has made of
them (`trace`), until the exchanges become registers and descriptions. A line carries the request it
was written for, which the reader does not see: it is how the properties know the truth. The session and
the trace handle are two things (`open`, `traced`): `close()` drops both, after a blocked send in the
middle of a request too, while opening a session and the markers of a recovery or a failure open the
trace again; a line due in between is not written.

### Programs around a scan

**`ScanCommand`** is `scan` and `discover` in `cli.py`: setup dialog or options, the checks before any
connection, the destination found through ebusd (`targets`, `left`, `found`, `identity`), the retry
dialog after a failed start, the scan as one step that returns an artifact or fails, and the files
and screens made of the result.

**`ProtocolDumps`** is `scan_vrc` behind the B524 scan: B555, B516 and B509 each have a `work` list of
selectors, replies that add selectors to it or cut it short, entries, and every way out.

**`BrowseStore`** is an artifact as the browser shows it: a file of any layout since schema 1 (flat,
split by namespace, malformed), migrated, projected on its final plan, turned into rows and a tree,
and selected from by node and tab.

**`BrowserLive`** is the event loop of the live browser, a worker per connection and the futures
between them, up to the teardown after the app has ended. A handler is one step, except that
submitting an operation and tracking its future are two, because the worker can be done in between.
Dialogs are kept as far as they decide which handler may run.

### Composition

**`Transports`** (ebusd lines, ebusd policy, threads), **`ScanParts`** (descriptions, scan, planner,
trace, rows), **`Interfaces`** (command, dumps, live browser, parameter write, timer write) and
**`DeviceParts`** (discovery, limits) put the parts of one subsystem into one run. The parts meet
through results that one side checks and the other takes as given (an exception of an attempt, an
artifact, an effective description), not through shared variables. So a behaviour shows one part, the one `part`
names; the variables of the others stay at 0 or at rest, and each property is the part's own,
claimed while that part is shown.

Theorems and the invariants they need beyond the checked ones are in modules of their own:
**`EnhancedPolicyProofs`** and **`EnhancedWireProofs`** about one component each,
**`BrowserLiveProofs`** with the lemmas about the live browser, **`ReplayProofs`** about the replay of
a trace, and **`TransportsProofs`**, **`InterfacesProofs`**, **`ScanPartsProofs`** and
**`DevicePartsProofs`** about the composed modules the runs check.

Modules instantiate TLC through their own constants, so a run needs no separate MC module.

## 3. Runs

`tlc -config X.cfg M` inside this directory; the longest, `scan` and `discovery`, take two to four minutes
with two workers. Deadlock is checked where the system must be able to go on for ever (`enhanced_policy`);
elsewhere a component really stops: the write is reported, the scan has ended, the command has
returned, the bounded number of operations is used up.

| Run | States | Bounds | What it shows |
| --- | --- | --- | --- |
| `enhanced_policy` | 509,485 | each retry limit 1, 2 reconnects, budget of 1 unit | admissions bounded; nothing but recognized reads repeated; the diagnosis matches the history; implements `RequestContract` |
| `enhanced_wire` | 881,498 | 5 telegrams that differ in safety, in what they expect and in their number of pieces (1 or 2); 1 local NACK repetition; 5 operations | telegrams are admitted; a reply answers the telegram it is returned for; attempts end as the policy assumes |
| `transports` | 152,766 | lines: 4 commands; policy: limits 1, window of 3 units, pauses of 1 and 3 units, budget 10; 3 threads, 2 nested contexts | lines are the command's own, a drain never fails a reply it has; counts finite and true, pauses respected, contract implemented; one thread inside, contexts keep their connection, budgeted calls end |
| `enhanced_wire_info` | violation | as the wire above, 3 operations | an INFO reply that arrives late answers another INFO query (section 6) |
| `ebusd_session_late` | violation | as the lines above, 3 commands, with pauses longer than the drain window | the next command reads the late lines (section 6) |
| `discovery` | 4,893,704 | system group, circuits, one unknown group; 2 identifiers; counts to 2; slots to 2 (remote), 1 (local); limits: 2 controllers, 2 remote devices, 2 scans, 1 exchanged device | received bytes are kept; coverage is not overstated; plans rest on confirmed slots; limits used are of the device they are used for, and a value outside them is never written |
| `discovery_pending` | violation | the same | the pending selector is written as absent (section 6) |
| `scan` | 3,965,718 | scan: 2 registers, 1 event program, budget to 3, 2 attempts, 2 replans; planner: 1 group, every plan handed in, 1 edit or prompt round, opened again; trace: 2 requests of 2 attempts, 1 reconnect; descriptions: 2 namespaces of up to 2 candidates per family, budgets to 4 or none; artifacts of 2 registers | no promised first attempt withheld, coverage equals what was sent, namespaces in turn; the artifact is true on every way out, replanning neither loses nor repeats a register; the plan is what was selected or handed in; a replay gives what was received; rows are complete and findable |
| `replay_failed` | violation | as the trace above | the next START is counted to a failed request (section 6) |
| `interfaces` | 268,818 | 2 addresses, 2 hosts, 2 retries; 2 programs of 1 day, 2 slots, 2 counters, B509 registers to 3; 2 connections, 6 operations; parameter: 3 values, 2 foreign changes, 2 rechecks; 3 timers, 2 foreign changes | the result names the regulator that was scanned, a scan is not started twice; dumps ask what replies call for, once; one verified operation at a time, history true, writes stay where prepared, nothing hangs; a write is one frame with an honest report and an end, a parameter only over the confirmed baseline, a timer decided by its readback; both implement `SingleWrite` |
| `dumps_exhausted` | violation | minimal dumps | exhaustion becomes an error entry (section 6) |
| `migration_repairs` | violation | 1 register | a malformed file is refused (section 6) |

Why the bounds are enough to be interesting:

* *Retry limits of 1.* Each counter passes through "renewed", "used" and "exhausted"; two reconnects
  let one renewal follow another. A budget of one unit separates "before" from "after" at
  every step, all the code asks of the clock. The proofs lift the limits.
* *Five operations on the wire, four on a line stream.* One leaves something behind, one meets it, one
  comes after whatever that did to the connection; five also let an answer pass over an operation in
  the middle, with four a late reply first meets a telegram identical to its own. The telegrams differ
  in safety, in what they expect and in length. Two pieces distinguish the first
  echo from a later one; one NACK repetition the first transmission from a local one.
* *Three threads.* One holds the lock, one waits and expires, one releases or closes.
* *ebusd units.* The two pauses keep their ratio 1 : 3 and the window is as long as the longer pause,
  as in the default configuration. The default budget of 30 s would be six units and cut some
  sequences of retries short; ten admit every one of them, and the deadline can still cut any pause.
* *Two connections, two endpoints.* One that is dropped or fails, one that replaces it.
* *Three values.* The baseline, the desired one, and somebody else's.
* *Requests of budget.* Fewer than, as many as, and more than there are promises, with a retry to eat
  one of them.
* *Slots to 2 and counts to 2.* Namespaces smaller than, as large as, and larger than the count the
  device reports, with a hole among the confirmed slots; one group for each kind of treatment (system,
  counted, without a profile), and local beside remote.
* *Two controllers, two devices, one exchange.* A description of the other controller, of the other
  device behind the same controller, and of the device that was there before.
* *Artifacts of two registers.* Two entries that may collapse into one place, or be in different
  groups, opcodes or tabs; every layout and every final plan over them.
* *Two traced requests.* The last exchange and the one before it are all the reader looks at; two
  transports may write one after the other with the same numbers.

`PROJECT.json` "mutants" has, for every property of a passing run, a plausible error of the code that
makes TLC find it violated.

## 4. Fairness

* `EnhancedPolicy`, `EbusdPolicy`: weak fairness of `Step`, because the loop runs in the thread of its
  caller, and socket calls have timeouts. Time is never forced to pass: the requests must end by their
  counters alone.
* `EnhancedSession`: a lock that is not fair may pass over a thread for ever, so none is assumed for
  obtaining it. The deadline passes, a wait with a limit ends by its timeout, and whoever holds the
  lock goes on.
* `BrowserLive`: weak fairness of the event loop's own steps, of every worker (a transport call ends
  by its deadline, as the policies show) and of the teardown. None of what a user may do.
* `ParameterWrite` (in `Interfaces`, its `Writing`): weak fairness of the execution; the transport
  calls in it end.
* Everything else: none, only safety is claimed.

The composing runs state the same fairness, part by part.

## 5. Proofs

The theorems hold for all values of the constants that satisfy the named assumptions, each an ASSUME
that TLC evaluates on the runs: `PolicyAssumption`, `WireConstants`, `OperationAssumption`,
`AcquisitionAssumption`, `DiscoveryAssumption`, and for the composed modules `TransportConstants`,
`InterfaceConstants`, `ScanConstants` and `DeviceConstants`, which are those of their parts. They say that limits are
natural numbers, that pauses, budgets and the sizes of instance ranges are positive, that sets of names are
not empty or finite where a loop goes over them, and that markers (`Unlimited`, `NoThread`, `Unknown`)
are nothing else. Nothing else is assumed, but for `LinesOwn`, which has the condition
`LatePauses = FALSE` its run has: without it the property is false (section 6).

An invariant of one part of a composed module is proved from that part's own actions, then carried
to the composition: while another part is shown, nothing of it changes (`OnePart` and its like).

### Transports

**`EnhancedPolicyProofs`.** `TypeCorrect`, `NoWriteRepeated`, `AdmissionsBounded`, and `RequestsSound`
for the property the run checks, which is all three. `TypeOK` is not
inductive: a counter stays within its limit because the places after an increment are left only when
the limit was not reached, and at most `ReconnectMax` reconnects are begun because the recovery
loop is entered with the count it left. `BaseInv` adds `CountersInv` (which counter may stand one past
its limit, and where) and `RecoveryInv` (what is known inside `_recover_session`). For writes,
`UnsafeInv` says that a request outside the recognized reads is admitted at most once and never inside
the recovery. For the bound, admissions are compared to what the counters have paid for:
`AttemptsSpent` counts the attempts of all connections so far, a step that admits raises both sides,
and a reconnect exchanges one connection's allowance for the next. The bound is a product, because a
reconnect renews the allowances. `DiagnosesTrue`: `DiagnosisInv` relates what the policy keeps to the
history. Inside a recovery, `failure` is what the last attempt raised and `reconnect_failed` says
whether the adapter was reached last; outside of one the last reconnect, if any, succeeded. So a
recovery that finds its reconnects used up without a failed one of its own follows a successful one,
and only then is a malformed ACK called the target's answer. `ContractKept` shows step by step that
every behaviour is one of the contract's, liveness apart; `AdmittedInv` is what a reply needs.

**`EnhancedWireProofs`.** `NoReplyOfAnother` is about whatever is still travelling. `QueueInv` says of
the queue, of any length: frames stand in the order of their operations; behind every older frame
stands the grant of the current operation, as long as it waits (`GrantBehind`); and once the client waits for ACK or
reply, a reply that can be read before any grant answers this telegram (`RepliesTo`), because the last echo was
compared with it. `AcceptedInv` carries that to what is returned. `AttemptsEndOrderly` and
`EveryTelegramAdmitted` follow from `WireInv`, which says what an attempt has done by each wait.

**`TransportsProofs`.** `CountsTrue`: the counts a failure reports are finite and true. The accounting
meets a loop bounded partly by time: an attempt is paid for by a timeout retry, a collision retry, the
reconnect, or a poll of a no-signal window. `WindowInv` ties the polls of a window to the clock: each
took a pause of `Lost`, unless the deadline cut it, and then nothing more is admitted. `PollsFit` is the
arithmetic (how many pauses begin within a window), and a collision, which renews the window, pays for
it. `ReconnectInv` says a reconnect is announced exactly when the last failure was of the connection,
and a retry after a connection failure never uses the connection that failed; `WritesOnce`, that a
request outside the recognized reads has one attempt; `BusIsQuiet` (by `QuietInv`), that no attempt
begins inside a pause; `ContractKept`, the safety half of the contract.

`LinesOwn` and `DrainHarmless`, for any number of commands and any cut of a response into reads: while
a command runs, what is buffered, on its way and due, put together, is a suffix of a response of its own, and
between commands nothing is left (`LeftInv`). `LinesInv` needs what a cut keeps (`LineBefore`).

`OneThreadInside` and `ContextsKeep`, for any number of threads and any nesting: a thread inside
holds the lock, so no two requests or connects overlap, which is inductive once one knows that only a
thread in a context leaves one. `DepthInv` counts: the depth is the number of contexts in use or being opened, as the
size of a set, which one step changes by one element.

### Programs around a scan

**`InterfacesProofs`.** *Writes.* For the timer write (`TimerFrames`, `TimerReadback`, `TimerPromise`) and the
parameter write (`ParameterFramesHold`, `BaselineProtected`, `ParameterPromiseHolds`), with any number of
retries below the hook, of changes by others and of rechecks: the hook's count bounds
the frames, an outcome that claims nothing was sent is made before the count moves, and until the
frame is sent the device has the baseline or somebody else changed it. Each implements `SingleWrite`.
`FrameInvariant`, `KeepsThePromise` and `ReadbackIsDecisive` say the same of `OperationWrite` alone.

*Live browser* (lemmas in **`BrowserLiveProofs`**). `BrowserHasOneOperation`, `BrowserHistoryTrue`,
`BrowserWritesWherePrepared`, for any number of connections and operations. None of them is inductive, and
`BrowserInv` is a conjunction of what each says of the others: only the operation submitted last may be unfinished
(`LastOnly`); a queue has that operation on its connection, and a close behind it if
the browser let go (`Queues`); a worker calls back for the tracked operation (`Calls`);
the connection at hand is verified or being verified (`Verifies`); and a result is recorded or about to be
(`Results`), through the teardown.

*Command.* `CommandResultTrue` and `CommandStartsOneScan`: `CommandInv` says in which phase of the retry loop
the destination is one reached by the endpoint in use, and that what was saved and shown names it.

*Dumps.* `DumpsAreTrue`, for any number of programs, days, slots, counters and registers and for all replies:
`ReadingInv` says that the selectors read and those still in the list are, together and without repetition, what
the replies so far call for. A reply adds to both sides: a configuration the slots of its program, a slots reply
the timers that exist and are reported, the last total the years of the year it gives. `OrderInv` says which dumps are in the
artifact. Lemmas about lists (`FlattenGives`, `GoesFurther`) and about merging ranges (`MergedGives`,
`RegistersGive`; the model gives B509 two of them, anywhere) carry it.

### Scan

**`ScanPartsProofs`.** *Descriptions.* `FairInvariant` and `PromisesKept`: with a capped budget, what is left of it is
`limit - sends`, the promises outstanding fit into that, and they cover every reserved candidate
still to come (`Ahead`). So the hook never withholds a reserved first attempt, and an acquisition that
ends for want of budget has asked all of them. `ConsumedFits`: what the families consume
never exceeds the budget. `WithinBudget`: nor do the requests sent. `ReportsAreTrue` adds that what the coverage reports
is what was sent: `ReportInv` has the sum of the stored descriptions and the probe under way equal to the requests sent
(`SendsReported`), and exact values for the promises (`PromisesExact`), from which an end for want of budget
is one. `NamespacesServedInTurn`: each family's order is what the rounds make of the sizes of some
namespaces (`OrderMade`), for any number of namespaces and candidates; `RoundsMake` says of such an order that
before any place the namespaces not used up differ by one candidate at most.

*Scan.* `ArtifactIsTrue` and `ReplanningKeeps`, for any number of registers and programs, any budget, any number of
replans: the registers of the plan are behind, under way or in the queue (`QueueInv`), and an operation before
the current one has its record, one behind it is untouched (`RecordInv`), on every way out.

*Planner.* `PlanIsSound`, for any groups, any plan handed in, any number of exact reads, edits and replans. Instances
leave a group's range only where an explicit plan named them: `KindSound` says so of what is handed in (`HandedIn`),
every edit stays in the range, and the hotkey adds the virtual circuit alone (`HotkeyKeeps`). The list of reads has one mark per read,
no read twice, and an automatic program in or out whole (`ReadsSound`). Every edit splices or filters both lists;
`InsertGives`, `WithoutGives` and `ReplaceKeeps` say what that does to positions. The rest of `PlanInv` is what each
prompt may rely on.

*Browser.* `RowsAreTrue`, for any number of entries, every layout and every malformed shape: `RowsInv`
says that the file is one of those a user may have and that an open store has exactly the rows and nodes
made of it. The rest is about that function of the file: a planned register that answered has a row
(`AnsweredHasRow`), and every row to be found has a home (`RegisterHome`, `SystemHome`, `ProtocolHome`,
`OtherHome`): the one node, a leaf, under which it appears.

**`ReplayProofs`.** `ReplayIsTrue`, for any number of requests, attempts and reconnections: unless the
lines cannot tell them apart, each exchange is of one request and every request that can be told has
one; an answer is in the exchange of the request that received it, whatever was reset or restarted
between; its attempts are counted, perhaps without those before its first telegram went out and those
begun while the trace was closed; and the artifact keeps the best answer the register had. Two folds stand in the way, over the markers of a line and over the
exchanges: `FoldGoesThrough` shows that the library's fold takes the elements one by one, so `ReadLines`
gives what each kind of line does to a trace (`StartRead`, `RetryRead`, `AnswerRead` and their like),
and `StoredIsBest` what is stored. `ReplayInv` has a part for each thing the next line depends on.
`SourceInv` holds come what may: the exchange the next answer goes to is of its request. The other parts
hold unless a restart of the numbers left no line the reader could know it by (`confused`).
`NumbersInv`: numbers grow, and one that is repeated is of the same request. `RequestInv` says that the
active exchange is the request under way, `CountInv` that its count lies between all its attempts and those
from its first telegram on, those begun unseen apart, `EachInv` that no request has two exchanges. Most actions are quiet (`Quiet`,
`QuietKeeps`): they amend the last request and its exchange, and every part survives that; a request, a
granted attempt and an answer are taken singly (`RequestKeeps`, `GrantedKeeps`, `AnsweredKeeps`).

### Discovery and limits

**`DevicePartsProofs`.** `InformationIsKept`, for any identifiers: what is read so far is in the list, and the list in the artifact
unless Ctrl-C lost it (the case section 6 names). `PlanIsConfirmed` and `CoverageIsHonest`, for any groups, counts, capacities and
sizes: `InstancesInv` says that a namespace that waits has no mark, marks are slots of it, and a device group that
is being probed is probed in order, so that when it ends with slots unprobed, either the count is reached or an absence
follows confirmed slots (`Covered`). `LimitsHold`, for any controllers, devices, scans and exchanges: `EditInv` says
of every row where its limits were read (`BundleInv`: a legacy row names no device until the catalogue does, and then is the only
one of its identity), of an artifact that its description is of the device scanned, and of a pending edit
that its verdict is that of its description.

### How far the proofs reach

Induction over data is done by least counterexample. The library's induction theorems take an operator
as parameter, which the provers here cannot instantiate, but a set of natural numbers with a member has a least one
(`WFMin` of the well-foundedness of `<`). So sums over a set (`SumApart`), the list of a
namespace's candidates (`Rising`, `TurnOrders`) and the rounds (`RoundsMake`) are proved about sets of
positions or of numbers, and so is the flattening of a list of lists (`JoinedEquation`, `AllNaturals`). Three operators
are written for it, where the code sorts: `Turn` chooses the rising enumeration of a set, `Ascending` the order of
slots, `Sorted` that of register ranges.

Only model-checked:

* Liveness (`NothingHangs`, `BudgetedEnds`, `ParameterEnds`, and that every request of `RequestContract`
  ends): the provers handle neither fairness nor ENABLED.

Every invariant and every action property the passing runs check is stated by a theorem.

## 6. What the models showed about the code

Each is a run with an expected violation, whose counterexample is the behaviour described.

* **A late INFO reply answers another query** (`enhanced_wire_info`, `InfoIsOurs`).
  `request_info` keeps the session open when its reply times out (`enhanced_tcp.py:1203`, and on host
  and eBUS errors at 1184 and 1186). The next query drains what has arrived, but INFO frames carry no
  identifier, so a reply that comes just after the drain is taken for the new one. The deadline path
  of the same function closes for exactly that reason (`enhanced_tcp.py:1101`).
* **A pause of 10 ms ends a response** (`ebusd_session_late`, `OwnLines`). The drain takes one silent
  window for the end of the response and keeps the connection; lines ebusd sends later become the
  reply of the next command, while the comment at `ebusd_tcp.py:742` says bytes of an earlier command
  never reach this one. Without such a pause the property holds (`transports`).
* **The pending selector is written as absent** (`discovery_pending`, `PendingStaysUnknown`). When the
  recovery is exhausted during an instance probe, `b524_orchestration.py:1919` stores the instance
  with `present: false`; `README.md:82` says it stays unknown.
* **Exhaustion in a dump is an ordinary error** (`dumps_exhausted`, `ExhaustionStops`). B555, B516 and
  B509 catch `TransportRecoveryExhausted` with the other transport errors (`b555.py:252`): the selector
  becomes an error entry, the next one is asked, and the artifact counts as complete, against
  `README.md:82`.
* **A failed request gains an attempt in the replay** (`replay_failed`, `FailureAuthoritative`). The
  START of the next request is added to the attempts of the exchange before it (`replay_trace.py:216`),
  also when a failure marker has closed its counts, which the comment at 328 calls authoritative.
* **A shape the migration should repair is refused** (`migration_repairs`, `MigrationRepairs`). A group
  marked dual with empty namespaces and populated flat instances, which the comment at
  `artifact_schema.py:432` says is repaired, loses its registers, and the check behind it
  refuses the file.

Facts the code and the models share and no document forbids, for whoever changes this code:

* A Ctrl-C between two operation reads leaves the remaining selected operations without a record
  (`b524_operation_reads.py:307`); `ArtifactTrue` names that case.
* A frame the transport gave up on may take effect after the readback, so the outcome says what was
  read and the device may differ later (`b524_parameter_writes.py:764`).
* A Ctrl-C inside `discover_groups` loses the system information read so far
  (`b524_orchestration.py:466`).
* A "command not enabled" answer to a dump loses the B524 artifact already made (`scan.py:461`).
* B555 rows are shown on the config tab of no node, and both nodes of an operation show its whole
  section (`browse_textual.py:1168`, 1035).
* A reply the wire returns may be that of an earlier request with the same telegram, given up on a
  connection that was kept: echo, ACK and reply match byte for byte (`_send_proto_once`).
  `ReplyIsOurs` therefore speaks of the telegram, not of the operation.
* A blocked send or an INIT without an answer closes the trace with the connection
  (`enhanced_tcp.py:767`, 669), so the RETRY line (1478) and the START of the next attempt (894) are
  not written before a recovery opens it again: a replay counts such a request fewer attempts than it
  had, and one that opens its session anew in the middle, with no marker between, may become two
  exchanges. `Separate` names both cases (`early`, `unmarked`).
* Instances an explicit plan names outside the range the planner offers come back unchanged, whatever
  else is edited (`planner.py:203`, `planner_textual.py:381`); a preset's plan is cut to the range.
* Leaving a context and `close()` wait for the transport's lock without a limit
  (`enhanced_tcp.py:701`); only budgeted calls are sure to end.

## 7. What is not modelled

* *Codecs* (`protocol/`) beyond what an answer says of a register and a description of a value, and the
  *operation edit plans*: functions of bytes, with unit tests of their own. `OperationWrite` begins at
  a plan that passed or failed its qualification.
* *Byte-level ENH framing, escaping and CRC, the hex codec of ebusd*: reduced to valid or not.
* *Evidence export, input size limits*: straight-line code without state.
* *HTML report, summary, live progress, detail text, the watch list*: layout.
* *Commands other than scan, discover, browse and replay*: one request and one line of output each.
* *Static tables* (`schema/b524_constraints.py`, `ebusd_csv.py`, `myvaillant_map.py`) and the *dummy
  transport*: data.
* *Several processes* on one adapter or one baseline file: the models have the effect of other
  controllers on a device, not two explorers writing one file.

## 8. Plan

The order follows what a failure costs: writes on the bus first, then the transport everything rests
on, then the truth of the artifact, then conclusions drawn from answers.

1. Done: the modules of section 2 and the theorems of section 5.
2. Models that would add most: the operation edit plans as the source of `OperationWrite`'s plan; the
   schedule overlays and slots of B555 and the ENH parser on split input as bounded checks against
   reference definitions; `Discovery` and `B524Scan` joined on one budget.
3. Proofs: all that is left is liveness, which needs a prover for fairness and ENABLED; the safety half of every
   promise is proved.
