------------------------------- MODULE Discovery -------------------------------
(***************************************************************************)
(* The discovery phases of run_b524_scan: the bounded system information   *)
(* (discover_groups), the read opcodes of groups without a profile, the    *)
(* instances of every namespace under counts and capacities, and the scan  *)
(* plan and the automatic Event programs that follow.  A namespace is a    *)
(* pair <<read opcode, group>>; Availability judges one answer.  Any       *)
(* request may meet the end of the budget, of the recovery or Ctrl-C.      *)
(***************************************************************************)
EXTENDS Availability, FiniteSets, FiniteSetsExt

CONSTANTS
  KnownGroups,       \* the groups of GROUP_CONFIG the instance has
  UnknownGroups,     \* the other groups below 0x100 (research only)
  SystemIds,         \* bound: identifiers read, of 0x00..0x11
  MaxCount,          \* bound: the largest count or capacity a device reports
  CircuitMax,        \* bound: II of the virtual DHW circuit (0x09)
  RemoteMax,         \* bound: last II of a remote namespace (0x08)
  LocalMax           \* bound: last II of a local namespace (0x0A)

ASSUME DiscoveryAssumption ==
  /\ KnownGroups \subseteq 0..17 /\ UnknownGroups \subseteq 18..255
  /\ SystemIds \subseteq 0..17 /\ SystemIds # {}
  /\ MaxCount \in Nat /\ CircuitMax \in Nat \ {0} /\ RemoteMax \in Nat \ {0} /\ LocalMax \in Nat \ {0}

NaN == -1                            \* no usable count
InformationAttempts == 3             \* _directory_probe_retry_budget

VARIABLES
  preset, profile,   \* planner_preset; presence_profile ("basv2", "basv0", "other")
  phase,             \* "information", "opcodes", "instances", "planned", "stopped"
  id, attempt, seen, \* discover_groups: identifier, attempt, last_response seen
  info, stored,      \* discovered; what the artifact has of it
  responsive,        \* per unknown group: the read opcodes that answered
  todo,              \* namespaces whose instances are still to be discovered
  entered, window,   \* the first of them was begun; its slots still to probe
  step, held,        \* reads made of the slot under way; what the first one said
  verdicts, marks,   \* of the first one's slots; per namespace: instances present: true
  denied,            \* <<op, group, ii>> written as present: false with no probe
  complete,          \* per namespace: device_discovery complete
  incomplete,        \* scan_coverage.qualification_incomplete
  plan, events,      \* scan plan; <<group, instance>> the automatic Events are of
  reason,
  replied            \* history: identifiers something was received for

asking == <<id, attempt, seen>>
slots == <<todo, entered, window, step, held>>
findings == <<verdicts, marks, denied, complete, incomplete>>
vars == <<preset, profile, phase, asking, info, stored, responsive, slots, findings, plan,
          events, reason, replied>>

Namespaces == {2, 6} \X (KnownGroups \union UnknownGroups)
Slots == 0..Max({CircuitMax, RemoteMax, LocalMax, 1}) \union {255}
Op(ns) == ns[1]
Group(ns) == ns[2]
Circuits == <<2, 2>>
NativeDHW == <<2, 1>>
Recommended == preset = "recommended"

-----------------------------------------------------------------------------
(* GROUP_CONFIG, COUNT_GROUP_IDS and scan_policy.py.                       *)
ProfileGroups(op) == IF op = 2 THEN {0, 1, 2, 3, 4, 5, 8, 9} ELSE {1, 2, 3} \union (5..12) \union {14, 15}
ProfileOpcodes(gg) ==
  IF preset \in {"recommended", "full"} THEN {op \in {2, 6} : gg \in ProfileGroups(op)}
  ELSE IF preset = "research" /\ gg = 0 THEN {2} ELSE {2, 6}

CountId(ns) ==
  CASE ns = <<2, 2>> -> 0 [] ns = <<2, 3>> -> 1 [] ns = <<2, 4>> -> 2 [] ns = <<2, 5>> -> 3
    [] ns = <<2, 8>> -> 11 [] ns = <<2, 9>> -> 16 [] ns = <<6, 1>> -> 12 [] ns = <<6, 2>> -> 13
    [] ns = <<6, 6>> -> 15 [] ns = <<6, 7>> -> 14 [] ns = <<6, 9>> -> 10 [] ns = <<6, 11>> -> 8
    [] ns = <<6, 12>> -> 9 [] OTHER -> NaN
CapacityIds == {0, 1}

(* _ii_max_for_opcode, _ii_min_for_opcode.                                 *)
IiMax(ns) ==
  IF Op(ns) = 6 THEN RemoteMax
  ELSE CASE Group(ns) \in {0, 1} -> 0 [] ns = Circuits -> CircuitMax
         [] Group(ns) \in {4, 5} -> 1 [] OTHER -> LocalMax
IiMin(ns) ==
  IF profile = "basv2" /\ ns = Circuits THEN 0
  ELSE IF Op(ns) = 6 \/ ns = Circuits THEN 1 ELSE 0
Instanced(ns) == IiMax(ns) > 0

(* availability_group_opcodes: what discovery looks at.                    *)
Discovered(gg) ==
  IF preset = "explicit" THEN {}
  ELSE IF gg \in UnknownGroups THEN responsive[gg]
  ELSE ProfileOpcodes(gg) \union (IF gg = 13 THEN {6} ELSE {})
Configured == IF preset = "research" THEN KnownGroups \union UnknownGroups ELSE KnownGroups

(* _instance_discovery_targets: local namespaces first, then remote.       *)
Targets == {ns \in Namespaces : Group(ns) \in Configured /\ Op(ns) \in Discovered(Group(ns))}
First == CHOOSE ns \in todo : \A other \in todo \ {ns} :
           Op(ns) < Op(other) \/ (Op(ns) = Op(other) /\ Group(ns) < Group(other))

Value(i) == IF i \in SystemIds THEN info[i].value ELSE NaN
(* expected_instance_count and supported_capacity with _count_capacity.    *)
CountCapacity(ns) ==
  IF ns = <<2, 9>> THEN 1
  ELSE IF ns = Circuits THEN (IF profile = "basv2" THEN IiMax(ns) ELSE IiMax(ns) - 1)
  ELSE IiMax(ns) + (IF Op(ns) = 6 THEN 0 ELSE 1)
Expected(ns) ==
  IF CountId(ns) = NaN \/ CountId(ns) \in CapacityIds \/ Value(CountId(ns)) > CountCapacity(ns)
  THEN NaN ELSE Value(CountId(ns))
Capacity(ns) == IF CountId(ns) \in CapacityIds THEN Value(CountId(ns)) ELSE NaN
-----------------------------------------------------------------------------
Unprobed == [ii \in Slots |-> "none"]
Unlisted == [listed |-> FALSE, value |-> NaN, raw |-> FALSE, failed |-> FALSE]
Init ==
  /\ preset \in {"recommended", "full", "research", "custom", "explicit"}
  /\ profile \in {"basv2", "other"}
  /\ phase = "information" /\ id = Min(SystemIds) /\ attempt = 1 /\ seen = FALSE
  /\ info = [i \in SystemIds |-> Unlisted] /\ stored = info
  /\ responsive = [gg \in UnknownGroups |-> {}]
  /\ todo = {} /\ entered = FALSE /\ window = {} /\ step = 0 /\ held = "none"
  /\ verdicts = Unprobed
  /\ marks = [ns \in Namespaces |-> {}] /\ denied = {}
  /\ complete = [ns \in Namespaces |-> "none"] /\ incomplete = FALSE
  /\ plan = {} /\ events = {} /\ reason = "none" /\ replied = {}

(* discover_groups: each identifier is asked up to three times; what was   *)
(* answered before the attempts ran out stays as raw evidence.             *)
NextIdentifier(entry) ==
  /\ info' = [info EXCEPT ![id] = entry]
  /\ attempt' = 1 /\ seen' = FALSE
  /\ IF id = Max(SystemIds)
     THEN /\ phase' = "opcodes" /\ UNCHANGED id
          /\ stored' = info'
          /\ incomplete' = (\E i \in SystemIds : info'[i].failed)
     ELSE id' = Min({i \in SystemIds : i > id}) /\ UNCHANGED <<phase, stored, incomplete>>
Given(value, failed) == [listed |-> TRUE, value |-> value, raw |-> TRUE, failed |-> failed]

(* Mutant of AsksAgain: the last attempt drops what earlier ones received. *)
AsksAgainForgetting(answered) ==
  IF attempt < InformationAttempts
  THEN attempt' = attempt + 1 /\ seen' = answered
       /\ UNCHANGED <<phase, id, info, stored, incomplete>>
  ELSE NextIdentifier(IF answered THEN Given(NaN, FALSE) ELSE Unlisted)
AsksAgain(answered) ==
  IF attempt < InformationAttempts
  THEN attempt' = attempt + 1 /\ seen' = (seen \/ answered)
       /\ UNCHANGED <<phase, id, info, stored, incomplete>>
  ELSE NextIdentifier(IF seen \/ answered THEN Given(NaN, FALSE) ELSE Unlisted)

InformationAnswered ==      \* four bytes, or too few: a status byte, a short reply
  /\ phase = "information"
  /\ \/ \E v \in NaN..MaxCount : NextIdentifier(Given(v, FALSE))
     \/ AsksAgain(TRUE)
  /\ replied' = replied \union {id}
  /\ UNCHANGED <<preset, profile, responsive, slots, verdicts, marks, denied, complete, plan,
                 events, reason>>
InformationFailed ==        \* a timeout or another transport error
  /\ phase = "information" /\ AsksAgain(FALSE) /\ UNCHANGED replied
  /\ UNCHANGED <<preset, profile, responsive, slots, verdicts, marks, denied, complete, plan,
                 events, reason>>
InformationRejected ==      \* TransportProtocolFailure is not retried
  /\ phase = "information" /\ NextIdentifier([Given(NaN, TRUE) EXCEPT !.raw = seen])
  /\ UNCHANGED replied
  /\ UNCHANGED <<preset, profile, responsive, slots, verdicts, marks, denied, complete, plan,
                 events, reason>>
-----------------------------------------------------------------------------
(* _probe_unknown_group_opcodes (research): every selector of an opcode is *)
(* read, whatever the others answered; what is silent is not absent.       *)
OpcodesProbed ==
  /\ phase = "opcodes"
  /\ UNCHANGED <<preset, profile, asking, info, stored, entered, window, step, held, findings, plan,
                 events, reason, replied>>
  /\ responsive' \in IF preset = "research" THEN [UnknownGroups -> SUBSET {2, 6}] ELSE {responsive}
  /\ phase' = "instances" /\ todo' = Targets'

(* _probe_present_instances: the slots to try, in order.                   *)
Ordinary(ns) ==
  IF Recommended /\ (Expected(ns) = 0 \/ (Capacity(ns) = 0 /\ ns # Circuits)) THEN {}
  ELSE IiMin(ns)..(IF Recommended /\ (ns = <<2, 9>> \/ Capacity(ns) = 0) THEN 0 ELSE IiMax(ns))
Window(ns) ==
  IF Group(ns) \in UnknownGroups THEN IiMin(ns)..IiMax(ns) \union (IF Op(ns) = 2 THEN {255} ELSE {})
  ELSE IF ~Instanced(ns) THEN (IF ns = NativeDHW THEN {0} ELSE {})
  ELSE Ordinary(ns) \union (IF ns = Circuits THEN {CircuitMax} ELSE {})

(* A group without instances, but for native DHW, is taken as present.     *)
NamespaceBegins ==
  /\ phase = "instances" /\ todo # {} /\ ~entered
  /\ entered' = TRUE /\ window' = Window(First) /\ verdicts' = Unprobed
  /\ marks' = IF Instanced(First) \/ First = NativeDHW THEN marks ELSE [marks EXCEPT ![First] = {0}]
  /\ UNCHANGED <<preset, profile, phase, asking, info, stored, responsive, todo, step, held,
                 denied, complete, incomplete, plan, events, reason, replied>>

Confirmed == {ii \in Slots : verdicts[ii] = "present"}
(* Mutant of Enough: the first slot that is not there ends a counted group. *)
FirstAbsence(ns, verdict, present) == Recommended /\ Op(ns) = 6 /\ verdict = "absent"
(* The probes stop at the count, or at the first absence without a count.  *)
Enough(ns, verdict, present) ==
  /\ Recommended
  /\ IF Expected(ns) > 0 THEN present >= Expected(ns)
     ELSE Op(ns) = 6 /\ Group(ns) \in ConnectedDeviceGroups /\ verdict = "absent"

(* A known namespace records each probe at once; an unknown group marks    *)
(* its instances when all are probed.                                      *)
Settle(ii, verdict) ==
  /\ verdicts' = [verdicts EXCEPT ![ii] = verdict]
  /\ marks' = IF verdict = "present" /\ Group(First) \in KnownGroups
              THEN [marks EXCEPT ![First] = @ \union {ii}] ELSE marks
  /\ window' = IF Enough(First, verdict,
                        Cardinality(Confirmed) + (IF verdict = "present" THEN 1 ELSE 0)) THEN {} ELSE window \ {ii}
  /\ step' = 0 /\ held' = "none"

(* The header registers RR 0x0002..0x0004 are tried when the first read of *)
(* a header namespace shows nothing; unknown groups have two anchors.      *)
HeaderReads == 4
ReadOn(verdict) == step' = step + 1 /\ held' = verdict /\ UNCHANGED <<verdicts, marks, window>>
SlotRead ==
  /\ phase = "instances" /\ entered /\ window # {}
  /\ LET ii == Min(window)
         contract == Contract(Op(First), Group(First), profile)
     IN \E a \in Answers :
          IF Group(First) \in UnknownGroups
          THEN IF ReadableValue(a) THEN Settle(ii, "present")
               ELSE IF step = 1 THEN Settle(ii, "none") ELSE ReadOn("none")
          ELSE IF contract # "header" THEN Settle(ii, Verdict(Op(First), Group(First), profile, a))
          ELSE IF step = 0
          THEN ReadOn(Verdict(Op(First), Group(First), profile, a))
          ELSE IF ReadableValue(a) THEN Settle(ii, "present")
          ELSE IF step = HeaderReads - 1 THEN Settle(ii, held) ELSE ReadOn(held)
  /\ UNCHANGED <<preset, profile, phase, asking, info, stored, responsive, todo, entered, denied,
                 complete, incomplete, plan, events, reason, replied>>

(* device_discovery: complete when nothing is unknown and the slots were   *)
(* bounded, ended by an absence, or as many as the count.                  *)
Unknown == {ii \in Slots : verdicts[ii] = "unknown"}
(* Mutant of DeviceComplete: reaching the count hides the unknown slots.   *)
CountIsComplete(ns) ==
  \/ Unknown = {} /\ (~Recommended \/ \E ii \in Slots : verdicts[ii] = "absent")
  \/ Recommended /\ Expected(ns) # NaN /\ Cardinality(Confirmed) >= Expected(ns)
DeviceComplete(ns) ==
  /\ Unknown = {}
  /\ \/ ~Recommended \/ \E ii \in Slots : verdicts[ii] = "absent"
     \/ Expected(ns) # NaN /\ Cardinality(Confirmed) >= Expected(ns)

IsDevice(ns) == Op(ns) = 6 /\ Group(ns) \in ConnectedDeviceGroups
NamespaceEnds ==
  /\ phase = "instances" /\ entered /\ window = {}
  /\ todo' = todo \ {First} /\ entered' = FALSE
  /\ marks' = IF Group(First) \in UnknownGroups THEN [marks EXCEPT ![First] = Confirmed] ELSE marks
  /\ complete' = IF IsDevice(First) THEN [complete EXCEPT ![First] = IF DeviceComplete(First) THEN "yes" ELSE "no"]
                 ELSE complete
  /\ incomplete' = (incomplete \/ Unknown # {} \/ complete'[First] = "no")
  /\ UNCHANGED <<preset, profile, phase, asking, info, stored, responsive, window, step, held,
                 verdicts, denied, plan, events, reason, replied>>
-----------------------------------------------------------------------------
(* The rows of the planner, and build_plan_from_preset over them.          *)
Native(gg) == (IF gg <= 10 THEN {2} ELSE {}) \union (IF gg \in 1..15 THEN {6} ELSE {})
Resolved(gg) == IF gg \in UnknownGroups THEN responsive[gg] ELSE ProfileOpcodes(gg)
Rows == {ns \in Namespaces : Group(ns) \in Configured /\ Op(ns) \in Native(Group(ns)) \union Resolved(Group(ns))}
InstanceRange(ns) == IiMin(ns)..IiMax(ns) \union (IF 255 \in marks[ns] THEN {255} ELSE {})

(* Mutant of Available: a count is evidence enough.                        *)
Counted(ns) == ns = <<2, 0>> \/ Expected(ns) > 0 \/ Capacity(ns) > 0 \/ marks[ns] \cap InstanceRange(ns) # {}
(* _has_recommended_availability.                                          *)
Available(ns) ==
  \/ ns = <<2, 0>>
  \/ ns = NativeDHW /\ marks[ns] # {}
  \/ Instanced(ns) /\ marks[ns] \cap InstanceRange(ns) # {}

(* _instances_for_preset, and the circuit GroupScanPlan always adds.       *)
InstancesFor(ns) ==
  IF ~Instanced(ns) THEN {0}
  ELSE (IF Recommended \/ preset = "custom" THEN marks[ns] \cap InstanceRange(ns) ELSE InstanceRange(ns))
       \union (IF ns = Circuits THEN {CircuitMax} ELSE {})
PresetPlan ==
  LET chosen == {ns \in Rows : /\ Op(ns) \in Resolved(Group(ns))
                               /\ Recommended => Available(ns)}
  IN UNION {{<<Op(ns), Group(ns), ii>> : ii \in InstancesFor(ns)} : ns \in chosen}
ExplicitPlans ==
  {{<<Op(ns), Group(ns), ii>> : ii \in I \union (IF ns = Circuits THEN {CircuitMax} ELSE {})} :
     ns \in {n \in Namespaces : Group(n) \in KnownGroups}, I \in SUBSET (1..RemoteMax) \ {{}}}

(* The scalar anchors of the automatic Event programs; the caller's own    *)
(* requests, or an identity they are not known for, leave them out.        *)
Anchors(chosen) ==
  (IF <<2, 0, 0>> \in chosen THEN {<<0, 0>>} ELSE {})
  \union {<<1, ii>> : ii \in IF NativeDHW \in Namespaces THEN marks[NativeDHW] ELSE {}}
  \union {<<3, ii>> : ii \in IF <<2, 3>> \in Namespaces THEN marks[<<2, 3>>] ELSE {}}
PlanMade ==
  /\ phase = "instances" /\ todo = {} /\ phase' = "planned"
  /\ plan' \in IF preset = "explicit" THEN ExplicitPlans ELSE {PresetPlan}
  /\ events' \in {{}, Anchors(plan')}
  /\ UNCHANGED <<preset, profile, asking, info, stored, responsive, slots, findings, reason, replied>>
-----------------------------------------------------------------------------
(* The exceptions that end the scan but keep its artifact.  Those of the   *)
(* transport carry the identifiers read; the recovery also carries the     *)
(* selector under way, whose instance is written as present: false.        *)
Requesting ==
  \/ phase = "information"
  \/ phase = "opcodes" /\ preset = "research" /\ UnknownGroups # {}
  \/ phase = "instances" /\ entered /\ window # {}
Partial == IF seen THEN [info EXCEPT ![id] = Given(NaN, FALSE)] ELSE info
Stop(why) ==
  /\ phase \notin {"planned", "stopped"} /\ phase' = "stopped" /\ reason' = why
  /\ UNCHANGED <<preset, profile, asking, info, responsive, slots, verdicts, marks, complete,
                 incomplete, plan, events, replied>>
Interrupted == Stop("user_interrupt") /\ UNCHANGED <<stored, denied>>
BudgetExhausted ==
  /\ Requesting /\ Stop("request_budget_exhausted") /\ UNCHANGED denied
  /\ stored' = IF phase = "information" THEN Partial ELSE stored
RecoveryExhausted ==
  /\ Requesting /\ Stop("transport_recovery_exhausted")
  /\ stored' = IF phase = "information" THEN Partial ELSE stored
  /\ denied' \in IF phase = "instances" THEN {{<<Op(First), Group(First), Min(window)>>}}
                 ELSE IF phase = "opcodes"
                 THEN {{<<ns[1], ns[2], 1>>} : ns \in {2, 6} \X UnknownGroups} ELSE {{}}
(* TransportCommandNotEnabled leaves the scan without an artifact.         *)
NotEnabled == Requesting /\ Stop("raised") /\ UNCHANGED <<stored, denied>>

Next ==
  \/ InformationAnswered \/ InformationFailed \/ InformationRejected
  \/ OpcodesProbed \/ NamespaceBegins \/ SlotRead \/ NamespaceEnds \/ PlanMade
  \/ Interrupted \/ BudgetExhausted \/ RecoveryExhausted \/ NotEnabled
Spec == Init /\ [][Next]_vars
-----------------------------------------------------------------------------
(* What was received of the system information is in the artifact, unless  *)
(* Ctrl-C came first: a later failure of the same identifier, or the end   *)
(* of the scan, does not lose it, and only four bytes give a value.        *)
InformationKept ==
  phase # "information" /\ reason \notin {"user_interrupt", "raised"} =>
    \A i \in SystemIds :
      /\ stored[i].raw <=> i \in replied
      /\ stored[i].value # NaN => stored[i].raw /\ ~stored[i].failed

(* Coverage that is not qualified as incomplete when a namespace ends      *)
(* knows every slot probed, and of a device group left unprobed only slots *)
(* that the count says are empty or that follow a confirmed absence; and   *)
(* no later namespace makes an incomplete coverage complete.               *)
HonestStep ==
  /\ incomplete => incomplete'
  /\ todo' # todo /\ todo # {} /\ ~incomplete' =>
       /\ \A ii \in Slots : verdicts[ii] # "unknown"
       /\ IsDevice(First) =>
            \/ \A ii \in IiMin(First)..IiMax(First) : verdicts[ii] # "none"
            \/ Recommended /\ Expected(First) # NaN /\ Cardinality(marks[First]) >= Expected(First)
            \/ /\ Recommended /\ Expected(First) = NaN
               /\ \E ii \in IiMin(First)..IiMax(First) :
                    /\ verdicts[ii] = "absent"
                    /\ \A jj \in IiMin(First)..(ii - 1) : jj \in marks[First]
CoverageHonest == [][HonestStep]_vars

(* "unknown or unprobed results stay manually selectable only": the        *)
(* recommended plan reads the system group, the virtual circuit of a group *)
(* with a confirmed circuit, and confirmed instances.  No plan of a preset *)
(* leaves out a confirmed instance, or reads an unknown group that never   *)
(* answered; and every Event program is of a slot the plan reads.          *)
PlanConfirmed ==
  phase = "planned" =>
    /\ \A e \in events : <<2, e[1], e[2]>> \in plan
    /\ Recommended => \A t \in plan : LET ns == <<t[1], t[2]>> IN
         \/ ns = <<2, 0>> \/ t[3] \in marks[ns]
         \/ <<ns, t[3]>> = <<Circuits, CircuitMax>> /\ marks[ns] # {}
    /\ \A t \in plan : t[2] \in UnknownGroups => t[1] \in responsive[t[2]]
    /\ preset # "explicit" => \A ns \in Rows : Op(ns) \in Resolved(Group(ns)) =>
         \A ii \in marks[ns] : <<Op(ns), Group(ns), ii>> \in plan

(* README.md:82, "The pending selector stays unknown: a timeout does not   *)
(* prove absence": the artifact denies no instance that was not probed.    *)
PendingStaysUnknown == denied = {}
=============================================================================
