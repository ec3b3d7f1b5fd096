-------------------------------- MODULE Planner --------------------------------
(***************************************************************************)
(* The scan planner, as a Textual screen or as a dialogue of prompts: the  *)
(* user edits which groups, instances and registers are read, the exact    *)
(* operation reads, and where descriptions come from, and gets one         *)
(* selection back or interrupts the scan.  The two share the presets, the  *)
(* parsers and the operation list, which they edit in place.  A hotkey     *)
(* opens the planner again during the scan, over the plan it returned.     *)
(***************************************************************************)
EXTENDS Naturals, Sequences, FiniteSets, FiniteSetsExt

CONSTANTS Groups,    \* planner groups: an operation and a group each
          MaxCode,   \* bound: weekday codes of an Event program
          MaxEdits   \* bound: edits of the Textual screen, answers of the prompts

PlannerConstants == MaxCode \in Nat /\ MaxEdits \in Nat

Presets == {"recommended", "full", "research", "custom"}
Sources == {"profile", "live"}
Classes == {"local", "remote"}
Virtual == 2    \* II09 of the water circuits, the last of its range
Far == 3        \* an instance outside every range
Full == 2       \* the ceiling of a research scan, beyond the qualified ones
NoScope == [top |-> 99, exact |-> {}]

VARIABLES
  kind,      \* what discovery said of a group: range of instances, those present,
             \* profile (presets that admit it), scope (RR_max), water, known to be
             \* there; the instances an explicit plan gave it
  screen,    \* "textual", "classic"
  step,      \* "edit", or the prompt of the dialogue; "returned", "interrupted"
  on, scope, chosen,   \* per group: in the plan, RR_max or exact registers, instances
  byHand,    \* groups whose instances the user chose, or a wider preset
  preset, policy, exact,  \* description source per class, override; known profile
  requests, selection, editable,  \* exact operation reads, which are on, a list
  edits

row == <<on, scope, chosen, byHand>>
reads == <<requests, selection>>
input == <<kind, screen, exact, editable>>
vars == <<input, step, row, preset, policy, reads, edits>>

(* System, native DHW, zones, circuits and an unqualified remote family.   *)
Kinds ==
  [range : {{0}}, present : {{}}, admit : {{"recommended", "full", "research"}},
   top : {1}, water : {FALSE}, shown : BOOLEAN, given : {{}}] \cup
  [range : {{1, 2}}, present : {{}, {1}}, admit : {{"recommended", "full", "research"}},
   top : {1}, water : BOOLEAN, shown : {TRUE}, given : {{}}] \cup
  [range : {{1, 2}}, present : {{}, {1}}, admit : {{"research"}}, top : {99}, water : {FALSE},
   shown : {FALSE}, given : {{}}]
-----------------------------------------------------------------------------
(* planner_instance_range, planner_present_instances, _instances_for_preset*)
Single(g) == kind[g].range = {0}
PresetInstances(g, p) ==
  IF Single(g) THEN {0} ELSE IF p = "recommended" THEN kind[g].present ELSE kind[g].range
Default(g) == IF Single(g) THEN {0} ELSE kind[g].present
Water(k) == IF k.water THEN {Virtual} ELSE {}    \* GroupScanPlan adds it

(* Mutant of Available: an admitted family is recommended unconfirmed.     *)
AvailableAlways(g) == TRUE
(* _has_recommended_availability: evidence for a singleton, or an instance.*)
Available(g) == IF Single(g) THEN kind[g].shown ELSE kind[g].present # {}

(* build_plan_from_preset: no preset plans a custom scan; without a        *)
(* qualified scope a group is planned by research alone.                   *)
Planned(g, p) ==
  /\ p \in kind[g].admit /\ (p = "recommended" => Available(g))
  /\ p # "research" => kind[g].top # 99

Ceiling(n) == [top |-> n, exact |-> {}]
DefaultScope(g, p) ==
  IF p = "research" THEN Ceiling(Full) ELSE IF kind[g].top = 99 THEN NoScope ELSE Ceiling(kind[g].top)
(* default_description_policy.                                             *)
Source(p, known) == IF p \in {"full", "research"} \/ ~known THEN "live" ELSE "profile"
Policy(p) ==   \* a class the user has set keeps its source
  [c \in Classes |-> IF policy[c].override THEN policy[c]
                     ELSE [source |-> Source(p, exact), override |-> FALSE]]

(* append_exact_operation_request and event_program_requests; one request  *)
(* stands for the reads of one code of one program.                        *)
Programs == {requests[i].program : i \in DOMAIN requests}
Of(p) == {i \in DOMAIN requests : requests[i].program = p}
Automatic(p) == \A i \in Of(p) : requests[i].automatic
Read(p, c, auto) == [program |-> p, code |-> c, automatic |-> auto]

(* The scopes _parse_register_scope makes of what is typed.                *)
Exact == {[top |-> Max(R), exact |-> R] : R \in {{1}, {0, 1}}}
Typed == {Ceiling(n) : n \in 0..1} \cup Exact

(* The plan handed in: of the preset; of every group discovery resolved,   *)
(* each with a scope of its own; or the explicit one, whose groups take    *)
(* their scope and present instances from it, outside the range as well.   *)
OfPreset ==
  /\ preset # "custom" /\ kind \in [Groups -> Kinds]
  /\ on = [g \in Groups |-> Planned(g, preset)]
  /\ scope = [g \in Groups |-> DefaultScope(g, IF on[g] THEN preset ELSE "custom")]
  /\ chosen = [g \in Groups |-> IF on[g] THEN PresetInstances(g, preset) ELSE Default(g)]
  /\ byHand = IF preset = "recommended" THEN {} ELSE Groups
OfDiscovery ==
  /\ preset = "custom" /\ kind \in [Groups -> Kinds]
  /\ on \in [Groups -> BOOLEAN] /\ \A g \in Groups : kind[g].present # {} => on[g]
  /\ scope = [g \in Groups |-> IF on[g] /\ kind[g].top = 99 THEN Ceiling(1)
                               ELSE DefaultScope(g, "custom")]
  /\ chosen = [g \in Groups |-> Default(g)] /\ byHand = {}
Rows(k) ==    \* the parser knows the bounds of circuits and remote families
  IF k.water THEN {{0, Virtual}, {1, Virtual}}
  ELSE IF k.admit = {"research"} THEN {{1}} ELSE {{0}, {1, Far}}
Asked(k, s, I) == [k EXCEPT !.top = s.top, !.present = I \cap k.range, !.given = I]
OfFile ==
  /\ preset = "custom"
  /\ \E found \in [Groups -> Kinds], named \in SUBSET Groups \ {{}}, s \in [Groups -> Exact] :
     \E I \in {J \in [Groups -> UNION {Rows(k) : k \in Kinds}] : \A g \in Groups : J[g] \in Rows(found[g])} :
       /\ kind = [g \in Groups |-> IF g \in named THEN Asked(found[g], s[g], I[g]) ELSE found[g]]
       /\ on = [g \in Groups |-> g \in named]
       /\ scope = [g \in Groups |-> IF on[g] THEN s[g] ELSE DefaultScope(g, "custom")]
       /\ chosen = [g \in Groups |-> IF on[g] THEN I[g] ELSE Default(g)]
       /\ byHand = named

Init ==
  /\ screen \in {"textual", "classic"}
  /\ step = IF screen = "textual" THEN "edit" ELSE "operations"
  /\ preset \in Presets /\ exact \in BOOLEAN
  /\ policy = [c \in Classes |-> [source |-> Source(preset, exact), override |-> FALSE]]
  /\ OfPreset \/ OfDiscovery \/ OfFile
  /\ requests \in {<<>>, <<Read(1, 0, TRUE), Read(2, 0, TRUE), Read(1, 1, TRUE)>>}
  /\ selection = [i \in DOMAIN requests |-> TRUE]
  /\ editable = (requests # <<>>)    \* "operation_requests or ()"
  /\ edits = 0

Edit == edits < MaxEdits /\ edits' = edits + 1
-----------------------------------------------------------------------------
(* The default of the edit field: an exact list of one register reads as a *)
(* ceiling when it is accepted unchanged.                                  *)
Accepted(s) == IF Cardinality(s.exact) = 1 THEN Ceiling(s.top) ELSE s

SetScope(g, s) == scope' = [scope EXCEPT ![g] = s] /\ UNCHANGED <<on, chosen, byHand>>
EditScope(g) == \E s \in Typed \cup ({Accepted(scope[g])} \ {NoScope}) : SetScope(g, s)

(* "present", "all", "none", or selectors within the range.                *)
EditInstances(g) ==
  /\ ~Single(g)
  /\ chosen' \in {[chosen EXCEPT ![g] = I] : I \in SUBSET kind[g].range}
  /\ byHand' = byHand \cup {g} /\ UNCHANGED <<on, scope>>

Toggle(g) == on' = [on EXCEPT ![g] = ~@] /\ UNCHANGED <<scope, chosen, byHand>>

(* _apply_preset: groups it does not plan keep their settings, switched off*)
ApplyPreset(p) ==
  /\ preset' = p /\ policy' = Policy(p)
  /\ on' = [g \in Groups |-> Planned(g, p)]
  /\ scope' = [g \in Groups |-> IF on'[g] THEN DefaultScope(g, p) ELSE scope[g]]
  /\ chosen' = [g \in Groups |-> IF on'[g] THEN PresetInstances(g, p) ELSE chosen[g]]
  /\ byHand' = {g \in Groups : IF on'[g] THEN p # "recommended" ELSE g \in byHand}

Override(c, source) ==
  policy' = [policy EXCEPT ![c] = [source |-> source, override |-> TRUE]]

(* OperationPlannerRow.toggle: the whole program, on unless all of it is.  *)
ToggleProgram(p) ==
  /\ LET all == \A i \in Of(p) : selection[i]
     IN selection' = [i \in DOMAIN requests |-> IF i \in Of(p) THEN ~all ELSE selection[i]]
  /\ UNCHANGED requests

(* A set of numbers in order, and the members of a list at other places.   *)
Ascending(C) ==
  CHOOSE t \in [1..Cardinality(C) -> C] : \A i, j \in DOMAIN t : i < j => t[i] < t[j]
Without(s, I) ==
  LET kept == Ascending(DOMAIN s \ I) IN [k \in DOMAIN kept |-> s[kept[k]]]
Insert(s, k, t) == SubSeq(s, 1, k) \o t \o SubSeq(s, k + 1, Len(s))

(* replace_event_day_codes: the program's reads, in place of its first one.*)
ReplaceCodes(p, C) ==
  LET at == Min(Of(p)) - 1
      codes == Ascending(C)
  IN /\ editable /\ Automatic(p) /\ C # {}
     /\ requests' = Insert(Without(requests, Of(p)), at,
                           [i \in DOMAIN codes |-> Read(p, codes[i], TRUE)])
     /\ selection' = Insert(Without(selection, Of(p)), at,
                            [i \in DOMAIN codes |-> \A j \in Of(p) : selection[j]])

(* append_exact_operation_request refuses a payload that is already there. *)
AddRead(p, c) ==
  /\ editable /\ \A i \in DOMAIN requests : <<requests[i].program, requests[i].code>> # <<p, c>>
  /\ requests' = Append(requests, Read(p, c, FALSE)) /\ selection' = Append(selection, TRUE)

EditReads ==
  \/ \E p \in Programs, C \in SUBSET (0..MaxCode) : ReplaceCodes(p, C)
  \/ \E p \in 1..2, c \in 0..MaxCode : AddRead(p, c)
-----------------------------------------------------------------------------
(* The Textual screen: any edit, then save or quit.                        *)
TextualEdit ==
  /\ screen = "textual" /\ step = "edit" /\ Edit /\ UNCHANGED <<input, step>>
  /\ \/ /\ \E g \in Groups : Toggle(g) \/ EditScope(g) \/ EditInstances(g)
        /\ UNCHANGED <<preset, policy, reads>>
     \/ \E p \in Presets : ApplyPreset(p) /\ UNCHANGED reads
     \/ /\ \E c \in Classes : Override(c, IF policy[c].source = "live" THEN "profile" ELSE "live")
        /\ UNCHANGED <<row, preset, reads>>
     \/ /\ EditReads \/ \E p \in Programs : ToggleProgram(p)
        /\ UNCHANGED <<row, preset, policy>>

(* action_save: a group that is on needs a scope first.                    *)
Save ==
  /\ screen = "textual" /\ step = "edit" /\ \A g \in Groups : on[g] => scope[g] # NoScope
  /\ step' = "returned" /\ UNCHANGED <<input, row, preset, policy, reads, edits>>

(* Quitting either planner interrupts the scan.                            *)
Quit ==
  /\ step \in {"edit", "customize", "confirm"} /\ step' = "interrupted"
  /\ UNCHANGED <<input, row, preset, policy, reads, edits>>
-----------------------------------------------------------------------------
(* The prompts.  _prompt_operation_selection: codes and added reads until  *)
(* an answer selects programs or keeps the selection.                      *)
AskOperations ==
  /\ step = "operations" /\ UNCHANGED <<input, row, preset, policy>>
  /\ \/ Edit /\ EditReads /\ UNCHANGED step
     \/ /\ step' = "customize" /\ UNCHANGED <<requests, edits>>
        /\ \/ UNCHANGED selection
           \/ requests # <<>>
              /\ \E P \in SUBSET Programs :
                   selection' = [i \in DOMAIN requests |-> requests[i].program \in P]

(* "Customize scan plan?", then _ask_preset; custom keeps the default plan.*)
Decline ==
  /\ step = "customize" /\ step' = "confirm"
  /\ UNCHANGED <<input, row, preset, policy, reads, edits>>
AskPreset ==
  /\ step = "customize" /\ step' = "descriptions" /\ UNCHANGED <<input, reads, edits>>
  /\ \E p \in Presets :
       IF p = "custom" THEN preset' = p /\ policy' = Policy(p) /\ UNCHANGED row
       ELSE ApplyPreset(p)

(* _prompt_description_policy: one answer may set both classes.            *)
AskDescriptions ==
  /\ step = "descriptions" /\ step' = IF preset = "custom" THEN "groups" ELSE "confirm"
  /\ \/ UNCHANGED policy
     \/ \E c \in Classes, s \in Sources : Override(c, s)
     \/ policy' \in [Classes -> [source : Sources, override : {TRUE}]]
  /\ UNCHANGED <<input, row, preset, reads, edits>>

(* _ask_groups_to_scan: a group new to the plan takes its defaults, and    *)
(* one without a qualified scope is asked for it at once.                  *)
AskGroups ==
  /\ step = "groups" /\ step' = "registers"
  /\ on' \in [Groups -> BOOLEAN]
  /\ scope' \in {s \in [Groups -> Typed \cup {NoScope}] :
                   \A g \in Groups :
                     IF on'[g] /\ ~on[g] /\ DefaultScope(g, "custom") = NoScope THEN s[g] # NoScope
                     ELSE s[g] = IF on'[g] /\ ~on[g] THEN DefaultScope(g, "custom") ELSE scope[g]}
  /\ chosen' = [g \in Groups |-> IF on'[g] /\ ~on[g] THEN Default(g) ELSE chosen[g]]
  /\ byHand' = {g \in byHand : on[g]}
  /\ UNCHANGED <<input, preset, policy, reads, edits>>

(* Each override answers for the groups of the plan, one after another.    *)
AskRegisters ==
  /\ step = "registers" /\ UNCHANGED <<input, preset, policy, reads>>
  /\ \/ Edit /\ (\E g \in Groups : on[g] /\ EditScope(g)) /\ UNCHANGED step
     \/ step' = "instances" /\ UNCHANGED <<row, edits>>
AskInstances ==
  /\ step = "instances" /\ UNCHANGED <<input, preset, policy, reads>>
  /\ \/ Edit /\ (\E g \in Groups : on[g] /\ EditInstances(g)) /\ UNCHANGED step
     \/ step' = "confirm" /\ UNCHANGED <<row, edits>>
Proceed ==
  /\ step = "confirm" /\ step' = "returned"
  /\ UNCHANGED <<input, row, preset, policy, reads, edits>>

(* The plan the scan goes by, with the virtual water circuit; a preset's   *)
(* plan is cut to the range of the remote families and of the circuits.    *)
Bounded(g) == preset # "custom" /\ (kind[g].water \/ kind[g].admit = {"research"})
Instances(g) ==
  (IF Bounded(g) THEN chosen[g] \cap kind[g].range ELSE chosen[g]) \cup Water(kind[g])

(* The hotkey: the planner starts from that plan, its preset and its reads;*)
(* the dialogue takes the preset's plan afresh when there is none.         *)
Replan ==
  /\ step = "returned" /\ step' = IF screen = "textual" THEN "edit" ELSE "operations"
  /\ LET fresh == screen = "classic" /\ \A g \in Groups : ~on[g]
     IN /\ on' = [g \in Groups |-> IF fresh THEN Planned(g, preset) ELSE on[g]]
        /\ scope' = [g \in Groups |-> IF ~on'[g] THEN DefaultScope(g, "custom")
                                      ELSE IF fresh THEN DefaultScope(g, preset) ELSE scope[g]]
        /\ chosen' = [g \in Groups |-> IF ~on'[g] THEN Default(g)
                                       ELSE IF fresh THEN PresetInstances(g, preset) ELSE Instances(g)]
        /\ byHand' = {g \in Groups :
                        on'[g] /\ IF fresh THEN preset # "recommended" ELSE g \in byHand}
  /\ UNCHANGED <<input, preset, policy, reads, edits>>

Next ==
  \/ TextualEdit \/ Save \/ Quit \/ AskOperations \/ Decline \/ AskPreset \/ AskDescriptions
  \/ AskGroups \/ AskRegisters \/ AskInstances \/ Proceed \/ Replan

Spec == Init /\ [][Next]_vars
-----------------------------------------------------------------------------
(* Programs the automatic plan holds are selected as a whole.              *)
Whole(p) == Automatic(p) => \A i, j \in Of(p) : selection[i] = selection[j]

(* The selection names one mark per exact read, no read twice, and whole   *)
(* programs.  A returned plan has a scope for each of its groups, leaves   *)
(* their range only where the plan handed in did, and reads a slot nobody  *)
(* confirmed only where the user, that plan, or a preset beyond the        *)
(* recommended one asked for it; a recommended plan has evidence for every *)
(* group.  What the user set for descriptions survives the presets.  All   *)
(* this holds again of a plan edited during the scan.                      *)
PlanSound ==
  /\ Len(selection) = Len(requests)
  /\ \A i, j \in DOMAIN requests :
       requests[i].program = requests[j].program /\ requests[i].code = requests[j].code => i = j
  /\ \A p \in Programs : Whole(p)
  /\ step = "returned" =>
       /\ \A g \in Groups : on[g] =>
            /\ scope[g] # NoScope /\ Instances(g) \subseteq kind[g].range \cup kind[g].given
            /\ g \notin byHand => Instances(g) \subseteq kind[g].present \cup {0} \cup Water(kind[g])
       /\ edits = 0 /\ preset = "recommended" => \A g \in Groups : on[g] =>
            chosen[g] # {} /\ (Single(g) => kind[g].shown)
       /\ \A c \in Classes : ~policy[c].override => policy[c].source = Source(preset, exact)
=============================================================================
