------------------------------ MODULE BrowseStore ------------------------------
(***************************************************************************)
(* An artifact as the browser shows it: migrated to the current schema,    *)
(* turned into rows and a navigation tree, and selected from by node and   *)
(* tab (artifact_schema.py, ui/browse_hydration.py, ui/browse_query.py and *)
(* the selection of ui/browse_textual.py).                                 *)
(***************************************************************************)
EXTENDS Integers, FiniteSets, Sequences, FiniteSetsExt

CONSTANTS MaxEntries    \* register entries of an artifact

StoreConstants == MaxEntries \in Nat

VARIABLES
  file,    \* layout; kind and place of its entries; who is present; final plan; the rest
  store,   \* "closed", "refused" or the rows and the nodes of the tree
  node, tab   \* the selection

vars == <<file, store, node, tab>>

(* Registers as <<OP, GG, II, RR>>.  GG00 has one instance and ends at     *)
(* RR 255, GG03 has several, and GG20 (32) is in no profile.               *)
Selectors ==
  {<<2, 0, 0, 1>>, <<2, 0, 0, 256>>, <<2, 3, 0, 1>>, <<2, 3, 0, 2>>, <<2, 3, 1, 1>>,
   <<2, 32, 0, 1>>, <<2, 32, 1, 1>>, <<6, 3, 1, 0>>, <<6, 3, 1, 1>>, <<6, 32, 1, 1>>}
Profiled(group) == group = 3            \* group_namespace_profiles: OP02, ii_max > 0
Kinds == {"config", "state", "failed", "absent"}
Instance(s) == <<s[1], s[2], s[3]>>
All == {<<0, 0, 0>>}                    \* no final plan: everything is shown

(* Operations first, as written now; or groups first, as until 2.2, where  *)
(* an entry may leave its opcode unsaid and no instance says whether it is *)
(* present.  "emptied" has flat instances behind an empty namespaces       *)
(* object and dual_namespace = true.                                       *)
Store(status, rows, nodes) == [status |-> status, rows |-> rows, nodes |-> nodes]
Stored(S, f) ==
  /\ f.kind \in [S -> Kinds]
  /\ f.proven \in {2, 6}
  /\ CASE f.layout = "operations" -> f.said = S /\ f.proven = 2
       [] f.layout = "dual" -> f.present = {} /\ f.plan = All /\ f.proven = 2
       [] OTHER -> /\ f.present = {} /\ f.plan = All
                   /\ \A s, t \in S : s # t => Tail(s) # Tail(t)
Others == {"none", "system", "operation", "b555", "b516", "b509"}
Init ==
  /\ store = Store("closed", {}, {}) /\ tab = "config"
  /\ node = [level |-> "root", protocol |-> "none", section |-> "none", group |-> 0,
             opcode |-> 0, instance |-> 0]
  /\ \E n \in 0..MaxEntries : \E S \in kSubset(n, Selectors) :
     \E kind \in [S -> Kinds], layout \in {"operations", "dual", "flat", "emptied"},
        said \in SUBSET S, proven \in {2, 6}, present \in SUBSET {Instance(s) : s \in S},
        plan \in {All} \cup SUBSET {Instance(s) : s \in S},
        other \in IF n <= 1 THEN Others ELSE {"none"} :
       /\ file = [layout |-> layout, kind |-> kind, said |-> said, proven |-> proven,
                  present |-> present, plan |-> plan, other |-> other]
       /\ Stored(S, file)
-----------------------------------------------------------------------------
(* _migrate_v22_to_v23: a flat group is split by the opcodes of its        *)
(* entries; an unsaid one is the least of them, or the proven one.         *)
Default(group) ==
  LET seen == {s[1] : s \in {s \in file.said : s[2] = group}}
  IN IF seen = {} THEN file.proven ELSE Min(seen)
Moved(s) ==
  IF file.layout = "flat" /\ s \notin file.said
  THEN [s EXCEPT ![1] = Default(s[2])] ELSE s
Entries ==
  IF file.layout = "emptied" THEN {}
  ELSE {[place |-> Moved(s), kind |-> file.kind[s]] : s \in DOMAIN file.kind}

(* migrate_artifact_schema refuses a file of which it lost an entry.       *)
Kept == Cardinality(Entries) = Cardinality(DOMAIN file.kind)

(* What the final plan selected, group by group.                           *)
InPlan(i) == file.plan = All \/ i \in file.plan
View(op, group) ==
  {e \in Entries : e.place[1] = op /\ e.place[2] = group /\ InPlan(Instance(e.place))}
Routes ==
  IF file.plan = All THEN {<<e.place[1], e.place[2]>> : e \in Entries}
  ELSE {<<i[1], i[2]>> : i \in file.plan}

(* _visible_instance_keys: said to be present, or else seen to answer.     *)
Visible(i) ==
  /\ i[1] = 6 => i[3] \in 1..8
  /\ IF file.layout = "operations" THEN i \in file.present
     ELSE \E e \in Entries : Instance(e.place) = i /\ e.kind \in {"config", "state"}

(* visible_rr_keys: up to the last register that any instance has; RR 0 of *)
(* a group is its header.                                                  *)
VisibleRegisters(op, group) ==
  LET registers == {e.place[4] : e \in View(op, group)} \ {0}
      last == {e.place[4] : e \in {e \in View(op, group) : e.kind # "absent"}} \ {0}
  IN {r \in registers : (\E k \in last : r <= k) /\ (group = 0 => r <= 255)}
Section(op) == IF op = 6 THEN "device_slots" ELSE "controller_registers"
TabOf(kind) == IF kind = "config" THEN "config" ELSE "state"
Instanced(op, group) ==
  op = 6 \/ Profiled(group) \/ \E e \in View(op, group) : e.place[3] # 0
-----------------------------------------------------------------------------
Row(protocol, section, place, t) ==
  [protocol |-> protocol, section |-> section, place |-> place, tab |-> t]
RegisterRows ==
  UNION {{Row("b524", Section(v[1]), e.place, TabOf(e.kind)) :
          e \in {e \in View(v[1], v[2]) : e.place[4] \in VisibleRegisters(v[1], v[2])}} :
         v \in Routes}

(* System information; two selectors of an operation; the configuration    *)
(* and a slot of a B555 program; a total of B516; two ranges of B509.      *)
Of(other, rows) == IF file.other = other THEN rows ELSE {}
SystemRows == Of("system", {Row("b524", "system_information", <<0, 0, 0, 1>>, "state")})
OperationRows ==
  Of("operation", {Row("b524", "operation", <<9, g, 0, 0>>, "state") : g \in {1, 2}})
B555Config == Of("b555", {Row("b555", "none", <<0, 1, 0, 0>>, "config")})
B555Slots == Of("b555", {Row("b555", "none", <<0, 1, 0, 1>>, "state")})
B516Rows == Of("b516", {Row("b516", "none", <<0, 1, 0, 1>>, "state")})
B509Rows == Of("b509", {Row("b509", "none", <<0, 0, 0, r>>, "state") : r \in {1, 3}})
OtherRows == SystemRows \cup OperationRows \cup B555Config \cup B555Slots \cup B516Rows \cup B509Rows
Rows == RegisterRows \cup OtherRows

Node(level, protocol, section, group, op, instance) ==
  [level |-> level, protocol |-> protocol, section |-> section, group |-> group,
   opcode |-> op, instance |-> instance]
Root == Node("root", "none", "none", 0, 0, 0)
Top(protocol) == Node("protocol", protocol, "none", 0, 0, 0)
Part(section) == Node("section", "b524", section, 0, 0, 0)
Group(section, group) == Node("group", "b524", section, group, 0, 0)

InstanceNodes ==
  UNION {{Node("instance", "b524", Section(v[1]), v[2], v[1], e.place[3]) :
          e \in {e \in View(v[1], v[2]) : Instanced(v[1], v[2]) /\ Visible(Instance(e.place))}} :
         v \in Routes}
(* A section with neither rows nor instances is left out with its groups,  *)
(* unless the final plan has it.                                           *)
Sections ==
  {r.section : r \in {r \in Rows : r.protocol = "b524"}} \cup {n.section : n \in InstanceNodes}
  \cup (IF file.plan = All THEN {} ELSE {Section(v[1]) : v \in Routes})
RegisterNodes ==
  (IF Sections = {} THEN {} ELSE {Top("b524")})
  \cup {Part(s) : s \in Sections}
  \cup {Group(Section(v[1]), v[2]) : v \in {v \in Routes : Section(v[1]) \in Sections}}
  \cup InstanceNodes
OtherNodes ==
  CASE file.other = "operation" -> {Group("operation", g) : g \in {1, 2}}
    [] file.other \in {"b555", "b516"} ->
         {Top(file.other), Node("group", file.other, "none", 1, 0, 0)}
    [] file.other = "b509" -> {Top("b509")} \cup {Node("range", "b509", "none", r, 0, r) : r \in {1, 3}}
    [] OTHER -> {}
Nodes == {Root} \cup RegisterNodes \cup OtherNodes

-----------------------------------------------------------------------------
(* _build_tree: a node whose parent is missing is not shown.               *)
Parent(n) ==
  CASE n.level = "protocol" -> Root
    [] n.level = "section" -> Top("b524")
    [] n.level = "group" -> IF Part(n.section) \in store.nodes THEN Part(n.section) ELSE Top(n.protocol)
    [] n.level = "instance" -> Group(n.section, n.group)
    [] n.level = "range" -> Top("b509")
    [] OTHER -> Root
InTree(n) == {n, Parent(n), Parent(Parent(n)), Parent(Parent(Parent(n)))} \subseteq store.nodes
(* _has_navigation_children.                                               *)
Navigates(n) ==
  \/ n.level = "section" /\ n.section = "operation"
  \/ /\ n.level = "group" /\ n.protocol = "b524" /\ n.section # "operation"
     /\ n.section = "device_slots" \/ Profiled(n.group)
  \/ /\ ~(n.level = "group" /\ n.section = "operation")
     /\ \E c \in store.nodes \ {n} :
          \/ n.level = "root"
          \/ n.level = "protocol" /\ c.protocol = n.protocol
          \/ /\ n.level \in {"section", "group"}
             /\ c.protocol = n.protocol /\ c.section = n.section
             /\ \/ n.level = "section" /\ c.level \in {"group", "instance", "range"}
                \/ n.level = "group" /\ c.level = "instance" /\ c.group = n.group

(* Mutant of OfInstance: the section is not compared.                      *)
OfGroupInstance(n, r) == r.place[2] = n.group /\ r.place[3] = n.instance
OfInstance(n, r) ==
  r.place[2] = n.group /\ r.place[3] = n.instance /\ r.section = n.section

(* rows_for_selection, before the tab.                                     *)
Selected(n) ==
  IF Navigates(n) THEN {}
  ELSE IF n.level = "root" THEN store.rows
  ELSE {r \in store.rows :
          /\ r.protocol = n.protocol
          /\ CASE n.level = "section" -> r.section = n.section
               [] n.level = "group" -> r.place[2] = n.group /\ r.section = n.section
               [] n.level = "instance" -> OfInstance(n, r)
               [] n.level = "range" -> r.place[4] \in n.group..n.instance
               [] OTHER -> TRUE}

(* _allowed_tabs_for_selection and _refresh_table.                         *)
Tabs(n) ==
  IF n.protocol # "b524" THEN {"state"}
  ELSE IF n.section \notin {"none", "controller_registers", "device_slots"} THEN {}
  ELSE {"config", "state"}
Shown(n, t) ==
  IF Tabs(n) = {} THEN {r \in store.rows : r.protocol = "b524" /\ r.section = n.section}
  ELSE {r \in Selected(n) : r.tab = t}
Synced(n, t) == IF t \in Tabs(n) THEN t ELSE "state"

Open ==
  /\ store.status = "closed"
  /\ store' = IF Kept THEN Store("open", Rows, Nodes) ELSE Store("refused", {}, {})
  /\ tab' = Synced(node, tab)
  /\ UNCHANGED <<file, node>>
Select ==
  /\ store.status = "open"
  /\ \E n \in {n \in store.nodes : InTree(n)} : node' = n /\ tab' = Synced(n, tab)
  /\ UNCHANGED <<file, store>>
Switch ==
  /\ store.status = "open"
  /\ \E t \in Tabs(node) : tab' = t
  /\ UNCHANGED <<file, store, node>>

Next == Open \/ Select \/ Switch
Spec == Init /\ [][Next]_vars
-----------------------------------------------------------------------------
IsRegister(r) == r.protocol = "b524" /\ r.section \in {"controller_registers", "device_slots"}
Leaf(n) == \A c \in store.nodes \ {n} : Parent(c) # n
At(r, n) == InTree(n) /\ r \in Shown(n, r.tab) /\ (Tabs(n) # {} => r.tab \in Tabs(n))

(* What is in the artifact is in the browser, once and where it belongs: a *)
(* migrated entry keeps the opcode it was read with; a planned register    *)
(* that answered has a row; and a row on the state tab, or of a register   *)
(* whose instance the tree shows or whose group has none, is under exactly *)
(* one node, a leaf.  (An operation's two nodes show all of its section.)  *)
TypeOK == store.status \in {"closed", "open", "refused"} /\ tab \in {"config", "state"}
EntriesKept == \A s \in file.said : Moved(s) = s
AnsweredShown ==
  \A e \in Entries :
    /\ InPlan(Instance(e.place)) /\ e.kind # "absent" /\ e.place[4] # 0
    /\ e.place[2] = 0 => e.place[4] <= 255
    => \E r \in {r \in store.rows : IsRegister(r)} : r.place = e.place
Navigable ==
  \A r \in store.rows :
    LET op == r.place[1]  group == r.place[2] IN
    (IF IsRegister(r) THEN ~Instanced(op, group) \/ Visible(Instance(r.place))
     ELSE r.section # "operation" /\ r.tab = "state") =>
      /\ Cardinality({n \in store.nodes : At(r, n)}) = 1
      /\ \A n \in store.nodes : At(r, n) => Leaf(n)
RowsTrue ==
  /\ TypeOK
  /\ store.status = "open" => EntriesKept /\ AnsweredShown /\ Navigable

(* artifact_schema.py: a file with "dual_namespace=true with empty         *)
(* namespaces + populated instances" is repaired, and so can be opened.    *)
MigrationRepairs == store.status # "refused"
=============================================================================
