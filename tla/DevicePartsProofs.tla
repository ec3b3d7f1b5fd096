--------------------------- MODULE DevicePartsProofs ---------------------------
(***************************************************************************)
(* What the discovery promises of a device, for every set of groups and of *)
(* identifiers and for every size of the instance ranges: the information  *)
(* received is kept, a complete coverage is honest about the slots it left *)
(* out, and the plan has the confirmed instances and no other.  And of the *)
(* limits of an edit, for every number of controllers, devices and scans:  *)
(* they are those of the device the edit is for (EditInv).                 *)
(***************************************************************************)
EXTENDS DeviceParts, FiniteSetTheorems, WellFoundedInduction, TLAPS

(* A set of naturals with a member has a least one.                        *)
LEMMA LeastNatural ==
  ASSUME NEW S \in SUBSET Nat, S # {}
  PROVE  \E x \in S : \A y \in S : x <= y
<1> DEFINE R == {ss \in Nat \X Nat : ss[1] < ss[2]}
<1>1. IsWellFoundedOn(R, Nat)
  BY NatLessThanWellFounded DEF OpToRel
<1>2. \A x, y \in Nat : x < y => <<x, y>> \in R
  OBVIOUS
<1> HIDE DEF R
<1>3. PICK x \in S : \A y \in S : ~ (<<y, x>> \in R)
  BY <1>1, WFMin
<1>4. ASSUME NEW y \in S PROVE x <= y
  <2>1. x \in Nat /\ y \in Nat
    OBVIOUS
  <2>2. <<y, x>> \notin R
    BY <1>3
  <2>3. ~ (y < x)
    BY <1>2, <2>1, <2>2
  <2> QED
    BY <2>1, <2>3
<1> QED
  BY <1>4

LEMMA MinIsLeast ==
  ASSUME NEW S \in SUBSET Nat, S # {}
  PROVE  Min(S) \in S /\ \A y \in S : Min(S) <= y
BY LeastNatural DEF Min

(* What is bounded has a greatest element: the least distance to the bound.*)
LEMMA MaxIsGreatest ==
  ASSUME NEW b \in Nat, NEW S \in SUBSET (0..b), S # {}
  PROVE  Max(S) \in S /\ \A y \in S : Max(S) >= y
<1> DEFINE D == {b - x : x \in S}
<1>1. D \in SUBSET Nat /\ D # {}
  <2>1. \A x \in S : b - x \in Nat
    OBVIOUS
  <2> QED
    BY <2>1
<1>2. PICK d \in D : \A e \in D : d <= e
  BY <1>1, LeastNatural
<1>3. PICK x \in S : d = b - x
  BY <1>2
<1>4. ASSUME NEW y \in S PROVE x >= y
  <2>1. b - y \in D
    OBVIOUS
  <2>2. b - x <= b - y
    BY <1>2, <1>3, <2>1
  <2> QED
    BY <2>2
<1>5. \E m \in S : \A y \in S : m >= y
  BY <1>4
<1> QED
  BY <1>5 DEF Max

(* The identifiers of the system information.                              *)
LEMMA Identifiers ==
  /\ SystemIds \in SUBSET Nat
  /\ Min(SystemIds) \in SystemIds /\ \A i \in SystemIds : Min(SystemIds) <= i
  /\ Max(SystemIds) \in SystemIds /\ \A i \in SystemIds : Max(SystemIds) >= i
<1>1. SystemIds \in SUBSET (0..17) /\ SystemIds \in SUBSET Nat /\ SystemIds # {}
  BY DiscoveryAssumption DEF DiscoveryAssumption
<1> QED
  BY <1>1, MinIsLeast, MaxIsGreatest

-----------------------------------------------------------------------------
(* The system information.  While it is read, the identifiers before the   *)
(* one under way are as received, those after it untouched, and "seen" is  *)
(* whether the one under way ever answered.                                *)
Entries == [listed : BOOLEAN, value : Int, raw : BOOLEAN, failed : BOOLEAN]
Sound(entry) == entry.value # NaN => entry.raw /\ ~entry.failed

InformationTypes ==
  /\ id \in SystemIds /\ seen \in BOOLEAN /\ attempt \in Nat
  /\ info \in [SystemIds -> Entries] /\ stored \in [SystemIds -> Entries]
  /\ replied \subseteq SystemIds
Reading ==
  phase = "information" =>
    /\ seen <=> id \in replied
    /\ \A i \in SystemIds :
         /\ i < id => (info[i].raw <=> i \in replied)
         /\ i >= id => info[i] = Unlisted
         /\ i > id => i \notin replied
InformationInv ==
  /\ InformationTypes
  /\ phase # "stopped" => reason = "none"
  /\ \A i \in SystemIds : Sound(info[i])
  /\ Reading
  /\ InformationKept

LEMMA InitInformation == Init => InformationInv
<1> SUFFICES ASSUME Init PROVE InformationInv
  OBVIOUS
<1>1. Unlisted \in Entries /\ Sound(Unlisted) /\ ~Unlisted.raw
  BY DEF Unlisted, Entries, Sound, NaN
<1>2. InformationTypes
  BY <1>1, Identifiers DEF Init, InformationTypes
<1>3. phase = "information" /\ reason = "none" /\ id = Min(SystemIds) /\ seen = FALSE
      /\ info = [i \in SystemIds |-> Unlisted] /\ replied = {}
  BY DEF Init
<1>4. Reading
  BY <1>1, <1>3, Identifiers DEF Reading
<1> QED
  BY <1>1, <1>2, <1>3, <1>4 DEF InformationInv, InformationKept

(* An identifier is done with: its entry says whether anything was received. *)
LEMMA IdentifierDone ==
  ASSUME InformationInv, phase = "information", NEW e \in Entries, Sound(e),
         replied' \in {replied, replied \union {id}}, e.raw <=> id \in replied',
         NextIdentifier(e), reason' = reason
  PROVE  InformationInv'
<1> USE DEF InformationInv, InformationTypes
<1>1. info' = [info EXCEPT ![id] = e] /\ info' \in [SystemIds -> Entries] /\ id \in SystemIds
      /\ attempt' = 1 /\ seen' = FALSE /\ reason' = "none" /\ replied' \subseteq SystemIds
  BY DEF NextIdentifier
<1>2. \A i \in SystemIds : Sound(info'[i])
  BY <1>1
<1>3. \A i \in SystemIds : i <= id => (info'[i].raw <=> i \in replied')
  <2> SUFFICES ASSUME NEW i \in SystemIds, i <= id PROVE info'[i].raw <=> i \in replied'
    OBVIOUS
  <2>1. CASE i = id
    BY <1>1, <2>1
  <2>2. CASE i # id
    <3>1. i < id
      BY <2>2, Identifiers
    <3> QED
      BY <3>1, <2>2, <1>1 DEF Reading
  <2> QED
    BY <2>1, <2>2
<1>4. CASE id = Max(SystemIds)
  <2>1. phase' = "opcodes" /\ id' = id /\ stored' = info'
    BY <1>4 DEF NextIdentifier
  <2>2. InformationTypes'
    BY <1>1, <2>1 DEF InformationTypes
  <2>3. InformationKept'
    BY <1>1, <1>2, <1>3, <1>4, <2>1, Identifiers DEF InformationKept, Sound
  <2> QED
    BY <1>1, <1>2, <2>1, <2>2, <2>3 DEF Reading
<1>5. CASE id # Max(SystemIds)
  <2> DEFINE later == {i \in SystemIds : i > id}
  <2>1. id' = Min(later) /\ phase' = phase /\ stored' = stored
    BY <1>5 DEF NextIdentifier
  <2>2. later \in SUBSET Nat /\ later # {}
    <3>1. id \in Nat /\ Max(SystemIds) \in Nat /\ Max(SystemIds) >= id
      BY <1>1, Identifiers
    <3>2. Max(SystemIds) \in later
      BY <3>1, <1>5, Identifiers
    <3> QED
      BY <3>2, Identifiers
  <2>3. id' \in SystemIds /\ id' > id /\ \A i \in SystemIds : i > id => id' <= i
    BY <2>1, <2>2, MinIsLeast
  <2>4. InformationTypes'
    BY <1>1, <2>1, <2>3 DEF InformationTypes
  <2>5. \A i \in SystemIds : i >= id' => i > id /\ info'[i] = Unlisted /\ i \notin replied'
    BY <1>1, <2>3, Identifiers DEF Reading
  <2>6. \A i \in SystemIds : i < id' => i <= id
    BY <1>1, <2>3, Identifiers
  <2>7. \A i \in SystemIds : i > id' => i >= id'
    BY <2>3, Identifiers
  <2>8. id' >= id'
    BY <2>3, Identifiers
  <2>9. Reading'
    BY <1>1, <1>3, <2>3, <2>5, <2>6, <2>7, <2>8 DEF Reading
  <2> QED
    BY <1>1, <1>2, <2>1, <2>4, <2>9 DEF InformationKept
<1> QED
  BY <1>4, <1>5

(* One that is asked again, or whose attempts ran out.                     *)
LEMMA AskedAgain ==
  ASSUME InformationInv, phase = "information", NEW answered \in BOOLEAN,
         replied' = (IF answered THEN replied \union {id} ELSE replied),
         AsksAgain(answered), reason' = reason
  PROVE  InformationInv'
<1>1. InformationTypes /\ Reading /\ reason = "none" /\ \A i \in SystemIds : Sound(info[i])
  BY DEF InformationInv
<1>2. id \in SystemIds /\ seen \in BOOLEAN /\ attempt \in Nat /\ (seen <=> id \in replied)
  BY <1>1 DEF InformationTypes, Reading
<1>3. id \in replied' <=> seen \/ answered
  BY <1>2
<1>4. CASE attempt < InformationAttempts
  <2>1. attempt' = attempt + 1 /\ seen' = (seen \/ answered) /\ phase' = phase /\ id' = id
        /\ info' = info /\ stored' = stored
    BY <1>4 DEF AsksAgain
  <2>2. InformationTypes'
    BY <1>1, <1>2, <2>1 DEF InformationTypes
  <2>3. \A i \in SystemIds : i < id \/ i > id => i # id
    BY <1>2, Identifiers
  <2>4. \A i \in SystemIds : i # id => (i \in replied' <=> i \in replied)
    OBVIOUS
  <2>5. Reading'
    BY <1>1, <1>3, <2>1, <2>3, <2>4 DEF Reading
  <2> QED
    BY <1>1, <2>1, <2>2, <2>5 DEF InformationInv, InformationKept
<1>5. CASE ~(attempt < InformationAttempts)
  <2> DEFINE e == IF seen \/ answered THEN Given(NaN, FALSE) ELSE Unlisted
  <2>1. NextIdentifier(e)
    BY <1>5 DEF AsksAgain
  <2>2. e \in Entries /\ Sound(e) /\ (e.raw <=> seen \/ answered)
    BY DEF Given, Unlisted, Entries, Sound, NaN
  <2> HIDE DEF e
  <2> QED
    BY <1>3, <2>1, <2>2, IdentifierDone
<1> QED
  BY <1>4, <1>5

(* What a stop stores of the identifier under way.                         *)
LEMMA PartialIsKept ==
  ASSUME InformationInv, phase = "information"
  PROVE  /\ Partial \in [SystemIds -> Entries]
         /\ \A i \in SystemIds : Sound(Partial[i]) /\ (Partial[i].raw <=> i \in replied)
<1>1. InformationTypes /\ Reading /\ \A i \in SystemIds : Sound(info[i])
  BY DEF InformationInv
<1>2. id \in SystemIds /\ info \in [SystemIds -> Entries] /\ (seen <=> id \in replied)
  BY <1>1 DEF InformationTypes, Reading
<1>3. Given(NaN, FALSE) \in Entries /\ Given(NaN, FALSE).raw /\ Sound(Given(NaN, FALSE))
      /\ ~Unlisted.raw
  BY DEF Given, Unlisted, Entries, Sound, NaN
<1>4. \A i \in SystemIds : i # id => (info[i].raw <=> i \in replied)
  <2> SUFFICES ASSUME NEW i \in SystemIds, i # id PROVE info[i].raw <=> i \in replied
    OBVIOUS
  <2>1. i \in Nat /\ id \in Nat
    BY <1>2, Identifiers
  <2>2. i < id \/ (i > id /\ i >= id)
    BY <2>1
  <2> QED
    BY <1>1, <1>3, <2>2 DEF Reading
<1>5. ~seen => ~info[id].raw
  <2>1. id >= id
    BY <1>2, Identifiers
  <2> QED
    BY <1>1, <1>2, <1>3, <2>1 DEF Reading
<1>6. CASE seen
  <2>1. Partial = [info EXCEPT ![id] = Given(NaN, FALSE)]
    BY <1>6 DEF Partial
  <2> QED
    BY <1>1, <1>2, <1>3, <1>4, <1>6, <2>1
<1>7. CASE ~seen
  <2>1. Partial = info
    BY <1>7 DEF Partial
  <2> QED
    BY <1>1, <1>2, <1>4, <1>5, <1>7, <2>1
<1> QED
  BY <1>6, <1>7, <1>2

LEMMA StoppedInformation ==
  ASSUME InformationInv, phase \notin {"planned", "stopped"}, phase' = "stopped",
         NEW why, reason' = why,
         UNCHANGED <<id, seen, attempt, info, replied>>,
         \/ why \in {"user_interrupt", "raised"} /\ stored' = stored
         \/ stored' = IF phase = "information" THEN Partial ELSE stored
  PROVE  InformationInv'
<1>1. InformationTypes /\ InformationKept /\ reason = "none"
      /\ \A i \in SystemIds : Sound(info[i])
  BY DEF InformationInv
<1>2. stored' \in [SystemIds -> Entries]
  BY <1>1, PartialIsKept DEF InformationTypes
<1>3. InformationTypes'
  BY <1>1, <1>2 DEF InformationTypes
<1>4. InformationKept'
  <2>1. CASE phase = "information"
    <3>1. \A i \in SystemIds : Sound(Partial[i]) /\ (Partial[i].raw <=> i \in replied)
      BY <2>1, PartialIsKept
    <3> QED
      BY <2>1, <3>1 DEF InformationKept, Sound
  <2>2. CASE phase # "information"
    BY <1>1, <2>2 DEF InformationKept
  <2> QED
    BY <2>1, <2>2
<1> QED
  BY <1>1, <1>3, <1>4 DEF InformationInv, Reading

(* What changes nothing of the information, once it is read.               *)
LEMMA InformationUntouched ==
  ASSUME InformationInv, phase \notin {"information", "stopped"},
         phase' \notin {"information", "stopped"},
         UNCHANGED <<id, seen, attempt, info, stored, reason, replied>>
  PROVE  InformationInv'
<1>1. InformationTypes'
  BY DEF InformationInv, InformationTypes
<1>2. reason = "none" /\ InformationKept /\ \A i \in SystemIds : Sound(info[i])
  BY DEF InformationInv
<1>3. InformationKept'
  BY <1>2 DEF InformationKept
<1> QED
  BY <1>1, <1>2, <1>3 DEF InformationInv, Reading

LEMMA InformationStays ==
  InformationInv /\ phase' = phase
  /\ UNCHANGED <<id, seen, attempt, info, stored, reason, replied>> => InformationInv'
BY DEF InformationInv, InformationTypes, Reading, InformationKept

LEMMA InformationStep == InformationInv /\ [Next]_vars => InformationInv'
<1> SUFFICES ASSUME InformationInv, [Next]_vars PROVE InformationInv'
  OBVIOUS
<1>0. id \in SystemIds /\ (phase = "information" => (seen <=> id \in replied)) /\ seen \in BOOLEAN
  BY DEF InformationInv, InformationTypes, Reading
<1>1. CASE InformationAnswered
  <2>1. phase = "information" /\ replied' = replied \union {id} /\ reason' = reason
    BY <1>1 DEF InformationAnswered
  <2>2. ASSUME NEW v \in NaN..MaxCount, NextIdentifier(Given(v, FALSE)) PROVE InformationInv'
    <3>1. Given(v, FALSE) \in Entries /\ Given(v, FALSE).raw /\ Sound(Given(v, FALSE))
      BY DiscoveryAssumption DEF Given, Entries, Sound, NaN, DiscoveryAssumption
    <3> QED
      BY <2>1, <2>2, <3>1, IdentifierDone
  <2>3. CASE AsksAgain(TRUE)
    BY <2>1, <2>3, AskedAgain
  <2> QED
    BY <1>1, <2>2, <2>3 DEF InformationAnswered
<1>2. CASE InformationFailed
  <2>1. phase = "information" /\ replied' = replied /\ reason' = reason /\ AsksAgain(FALSE)
    BY <1>2 DEF InformationFailed
  <2> QED
    BY <2>1, AskedAgain
<1>3. CASE InformationRejected
  <2> DEFINE e == [Given(NaN, TRUE) EXCEPT !.raw = seen]
  <2>1. phase = "information" /\ replied' = replied /\ reason' = reason /\ NextIdentifier(e)
    BY <1>3 DEF InformationRejected
  <2> DEFINE g == Given(NaN, TRUE)
  <2>2. g \in Entries /\ g.value = NaN
    BY DEF Given, Entries, NaN
  <2>3. e = [g EXCEPT !.raw = seen]
    OBVIOUS
  <2> HIDE DEF e, g
  <2>4. e \in Entries /\ Sound(e) /\ (e.raw <=> seen)
    BY <1>0, <2>2, <2>3 DEF Entries, Sound
  <2> QED
    BY <1>0, <2>1, <2>4, IdentifierDone
<1>4. CASE OpcodesProbed
  BY <1>4, InformationUntouched DEF OpcodesProbed, asking
<1>5. CASE NamespaceBegins
  BY <1>5, InformationStays DEF NamespaceBegins, asking
<1>6. CASE SlotRead
  BY <1>6, InformationStays DEF SlotRead, asking
<1>7. CASE NamespaceEnds
  BY <1>7, InformationStays DEF NamespaceEnds, asking
<1>8. CASE PlanMade
  BY <1>8, InformationUntouched DEF PlanMade, asking
<1>9. CASE Interrupted
  BY <1>9, StoppedInformation DEF Interrupted, Stop, asking
<1>10. CASE BudgetExhausted
  BY <1>10, StoppedInformation DEF BudgetExhausted, Stop, asking
<1>11. CASE RecoveryExhausted
  BY <1>11, StoppedInformation DEF RecoveryExhausted, Stop, asking
<1>12. CASE NotEnabled
  BY <1>12, StoppedInformation DEF NotEnabled, Stop, asking
<1>13. CASE UNCHANGED vars
  BY <1>13, InformationStays DEF vars, asking
<1> QED
  BY <1>1, <1>2, <1>3, <1>4, <1>5, <1>6, <1>7, <1>8, <1>9, <1>10, <1>11, <1>12, <1>13 DEF Next

-----------------------------------------------------------------------------
(* The slots of a namespace, and the namespace whose turn it is.           *)
Marks == {"none", "present", "absent", "unknown"}
Markable(ns) ==
  IF ~Instanced(ns) THEN {0}
  ELSE (IiMin(ns)..IiMax(ns)) \union (IF Group(ns) \in UnknownGroups THEN {255} ELSE {})

LEMMA Sizes ==
  /\ CircuitMax \in Nat \ {0} /\ RemoteMax \in Nat \ {0} /\ LocalMax \in Nat \ {0}
  /\ KnownGroups \subseteq 0..17 /\ UnknownGroups \subseteq 18..255
BY DiscoveryAssumption DEF DiscoveryAssumption

LEMMA Ranges ==
  ASSUME NEW ns
  PROVE  /\ IiMax(ns) \in {0, 1, CircuitMax, RemoteMax, LocalMax} /\ IiMax(ns) \in Nat
         /\ IiMin(ns) \in {0, 1} /\ (Instanced(ns) => IiMin(ns) <= IiMax(ns))
<1>1. IiMax(ns) \in {0, 1, CircuitMax, RemoteMax, LocalMax}
  BY DEF IiMax
<1>2. IiMin(ns) \in {0, 1}
  BY DEF IiMin
<1>3. IiMax(ns) \in Nat
  BY <1>1, Sizes
<1> QED
  BY <1>1, <1>2, <1>3 DEF Instanced

LEMMA Pairs ==
  ASSUME NEW ns \in Namespaces
  PROVE  /\ ns = <<Op(ns), Group(ns)>> /\ Op(ns) \in {2, 6}
         /\ Group(ns) \in KnownGroups \union UnknownGroups
         /\ Group(ns) \in 0..255 /\ (Group(ns) \in UnknownGroups => Group(ns) > 17)
<1>1. /\ ns = <<Op(ns), Group(ns)>> /\ Op(ns) \in {2, 6}
      /\ Group(ns) \in KnownGroups \union UnknownGroups
  BY DEF Namespaces, Op, Group
<1>2. \A gg \in KnownGroups : gg \in 0..17
  BY Sizes
<1>3. \A gg \in UnknownGroups : gg \in 18..255
  BY Sizes
<1>4. \A gg \in 0..17 : gg \in 0..255
  OBVIOUS
<1>5. \A gg \in 18..255 : gg \in 0..255 /\ gg > 17
  OBVIOUS
<1> QED
  BY <1>1, <1>2, <1>3, <1>4, <1>5

LEMMA SlotsAre ==
  /\ Slots \subseteq Nat /\ IsFiniteSet(Slots) /\ 255 \in Slots
  /\ \A ns : \A ii \in 0..IiMax(ns) : ii \in Slots
<1> DEFINE sizes == {CircuitMax, RemoteMax, LocalMax, 1}
           top == Max(sizes)
           sum == CircuitMax + RemoteMax + LocalMax + 1
<1>1. sum \in Nat /\ sizes \in SUBSET (0..sum) /\ sizes # {}
  <2>1. /\ CircuitMax \in Nat /\ RemoteMax \in Nat /\ LocalMax \in Nat
    BY Sizes
  <2>2. sum \in Nat /\ CircuitMax \in 0..sum /\ RemoteMax \in 0..sum /\ LocalMax \in 0..sum
        /\ 1 \in 0..sum
    BY <2>1
  <2> HIDE DEF sum
  <2> QED
    BY <2>2
<1>2. top \in sizes /\ \A y \in sizes : top >= y
  <2> HIDE DEF sizes, sum
  <2> QED
    BY <1>1, MaxIsGreatest
<1>3. top \in Nat
  BY <1>2, Sizes
<1>4. Slots = 0..top \union {255}
  BY DEF Slots
<1>5. \A ns : \A ii \in 0..IiMax(ns) : ii \in Slots
  <2> SUFFICES ASSUME NEW ns, NEW ii \in 0..IiMax(ns) PROVE ii \in Slots
    OBVIOUS
  <2>1. IiMax(ns) \in Nat /\ IiMax(ns) <= top
    <3>1. IiMax(ns) = 0 \/ IiMax(ns) \in sizes
      BY Ranges
    <3> QED
      BY <1>2, <1>3, <3>1, Ranges
  <2> HIDE DEF top, sizes
  <2> QED
    BY <1>3, <1>4, <2>1
<1>6. IsFiniteSet(0..top)
  <2> HIDE DEF top
  <2> QED
    BY <1>3, FS_Interval
<1>7. IsFiniteSet(Slots)
  <2> HIDE DEF top
  <2> QED
    BY <1>4, <1>6, FS_AddElement
<1> HIDE DEF top
<1> QED
  BY <1>3, <1>4, <1>5, <1>7

LEMMA WindowIsMarkable ==
  ASSUME NEW ns \in Namespaces
  PROVE  Window(ns) \subseteq Markable(ns) /\ Markable(ns) \subseteq Slots
<1>1. IiMax(ns) \in Nat /\ IiMin(ns) \in {0, 1} /\ (Instanced(ns) => IiMin(ns) <= IiMax(ns))
  BY Ranges
<1>2. Markable(ns) \subseteq Slots
  BY <1>1, SlotsAre DEF Markable
<1>3. CASE Group(ns) \in UnknownGroups
  <2>1. Op(ns) \in {2, 6} /\ Group(ns) > 17 /\ Group(ns) \in Nat
    BY <1>3, Pairs
  <2>2. IiMax(ns) \in {RemoteMax, LocalMax}
    <3>1. ns # Circuits
      BY <2>1 DEF Circuits, Group
    <3> QED
      BY <2>1, <3>1 DEF IiMax
  <2>3. Instanced(ns)
    BY <2>2, Sizes DEF Instanced
  <2> QED
    BY <1>2, <1>3, <2>3 DEF Window, Markable
<1>4. CASE Group(ns) \notin UnknownGroups /\ ~Instanced(ns)
  BY <1>2, <1>4 DEF Window, Markable
<1>5. CASE Group(ns) \notin UnknownGroups /\ Instanced(ns)
  <2>1. Ordinary(ns) \subseteq IiMin(ns)..IiMax(ns)
    BY <1>1, <1>5 DEF Ordinary
  <2>2. ns = Circuits => CircuitMax \in IiMin(ns)..IiMax(ns)
    <3>1. ns = Circuits => IiMax(ns) = CircuitMax
      BY DEF IiMax, Circuits, Op, Group
    <3> QED
      BY <1>1, <1>5, <3>1
  <2> QED
    BY <1>2, <1>5, <2>1, <2>2 DEF Window, Markable
<1> QED
  BY <1>3, <1>4, <1>5

LEMMA FirstIsOne ==
  ASSUME todo \subseteq Namespaces, todo # {}
  PROVE  First \in todo
<1> DEFINE Key(ns) == 256 * Op(ns) + Group(ns)
           keys == {Key(ns) : ns \in todo}
<1>1. \A ns \in todo : Op(ns) \in {2, 6} /\ Group(ns) \in 0..255 /\ ns = <<Op(ns), Group(ns)>>
  BY Pairs
<1>2. \A ns \in todo : Key(ns) \in Nat
  BY <1>1
<1>3. keys \in SUBSET Nat /\ keys # {}
  BY <1>2
<1>4. PICK k \in keys : \A l \in keys : k <= l
  <2> HIDE DEF keys
  <2> QED
    BY <1>3, LeastNatural
<1>5. PICK ns \in todo : k = Key(ns)
  BY <1>4
<1>6. ASSUME NEW other \in todo \ {ns}
      PROVE  Op(ns) < Op(other) \/ (Op(ns) = Op(other) /\ Group(ns) < Group(other))
  <2>1. Key(ns) <= Key(other)
    BY <1>4, <1>5
  <2>2. Op(ns) # Op(other) \/ Group(ns) # Group(other)
    BY <1>1
  <2>3. /\ Op(ns) \in {2, 6} /\ Group(ns) \in 0..255
        /\ Op(other) \in {2, 6} /\ Group(other) \in 0..255
    BY <1>1
  <2>4. 256 * Op(ns) + Group(ns) <= 256 * Op(other) + Group(other)
    BY <2>1
  <2>5. PICK a \in {2, 6}, b \in {2, 6}, c \in 0..255, d \in 0..255 :
          a = Op(ns) /\ b = Op(other) /\ c = Group(ns) /\ d = Group(other)
    BY <2>3
  <2>6. 256 * a + c <= 256 * b + d /\ (a # b \/ c # d)
    BY <2>2, <2>4, <2>5
  <2>7. a < b \/ (a = b /\ c < d)
    BY <2>6
  <2> QED
    BY <2>5, <2>7
<1>7. \E n \in todo : \A other \in todo \ {n} :
        Op(n) < Op(other) \/ (Op(n) = Op(other) /\ Group(n) < Group(other))
  BY <1>6
<1> QED
  BY <1>7 DEF First

(* One read says present, absent or unknown, whatever it is a read of.     *)
LEMMA Verdicts ==
  ASSUME NEW op, NEW gg, NEW p, NEW a
  PROVE  Verdict(op, gg, p, a) \in {"present", "absent", "unknown"}
<1> DEFINE sure == IF Positive(Contract(op, gg, p), p, Entry(a).value) THEN "present" ELSE "absent"
<1>1. sure \in {"present", "absent"}
  OBVIOUS
<1>2. Verdict(op, gg, p, a) \in {"present", "unknown", "absent", sure}
  BY Zenon DEF Verdict
<1> QED
  BY <1>1, <1>2

LEMMA DeviceContract ==
  ASSUME NEW ns \in Namespaces, IsDevice(ns)
  PROVE  /\ Contract(Op(ns), Group(ns), profile) = "device" /\ Group(ns) \notin UnknownGroups
         /\ Group(ns) \in KnownGroups /\ ns # Circuits /\ Instanced(ns)
         /\ Capacity(ns) = NaN
<1>1. Op(ns) = 6 /\ Group(ns) \in ConnectedDeviceGroups /\ ns = <<Op(ns), Group(ns)>>
  BY DEF IsDevice, Namespaces, Op, Group
<1>2. Contract(Op(ns), Group(ns), profile) = "device"
  BY <1>1 DEF Contract
<1>3. Group(ns) \in 0..17
  BY <1>1 DEF ConnectedDeviceGroups
<1>4. Group(ns) \in KnownGroups \union UnknownGroups
  BY DEF Namespaces, Group
<1>5. ns # Circuits /\ IiMax(ns) = RemoteMax
  BY <1>1 DEF Circuits, IiMax, Op
<1>6. CountId(ns) \notin CapacityIds
  BY <1>1 DEF CountId, CapacityIds, NaN
<1> QED
  BY <1>2, <1>3, <1>4, <1>5, <1>6, Sizes DEF Instanced, Capacity

-----------------------------------------------------------------------------
(* The instances.  A namespace that waits has no mark; what is marked, and *)
(* what is still to be probed, are slots of the namespace.                 *)
InstancesTypes ==
  /\ todo \subseteq Namespaces /\ entered \in BOOLEAN /\ incomplete \in BOOLEAN
  /\ window \subseteq Slots /\ verdicts \in [Slots -> Marks] /\ held \in Marks
  /\ marks \in [Namespaces -> SUBSET Slots]
  /\ complete \in [Namespaces -> {"none", "yes", "no"}]
InstancesOrder ==
  /\ phase \in {"information", "opcodes"} \/ preset = "explicit" =>
       todo = {} /\ ~entered /\ \A ns \in Namespaces : marks[ns] = {}
  /\ phase = "information" => ~incomplete
  /\ entered => todo # {}
  /\ \A ns \in todo : marks[ns] = {} \/ (entered /\ ns = First)
MarksInv ==
  /\ \A ns \in Namespaces : marks[ns] \subseteq Markable(ns)
  /\ entered => window \subseteq Markable(First) /\ Confirmed \subseteq Markable(First)

(* A device group is probed in order and to the end, unless the count is   *)
(* reached or, without a count, an absence ended it: then the slots before *)
(* the absence were all seen, and none of them absent.                     *)
EndedEarly(ns) ==
  \/ Expected(ns) # NaN /\ Cardinality(Confirmed) >= Expected(ns)
  \/ /\ Expected(ns) = NaN
     /\ \E ii \in IiMin(ns)..IiMax(ns) :
          /\ verdicts[ii] = "absent"
          /\ \A jj \in IiMin(ns)..(ii - 1) : verdicts[jj] \notin {"none", "absent"}
Underway(ns) ==
  /\ window = {ii \in Window(ns) : verdicts[ii] = "none"}
  /\ \A ii \in window : \A jj \in Window(ns) : jj \notin window => jj < ii
  /\ Recommended /\ Expected(ns) = NaN => \A jj \in Window(ns) : verdicts[jj] # "absent"
Covered ==
  entered /\ IsDevice(First) =>
    /\ marks[First] = Confirmed
    /\ Underway(First) \/ (window = {} /\ Recommended /\ EndedEarly(First))
InstancesInv == InstancesTypes /\ InstancesOrder /\ MarksInv /\ Covered

LEMMA InitInstances == Init => InstancesInv
<1> SUFFICES ASSUME Init PROVE InstancesInv
  OBVIOUS
<1>1. InstancesTypes
  BY DEF Init, InstancesTypes, Unprobed, Marks
<1> QED
  BY <1>1 DEF Init, InstancesInv, InstancesOrder, MarksInv, Covered

(* What is defined of variables that a step leaves alone stays as it is.   *)
LEMMA SameDefinitions ==
  ASSUME UNCHANGED <<preset, profile, info>>
  PROVE  /\ Recommended' = Recommended
         /\ \A ns : Window(ns)' = Window(ns) /\ Markable(ns)' = Markable(ns)
         /\ \A ns : Expected(ns)' = Expected(ns) /\ IiMin(ns)' = IiMin(ns)
<1>1. Recommended' = Recommended
  BY Zenon DEF Recommended
<1>2. \A ns : IiMin(ns)' = IiMin(ns)
  BY Zenon DEF IiMin
<1>3. \A i : Value(i)' = Value(i)
  BY Zenon DEF Value
<1>4. \A ns : CountCapacity(ns)' = CountCapacity(ns)
  BY Zenon DEF CountCapacity
<1>5. \A ns : Expected(ns)' = Expected(ns)
  BY <1>3, <1>4, Zenon DEF Expected
<1>6. \A ns : Capacity(ns)' = Capacity(ns)
  BY <1>3, Zenon DEF Capacity
<1>7. \A ns : Ordinary(ns)' = Ordinary(ns)
  BY <1>1, <1>2, <1>5, <1>6, Zenon DEF Ordinary
<1>8. \A ns : Window(ns)' = Window(ns)
  BY <1>2, <1>7, Zenon DEF Window
<1>9. \A ns : Markable(ns)' = Markable(ns)
  BY <1>2, Zenon DEF Markable
<1> QED
  BY <1>1, <1>2, <1>5, <1>8, <1>9

(* The probes of a device group are all of its slots, or none at all.      *)
LEMMA DeviceWindow ==
  ASSUME NEW ns \in Namespaces, IsDevice(ns)
  PROVE  /\ Window(ns) = IF Recommended /\ Expected(ns) = 0 THEN {} ELSE IiMin(ns)..IiMax(ns)
         /\ Markable(ns) = IiMin(ns)..IiMax(ns)
<1>1. /\ Group(ns) \notin UnknownGroups /\ ns # Circuits /\ Instanced(ns)
      /\ Capacity(ns) = NaN
  BY DeviceContract
<1>2. ns # <<2, 9>>
  BY DEF IsDevice, Op
<1>3. Window(ns) = Ordinary(ns)
  BY <1>1 DEF Window
<1>4. Capacity(ns) # 0
  BY <1>1 DEF NaN
<1>5. Ordinary(ns) = IF Recommended /\ Expected(ns) = 0 THEN {} ELSE IiMin(ns)..IiMax(ns)
  BY <1>1, <1>2, <1>4 DEF Ordinary
<1> QED
  BY <1>1, <1>3, <1>5 DEF Markable

(* A namespace ends, or the instances begin, with nothing entered.         *)
LEMMA NotEntered ==
  ASSUME InstancesInv, InstancesTypes', ~entered', \A ns \in todo' : marks'[ns] = {},
         phase' = "instances",
         preset = "explicit" => todo' = {} /\ \A ns \in Namespaces : marks'[ns] = {},
         \A ns \in Namespaces : marks'[ns] \subseteq Markable(ns), UNCHANGED <<preset, profile>>
  PROVE  InstancesInv'
<1>1. \A ns : Markable(ns)' = Markable(ns)
  <2>1. \A ns : IiMin(ns)' = IiMin(ns)
    BY Zenon DEF IiMin
  <2> QED
    BY <2>1, Zenon DEF Markable
<1>2. MarksInv' /\ Covered'
  BY <1>1 DEF MarksInv, Covered
<1>3. InstancesOrder'
  BY DEF InstancesInv, InstancesOrder
<1> QED
  BY <1>2, <1>3 DEF InstancesInv

(* Of what no action after the information changes the marks depend.       *)
LEMMA InstancesStay ==
  ASSUME InstancesInv, UNCHANGED <<preset, profile, slots, verdicts, marks, complete, incomplete>>,
         UNCHANGED info,
         phase' = phase \/ phase' \in {"planned", "stopped"}
  PROVE  InstancesInv'
<1>1. /\ First' = First /\ Confirmed' = Confirmed /\ IsDevice(First)' = IsDevice(First)
  BY Zenon DEF First, Confirmed, IsDevice, slots
<1>2. InstancesTypes'
  BY DEF InstancesInv, InstancesTypes, slots
<1>3. InstancesOrder'
  BY <1>1 DEF InstancesInv, InstancesOrder, slots
<1>4. MarksInv'
  BY <1>1, SameDefinitions DEF InstancesInv, MarksInv, slots
<1>5. Covered'
  <2>1. /\ \A ns : Window(ns)' = Window(ns) /\ Expected(ns)' = Expected(ns)
                    /\ IiMin(ns)' = IiMin(ns)
        /\ Recommended' = Recommended
    BY SameDefinitions
  <2>2. window' = window /\ verdicts' = verdicts /\ marks' = marks /\ entered' = entered
    BY DEF slots
  <2>3. \A ns : Underway(ns)' <=> Underway(ns)
    BY <2>1, <2>2, Zenon DEF Underway
  <2>4. \A ns : EndedEarly(ns)' <=> EndedEarly(ns)
    BY <1>1, <2>1, <2>2, Zenon DEF EndedEarly
  <2>5. Underway(First)' <=> Underway(First)
    BY <1>1, <2>3
  <2>6. EndedEarly(First)' <=> EndedEarly(First)
    BY <1>1, <2>4
  <2> QED
    BY <1>1, <2>1, <2>2, <2>5, <2>6, Zenon DEF InstancesInv, Covered
<1> QED
  BY <1>2, <1>3, <1>4, <1>5 DEF InstancesInv

(* The information is read before there is any instance.                   *)
LEMMA InformationIsFirst ==
  ASSUME InstancesInv, phase = "information", phase' \in {"information", "opcodes"},
         UNCHANGED <<preset, profile, slots, verdicts, marks, complete>>,
         incomplete' \in BOOLEAN, phase' = "information" => incomplete' = incomplete
  PROVE  InstancesInv'
<1>1. InstancesTypes /\ todo = {} /\ ~entered /\ (\A ns \in Namespaces : marks[ns] = {})
      /\ ~incomplete
  BY DEF InstancesInv, InstancesOrder
<1>2. InstancesTypes'
  BY <1>1 DEF InstancesTypes, slots
<1>3. InstancesOrder'
  BY <1>1 DEF InstancesOrder, slots
<1>4. MarksInv' /\ Covered'
  BY <1>1 DEF MarksInv, Covered, slots
<1> QED
  BY <1>2, <1>3, <1>4 DEF InstancesInv

LEMMA IdentifierReports ==
  ASSUME InstancesInv, InformationInv, phase = "information", NEW e \in Entries, NextIdentifier(e)
  PROVE  /\ phase' \in {"information", "opcodes"} /\ incomplete' \in BOOLEAN
         /\ phase' = "information" => incomplete' = incomplete
<1>1. incomplete \in BOOLEAN
  BY DEF InstancesInv, InstancesTypes
<1> QED
  BY <1>1 DEF NextIdentifier

LEMMA AskingReports ==
  ASSUME InstancesInv, InformationInv, phase = "information", NEW answered \in BOOLEAN,
         AsksAgain(answered)
  PROVE  /\ phase' \in {"information", "opcodes"} /\ incomplete' \in BOOLEAN
         /\ phase' = "information" => incomplete' = incomplete
<1>1. incomplete \in BOOLEAN
  BY DEF InstancesInv, InstancesTypes
<1>2. Given(NaN, FALSE) \in Entries /\ Unlisted \in Entries
  BY DEF Given, Unlisted, Entries, NaN
<1> QED
  BY <1>1, <1>2, IdentifierReports DEF AsksAgain

LEMMA OpcodesProbedKeeps == InstancesInv /\ OpcodesProbed => InstancesInv'
<1> SUFFICES ASSUME InstancesInv, OpcodesProbed PROVE InstancesInv'
  OBVIOUS
<1>1. /\ InstancesTypes /\ todo = {} /\ ~entered /\ \A ns \in Namespaces : marks[ns] = {}
  BY DEF InstancesInv, InstancesOrder, OpcodesProbed
<1>2. /\ phase' = "instances" /\ todo' = Targets' /\ marks' = marks /\ entered' = entered
      /\ UNCHANGED <<preset, profile>>
  BY DEF OpcodesProbed, findings
<1>3. Targets' \subseteq Namespaces
  BY DEF Targets
<1>4. InstancesTypes'
  BY <1>1, <1>2, <1>3 DEF InstancesTypes, OpcodesProbed, findings
<1>5. preset = "explicit" => todo' = {}
  <2>1. preset' = "explicit" => \A gg : Discovered(gg)' = {}
    BY DEF Discovered
  <2> QED
    BY <1>2, <2>1 DEF Targets
<1> QED
  BY <1>1, <1>2, <1>3, <1>4, <1>5, NotEntered

LEMMA NamespaceBeginsKeeps == InstancesInv /\ NamespaceBegins => InstancesInv'
<1> SUFFICES ASSUME InstancesInv, NamespaceBegins PROVE InstancesInv'
  OBVIOUS
<1>1. /\ InstancesTypes /\ MarksInv /\ todo # {} /\ ~entered /\ First \in todo /\ First \in Namespaces
      /\ preset # "explicit" /\ (\A ns \in todo : marks[ns] = {}) /\ phase = "instances"
  BY FirstIsOne DEF InstancesInv, InstancesOrder, InstancesTypes, NamespaceBegins
<1>2. /\ entered' = TRUE /\ window' = Window(First) /\ verdicts' = Unprobed /\ todo' = todo
      /\ marks' = IF Instanced(First) \/ First = NativeDHW THEN marks
                  ELSE [marks EXCEPT ![First] = {0}]
      /\ UNCHANGED <<preset, profile, info, phase, complete, incomplete, held>>
  BY DEF NamespaceBegins
<1>3. First' = First
  BY <1>2, Zenon DEF First
<1>4. Window(First) \subseteq Markable(First) /\ Markable(First) \subseteq Slots
  BY <1>1, WindowIsMarkable
<1>5. 0 \in Slots
  BY SlotsAre, Ranges
<1>6. marks' \in [Namespaces -> SUBSET Slots]
      /\ \A ns \in Namespaces : ns # First => marks'[ns] = marks[ns]
  BY <1>1, <1>2, <1>5 DEF InstancesTypes
<1>7. InstancesTypes'
  <2>1. verdicts' \in [Slots -> Marks]
    BY <1>2 DEF Unprobed, Marks
  <2> QED
    BY <1>1, <1>2, <1>4, <1>6, <2>1 DEF InstancesTypes
<1>8. InstancesOrder'
  <2>1. \A ns \in todo' : marks'[ns] = {} \/ (entered' /\ ns = First')
    BY <1>1, <1>2, <1>3, <1>6 DEF InstancesTypes
  <2> QED
    BY <1>1, <1>2, <2>1 DEF InstancesOrder
<1>9. Confirmed' = {}
  BY <1>2 DEF Confirmed, Unprobed
<1>10. MarksInv'
  <2>1. \A ns \in Namespaces : marks'[ns] \subseteq Markable(ns)
    <3>1. CASE Instanced(First) \/ First = NativeDHW
      BY <1>1, <1>2, <3>1 DEF MarksInv
    <3>2. CASE ~(Instanced(First) \/ First = NativeDHW)
      <4>1. marks'[First] = {0} /\ Markable(First) = {0}
        BY <1>1, <1>2, <3>2 DEF InstancesTypes, Markable
      <4> QED
        BY <1>1, <1>6, <4>1 DEF MarksInv
    <3> QED
      BY <3>1, <3>2
  <2>2. \A ns : Markable(ns)' = Markable(ns)
    BY <1>2, SameDefinitions
  <2>3. window' \subseteq Markable(First)' /\ Confirmed' \subseteq Markable(First)'
    BY <1>2, <1>3, <1>4, <1>9, <2>2
  <2> QED
    BY <2>1, <2>2, <2>3 DEF MarksInv
<1>11. Covered'
  <2> SUFFICES ASSUME IsDevice(First)
               PROVE  /\ marks'[First] = Confirmed'
                      /\ Underway(First)'
    BY <1>3 DEF Covered, IsDevice
  <2>1. marks'[First] = {}
    BY <1>1, <1>2, DeviceContract
  <2>2. Window(First)' = window'
    <3>1. \A ns : Window(ns)' = Window(ns)
      BY <1>2, SameDefinitions
    <3> QED
      BY <1>2, <1>3, <3>1
  <2>3. \A ii \in Slots : verdicts'[ii] = "none"
    BY <1>2 DEF Unprobed
  <2>4. window' \subseteq Slots
    BY <1>2, <1>4
  <2>5. Underway(First)'
    BY <1>3, <2>2, <2>3, <2>4 DEF Underway
  <2> QED
    BY <1>9, <2>1, <2>5
<1> QED
  BY <1>7, <1>8, <1>10, <1>11 DEF InstancesInv

(* A read of a slot leaves it open, or says what it is.                    *)
LEMMA SlotReadDoes ==
  ASSUME InstancesInv, SlotRead
  PROVE  /\ First \in todo /\ First \in Namespaces /\ Min(window) \in window
         /\ \A ii \in window : Min(window) <= ii
         /\ held' \in Marks
         /\ \/ UNCHANGED <<verdicts, marks, window>> /\ ~IsDevice(First)
            \/ \E v \in Marks : Settle(Min(window), v)
                                /\ (IsDevice(First) => v # "none")
<1>1. /\ InstancesTypes /\ First \in todo /\ First \in Namespaces /\ window # {}
      /\ window \subseteq Nat
  BY FirstIsOne, SlotsAre DEF InstancesInv, InstancesOrder, InstancesTypes, SlotRead
<1>2. Min(window) \in window /\ \A ii \in window : Min(window) <= ii
  BY <1>1, MinIsLeast
<1>3. PICK a \in Answers :
        IF Group(First) \in UnknownGroups
        THEN IF ReadableValue(a) THEN Settle(Min(window), "present")
             ELSE IF step = 1 THEN Settle(Min(window), "none") ELSE ReadOn("none")
        ELSE IF Contract(Op(First), Group(First), profile) # "header"
        THEN Settle(Min(window), Verdict(Op(First), Group(First), profile, a))
        ELSE IF step = 0
        THEN ReadOn(Verdict(Op(First), Group(First), profile, a))
        ELSE IF ReadableValue(a) THEN Settle(Min(window), "present")
        ELSE IF step = HeaderReads - 1 THEN Settle(Min(window), held) ELSE ReadOn(held)
  BY Zenon DEF SlotRead
<1> DEFINE v == Verdict(Op(First), Group(First), profile, a)
<1>4. v \in {"present", "absent", "unknown"}
  BY Verdicts
<1> HIDE DEF v
<1>5. IsDevice(First) =>
        Contract(Op(First), Group(First), profile) = "device" /\ Group(First) \notin UnknownGroups
  BY <1>1, DeviceContract
<1>6. IF Group(First) \in UnknownGroups
      THEN \/ Settle(Min(window), "present") \/ Settle(Min(window), "none") \/ ReadOn("none")
      ELSE IF Contract(Op(First), Group(First), profile) # "header"
      THEN Settle(Min(window), v)
      ELSE \/ ReadOn(v) \/ Settle(Min(window), "present")
           \/ Settle(Min(window), held) \/ ReadOn(held)
  BY <1>3, Zenon DEF v
<1>7. held \in Marks /\ v \in Marks /\ "present" \in Marks /\ "none" \in Marks
  BY <1>1, <1>4 DEF InstancesTypes, Marks
<1>8. CASE IsDevice(First)
  <2>1. Settle(Min(window), v) /\ v # "none"
    BY <1>4, <1>5, <1>6, <1>8
  <2>2. held' \in Marks
    BY <1>7, <2>1 DEF Settle
  <2> QED
    BY <1>1, <1>2, <1>7, <2>1, <2>2
<1>9. CASE ~IsDevice(First)
  <2>1. \/ \E w \in Marks : Settle(Min(window), w)
        \/ \E w \in Marks : ReadOn(w)
    BY <1>6, <1>7
  <2>2. held' \in Marks
    BY <1>7, <2>1 DEF Settle, ReadOn
  <2>3. (\E w \in Marks : ReadOn(w)) => UNCHANGED <<verdicts, marks, window>>
    BY DEF ReadOn
  <2> QED
    BY <1>1, <1>2, <1>9, <2>1, <2>2, <2>3
<1> QED
  BY <1>8, <1>9

LEMMA ExpectedType == InformationTypes => \A ns : Expected(ns) \in Int
<1>1. InformationTypes => \A i : Value(i) \in Int
  BY DEF InformationTypes, Entries, Value, NaN
<1> QED
  BY <1>1 DEF Expected, NaN

(* A device group's next slot is settled.                                  *)
LEMMA DeviceSlotKeeps ==
  ASSUME InstancesInv, InformationTypes, entered, IsDevice(First), First \in Namespaces,
         NEW ii \in window, \A jj \in window : ii <= jj,
         NEW v \in Marks, v # "none", Settle(ii, v),
         First' = First, UNCHANGED <<preset, profile, info>>
  PROVE  marks'[First] = Confirmed' /\
         (Underway(First)' \/ (window' = {} /\ Recommended' /\ EndedEarly(First)'))
<1> DEFINE W == Window(First)
           E == Expected(First)
           n == Cardinality(Confirmed) + (IF v = "present" THEN 1 ELSE 0)
<1>1. /\ InstancesTypes /\ marks[First] = Confirmed /\ Underway(First)
  BY DEF InstancesInv, Covered
<1>2. /\ W = (IF Recommended /\ E = 0 THEN {} ELSE IiMin(First)..IiMax(First))
      /\ Group(First) \in KnownGroups /\ Op(First) = 6 /\ Group(First) \in ConnectedDeviceGroups
  BY DeviceWindow, DeviceContract DEF IsDevice
<1>3. /\ verdicts' = [verdicts EXCEPT ![ii] = v] /\ ii \in Slots /\ Slots \subseteq Nat
      /\ marks' = IF v = "present" THEN [marks EXCEPT ![First] = @ \union {ii}] ELSE marks
      /\ window' = IF Enough(First, v, n) THEN {} ELSE window \ {ii}
  BY <1>1, <1>2, SlotsAre DEF Settle, InstancesTypes
<1>4. /\ \A x \in window : x \in W /\ verdicts[x] = "none"
      /\ \A x \in W : x \in window <=> verdicts[x] = "none"
      /\ \A x \in W : x \notin window => \A y \in window : x < y
      /\ Recommended /\ E = NaN => \A x \in W : verdicts[x] # "absent"
  BY <1>1 DEF Underway
<1>5. /\ W' = W /\ E' = E /\ Recommended' = Recommended /\ IiMin(First)' = IiMin(First)
      /\ IiMax(First)' = IiMax(First)
  <2>1. \A ns : Window(ns)' = Window(ns) /\ Expected(ns)' = Expected(ns) /\ IiMin(ns)' = IiMin(ns)
    BY SameDefinitions
  <2>2. Recommended' = Recommended
    BY SameDefinitions
  <2> QED
    BY <2>1, <2>2 DEF IiMax
<1>6. IiMin(First) \in Nat /\ IiMax(First) \in Nat /\ IiMin(First) <= IiMax(First)
  BY Ranges, DeviceContract
<1>7. Confirmed' = IF v = "present" THEN Confirmed \union {ii} ELSE Confirmed
  <2>1. verdicts[ii] = "none"
    BY <1>4
  <2> QED
    BY <1>1, <1>3, <2>1 DEF Confirmed, InstancesTypes
<1>8. marks'[First] = Confirmed'
  BY <1>1, <1>3, <1>7 DEF InstancesTypes
<1>9. Cardinality(Confirmed') = n /\ n \in Nat
  <2>1. IsFiniteSet(Confirmed)
    BY SlotsAre, FS_Subset DEF Confirmed
  <2>2. ii \notin Confirmed
    BY <1>4 DEF Confirmed
  <2>3. Cardinality(Confirmed) \in Nat
    BY <2>1, FS_CardinalityType
  <2>4. Cardinality(Confirmed \union {ii}) = Cardinality(Confirmed) + 1
    BY <2>1, <2>2, FS_AddElement
  <2>5. CASE v = "present"
    BY <1>7, <2>3, <2>4, <2>5
  <2>6. CASE v # "present"
    BY <1>7, <2>3, <2>6
  <2> QED
    BY <2>5, <2>6
<1> HIDE DEF W, E, n
<1>10. CASE ~Enough(First, v, n)
  <2>1. window' = window \ {ii}
    BY <1>3, <1>10
  <2>2. Recommended /\ E = NaN => v # "absent"
    BY <1>2, <1>10 DEF Enough, E, NaN
  <2>3. window' = {x \in W' : verdicts'[x] = "none"}
    <3>1. \A x \in W : x \in window' <=> verdicts'[x] = "none"
      <4> SUFFICES ASSUME NEW x \in W PROVE x \in window' <=> verdicts'[x] = "none"
        OBVIOUS
      <4>1. x \in Slots
        BY <1>6, <1>2, SlotsAre
      <4> QED
        BY <1>1, <1>3, <1>4, <2>1, <4>1 DEF InstancesTypes
    <3>2. \A x \in window' : x \in W
      BY <1>4, <2>1
    <3> QED
      BY <1>5, <3>1, <3>2
  <2>4. \A x \in window' : \A y \in W' : y \notin window' => y < x
    <3> SUFFICES ASSUME NEW x \in window', NEW y \in W, y \notin window' PROVE y < x
      BY <1>5
    <3>1. x \in window /\ x # ii /\ ii <= x /\ x \in Nat /\ ii \in Nat
      BY <1>1, <1>3, <2>1 DEF InstancesTypes
    <3>2. CASE y = ii
      BY <3>1, <3>2
    <3>3. CASE y # ii
      BY <1>4, <2>1, <3>1, <3>3
    <3> QED
      BY <3>2, <3>3
  <2>5. Recommended' /\ E' = NaN => \A x \in W' : verdicts'[x] # "absent"
    <3> SUFFICES ASSUME Recommended, E = NaN, NEW x \in W PROVE verdicts'[x] # "absent"
      BY <1>5
    <3>1. x \in Slots
      BY <1>6, <1>2, SlotsAre
    <3> QED
      BY <1>1, <1>3, <1>4, <2>2, <3>1 DEF InstancesTypes
  <2>6. Underway(First)'
    BY <2>3, <2>4, <2>5 DEF Underway, W, E
  <2> QED
    BY <1>8, <2>6
<1>11. CASE Enough(First, v, n)
  <2>1. window' = {} /\ Recommended
    BY <1>3, <1>11 DEF Enough
  <2>2. CASE E > 0
    <3>1. n >= E
      BY <1>11, <2>2 DEF Enough, E
    <3> QED
      BY <1>5, <1>8, <1>9, <2>1, <2>2, <3>1 DEF EndedEarly, E, NaN
  <2>3. CASE ~(E > 0) /\ E # NaN
    <3>1. E \in Int
      BY ExpectedType DEF E
    <3>2. n >= E
      BY <1>9, <2>3, <3>1
    <3> QED
      BY <1>5, <1>8, <1>9, <2>1, <2>3, <3>2 DEF EndedEarly, E
  <2>4. CASE E = NaN
    <3>1. v = "absent" /\ W = IiMin(First)..IiMax(First)
      BY <1>2, <1>11, <2>4 DEF Enough, E, NaN
    <3>2. ii \in IiMin(First)..IiMax(First) /\ verdicts'[ii] = "absent"
      BY <1>1, <1>3, <1>4, <3>1 DEF InstancesTypes
    <3>3. \A jj \in IiMin(First)..(ii - 1) : verdicts'[jj] \notin {"none", "absent"}
      <4> SUFFICES ASSUME NEW jj \in IiMin(First)..(ii - 1)
                   PROVE  verdicts'[jj] \notin {"none", "absent"}
        OBVIOUS
      <4>1. jj \in W /\ jj < ii /\ jj \in Nat /\ ii \in Nat
        BY <1>6, <3>1, <3>2
      <4>2. jj \notin window
        BY <4>1
      <4>3. jj \in Slots
        BY <1>6, <3>1, <4>1, SlotsAre
      <4> QED
        BY <1>1, <1>3, <1>4, <2>1, <2>4, <4>1, <4>2, <4>3 DEF InstancesTypes
    <3>4. EndedEarly(First)'
      BY <1>5, <2>4, <3>2, <3>3 DEF EndedEarly, E
    <3> QED
      BY <1>5, <1>8, <2>1, <3>4
  <2> QED
    BY <2>2, <2>3, <2>4
<1> QED
  BY <1>10, <1>11

LEMMA SlotReadKeeps == InstancesInv /\ InformationTypes /\ SlotRead => InstancesInv'
<1> SUFFICES ASSUME InstancesInv, InformationTypes, SlotRead PROVE InstancesInv'
  OBVIOUS
<1>1. /\ InstancesTypes /\ InstancesOrder /\ MarksInv /\ entered /\ First \in todo
      /\ First \in Namespaces /\ Min(window) \in window /\ held' \in Marks
      /\ \A ii \in window : Min(window) <= ii
      /\ phase = "instances" /\ preset # "explicit"
  BY SlotReadDoes DEF InstancesInv, InstancesOrder, SlotRead
<1>2. /\ UNCHANGED <<preset, profile, info, phase, todo, entered, complete, incomplete>>
  BY DEF SlotRead
<1>3. First' = First /\ (IsDevice(First)' <=> IsDevice(First))
  <2>1. First' = First
    BY <1>2, Zenon DEF First
  <2> QED
    BY <2>1 DEF IsDevice
<1>4. \A ns : Markable(ns)' = Markable(ns)
  BY <1>2, SameDefinitions
<1>5. CASE UNCHANGED <<verdicts, marks, window>> /\ ~IsDevice(First)
  <2>1. InstancesTypes' /\ InstancesOrder'
    BY <1>1, <1>2, <1>3, <1>5 DEF InstancesTypes, InstancesOrder
  <2>2. Confirmed' = Confirmed
    BY <1>5 DEF Confirmed
  <2>3. MarksInv'
    BY <1>1, <1>2, <1>3, <1>4, <1>5, <2>2 DEF MarksInv
  <2>4. Covered'
    BY <1>3, <1>5 DEF Covered
  <2> QED
    BY <2>1, <2>3, <2>4 DEF InstancesInv
<1>6. ASSUME NEW v \in Marks, Settle(Min(window), v), IsDevice(First) => v # "none"
      PROVE  InstancesInv'
  <2> DEFINE ii == Min(window)
  <2>1. /\ verdicts' = [verdicts EXCEPT ![ii] = v] /\ ii \in Slots
        /\ \/ marks' = marks
           \/ v = "present" /\ marks' = [marks EXCEPT ![First] = @ \union {ii}]
        /\ window' \subseteq window
    BY <1>1, <1>6 DEF Settle, InstancesTypes
  <2>2. ii \in window /\ ii \in Markable(First)
    BY <1>1 DEF MarksInv
  <2> HIDE DEF ii
  <2>3. /\ marks' \in [Namespaces -> SUBSET Slots]
        /\ \A ns \in Namespaces : ns # First => marks'[ns] = marks[ns]
        /\ marks'[First] \subseteq marks[First] \union {ii}
    BY <1>1, <2>1 DEF InstancesTypes
  <2>4. InstancesTypes'
    BY <1>1, <1>2, <2>1, <2>3 DEF InstancesTypes
  <2>5. InstancesOrder'
    <3>1. \A ns \in todo' : marks'[ns] = {} \/ (entered' /\ ns = First')
      BY <1>1, <1>2, <1>3, <2>3 DEF InstancesOrder, InstancesTypes
    <3> QED
      BY <1>1, <1>2, <3>1 DEF InstancesOrder
  <2>6. Confirmed' \subseteq Confirmed \union {ii}
    BY <1>1, <2>1 DEF Confirmed, InstancesTypes
  <2>7. MarksInv'
    <3>1. \A ns \in Namespaces : marks'[ns] \subseteq Markable(ns)
      BY <1>1, <2>2, <2>3 DEF MarksInv
    <3>2. window' \subseteq Markable(First) /\ Confirmed' \subseteq Markable(First)
      BY <1>1, <2>1, <2>2, <2>6 DEF MarksInv
    <3> QED
      BY <1>3, <1>4, <3>1, <3>2 DEF MarksInv
  <2>8. Covered'
    <3>1. ASSUME IsDevice(First)
          PROVE  marks'[First] = Confirmed' /\
                 (Underway(First)' \/ (window' = {} /\ Recommended' /\ EndedEarly(First)'))
      BY <1>1, <1>2, <1>3, <1>6, <3>1, DeviceSlotKeeps
    <3> QED
      BY <1>3, <3>1 DEF Covered
  <2> QED
    BY <2>4, <2>5, <2>7, <2>8 DEF InstancesInv
<1> QED
  BY <1>5, <1>6, SlotReadDoes

(* The end of a namespace: an unknown group's instances are marked then.   *)
LEMMA NamespaceEndsKeeps == InstancesInv /\ NamespaceEnds => InstancesInv'
<1> SUFFICES ASSUME InstancesInv, NamespaceEnds PROVE InstancesInv'
  OBVIOUS
<1>1. /\ InstancesTypes /\ InstancesOrder /\ MarksInv /\ entered /\ First \in todo
      /\ First \in Namespaces /\ phase = "instances" /\ preset # "explicit"
  BY FirstIsOne DEF InstancesInv, InstancesOrder, InstancesTypes, NamespaceEnds
<1>2. /\ UNCHANGED <<preset, profile, phase, window, verdicts, held>>
      /\ todo' = todo \ {First} /\ entered' = FALSE
      /\ marks' = IF Group(First) \in UnknownGroups THEN [marks EXCEPT ![First] = Confirmed] ELSE marks
      /\ complete' = IF IsDevice(First)
                     THEN [complete EXCEPT ![First] = IF DeviceComplete(First) THEN "yes" ELSE "no"]
                     ELSE complete
      /\ incomplete' = (incomplete \/ Unknown # {} \/ complete'[First] = "no")
  BY DEF NamespaceEnds
<1>3. Confirmed \subseteq Slots /\ Confirmed \subseteq Markable(First)
  BY <1>1 DEF Confirmed, MarksInv
<1>4. /\ marks' \in [Namespaces -> SUBSET Slots]
      /\ \A ns \in Namespaces : marks'[ns] \subseteq Markable(ns)
      /\ \A ns \in Namespaces : ns # First => marks'[ns] = marks[ns]
  BY <1>1, <1>2, <1>3 DEF InstancesTypes, MarksInv
<1>5. complete' \in [Namespaces -> {"none", "yes", "no"}] /\ incomplete' \in BOOLEAN
  BY <1>1, <1>2 DEF InstancesTypes
<1>6. InstancesTypes'
  BY <1>1, <1>2, <1>4, <1>5 DEF InstancesTypes
<1>7. \A ns \in todo' : marks'[ns] = {}
  BY <1>1, <1>2, <1>4 DEF InstancesOrder, InstancesTypes
<1> QED
  BY <1>1, <1>2, <1>4, <1>6, <1>7, NotEntered

LEMMA InstancesStep == InformationInv /\ InstancesInv /\ [Next]_vars => InstancesInv'
<1> SUFFICES ASSUME InformationInv, InstancesInv, [Next]_vars PROVE InstancesInv'
  OBVIOUS
<1>0. InformationTypes
  BY DEF InformationInv
<1>1. CASE InformationAnswered
  <2>1. \A v \in NaN..MaxCount : Given(v, FALSE) \in Entries
    BY DiscoveryAssumption DEF Given, Entries, NaN, DiscoveryAssumption
  <2>2. /\ phase' \in {"information", "opcodes"} /\ incomplete' \in BOOLEAN
        /\ phase' = "information" => incomplete' = incomplete
    BY <1>1, <2>1, IdentifierReports, AskingReports DEF InformationAnswered
  <2> QED
    BY <1>1, <2>2, InformationIsFirst DEF InformationAnswered
<1>2. CASE InformationFailed
  <2>1. /\ phase' \in {"information", "opcodes"} /\ incomplete' \in BOOLEAN
        /\ phase' = "information" => incomplete' = incomplete
    BY <1>2, AskingReports DEF InformationFailed
  <2> QED
    BY <1>2, <2>1, InformationIsFirst DEF InformationFailed
<1>3. CASE InformationRejected
  <2> DEFINE g == Given(NaN, TRUE)
             e == [g EXCEPT !.raw = seen]
  <2>1. g \in Entries /\ seen \in BOOLEAN
    BY <1>0 DEF Given, Entries, NaN, InformationTypes
  <2>2. NextIdentifier(e)
    BY <1>3 DEF InformationRejected
  <2> HIDE DEF g
  <2>3. e \in Entries
    BY <2>1 DEF Entries
  <2> HIDE DEF e
  <2>4. /\ phase' \in {"information", "opcodes"} /\ incomplete' \in BOOLEAN
        /\ phase' = "information" => incomplete' = incomplete
    BY <1>3, <2>2, <2>3, IdentifierReports DEF InformationRejected
  <2> QED
    BY <1>3, <2>4, InformationIsFirst DEF InformationRejected
<1>4. CASE OpcodesProbed
  BY <1>4, OpcodesProbedKeeps
<1>5. CASE NamespaceBegins
  BY <1>5, NamespaceBeginsKeeps
<1>6. CASE SlotRead
  BY <1>0, <1>6, SlotReadKeeps
<1>7. CASE NamespaceEnds
  BY <1>7, NamespaceEndsKeeps
<1>8. CASE PlanMade
  BY <1>8, InstancesStay DEF PlanMade, findings
<1>9. CASE Interrupted
  BY <1>9, InstancesStay DEF Interrupted, Stop
<1>10. CASE BudgetExhausted
  BY <1>10, InstancesStay DEF BudgetExhausted, Stop
<1>11. CASE RecoveryExhausted
  BY <1>11, InstancesStay DEF RecoveryExhausted, Stop
<1>12. CASE NotEnabled
  BY <1>12, InstancesStay DEF NotEnabled, Stop
<1>13. CASE UNCHANGED vars
  BY <1>13, InstancesStay DEF vars, findings
<1> QED
  BY <1>1, <1>2, <1>3, <1>4, <1>5, <1>6, <1>7, <1>8, <1>9, <1>10, <1>11, <1>12, <1>13 DEF Next

-----------------------------------------------------------------------------
(* A namespace that ends without making the coverage incomplete.           *)
LEMMA EndIsHonest ==
  ASSUME InstancesInv, NamespaceEnds
  PROVE  HonestStep
<1>1. /\ InstancesTypes /\ entered /\ First \in todo /\ First \in Namespaces /\ window = {}
  BY FirstIsOne DEF InstancesInv, InstancesOrder, InstancesTypes, NamespaceEnds
<1>2. /\ incomplete' = (incomplete \/ Unknown # {} \/ complete'[First] = "no")
      /\ complete' = IF IsDevice(First)
                     THEN [complete EXCEPT ![First] = IF DeviceComplete(First) THEN "yes" ELSE "no"]
                     ELSE complete
  BY DEF NamespaceEnds
<1>3. incomplete => incomplete'
  BY <1>2
<1>4. ASSUME ~incomplete' PROVE \A ii \in Slots : verdicts[ii] # "unknown"
  BY <1>2, <1>4 DEF Unknown
<1>5. ASSUME ~incomplete', IsDevice(First)
      PROVE  \/ \A ii \in IiMin(First)..IiMax(First) : verdicts[ii] # "none"
             \/ Recommended /\ Expected(First) # NaN /\ Cardinality(marks[First]) >= Expected(First)
             \/ /\ Recommended /\ Expected(First) = NaN
                /\ \E ii \in IiMin(First)..IiMax(First) :
                     /\ verdicts[ii] = "absent"
                     /\ \A jj \in IiMin(First)..(ii - 1) : jj \in marks[First]
  <2>1. DeviceComplete(First)
    BY <1>1, <1>2, <1>5 DEF InstancesTypes
  <2>2. marks[First] = Confirmed /\ (Underway(First) \/ (Recommended /\ EndedEarly(First)))
    BY <1>1, <1>5 DEF InstancesInv, Covered
  <2>3. /\ Window(First) = IF Recommended /\ Expected(First) = 0 THEN {}
                           ELSE IiMin(First)..IiMax(First)
    BY <1>1, <1>5, DeviceWindow
  <2>4. CASE Underway(First) /\ ~(Recommended /\ Expected(First) = 0)
    BY <1>1, <2>3, <2>4 DEF Underway
  <2>5. CASE Recommended /\ Expected(First) = 0
    <3>1. IsFiniteSet(Confirmed)
      BY SlotsAre, FS_Subset DEF Confirmed
    <3>2. Cardinality(Confirmed) \in Nat
      BY <3>1, FS_CardinalityType
    <3>3. Cardinality(marks[First]) >= Expected(First)
      BY <2>2, <2>5, <3>2
    <3> QED
      BY <2>5, <3>3 DEF NaN
  <2>6. CASE Recommended /\ EndedEarly(First)
    <3>1. CASE Expected(First) # NaN
      BY <2>2, <2>6, <3>1 DEF EndedEarly
    <3>2. CASE Expected(First) = NaN
      <4>1. PICK ii \in IiMin(First)..IiMax(First) :
              /\ verdicts[ii] = "absent"
              /\ \A jj \in IiMin(First)..(ii - 1) : verdicts[jj] \notin {"none", "absent"}
        BY <2>6, <3>2 DEF EndedEarly
      <4>2. ASSUME NEW jj \in IiMin(First)..(ii - 1) PROVE jj \in marks[First]
        <5>1. jj \in 0..IiMax(First)
          BY Ranges
        <5>2. jj \in Slots
          BY <5>1, SlotsAre
        <5>3. verdicts[jj] # "unknown" /\ verdicts[jj] \in Marks
          BY <1>1, <1>4, <1>5, <5>2 DEF InstancesTypes
        <5>4. verdicts[jj] = "present"
          BY <4>1, <5>3 DEF Marks
        <5> QED
          BY <2>2, <5>2, <5>4 DEF Confirmed
      <4> QED
        BY <2>6, <3>2, <4>1, <4>2
    <3> QED
      BY <3>1, <3>2
  <2> QED
    BY <2>2, <2>4, <2>5, <2>6
<1> QED
  BY <1>3, <1>4, <1>5 DEF HonestStep

LEMMA StepIsHonest == InformationInv /\ InstancesInv /\ [Next]_vars => HonestStep
<1> SUFFICES ASSUME InformationInv, InstancesInv, [Next]_vars PROVE HonestStep
  OBVIOUS
<1>1. /\ phase = "information" => ~incomplete
      /\ phase = "opcodes" => todo = {}
  BY DEF InstancesInv, InstancesOrder
<1>2. CASE NamespaceEnds
  BY <1>2, EndIsHonest
<1>3. CASE InformationAnswered \/ InformationFailed \/ InformationRejected
  <2>1. phase = "information" /\ todo' = todo
    BY <1>3 DEF InformationAnswered, InformationFailed, InformationRejected, slots
  <2> QED
    BY <1>1, <2>1 DEF HonestStep
<1>4. CASE OpcodesProbed
  BY <1>1, <1>4 DEF OpcodesProbed, findings, HonestStep
<1>5. CASE NamespaceBegins \/ SlotRead \/ PlanMade
  BY <1>5 DEF NamespaceBegins, SlotRead, PlanMade, slots, findings, HonestStep
<1>6. CASE Interrupted \/ BudgetExhausted \/ RecoveryExhausted \/ NotEnabled
  BY <1>6 DEF Interrupted, BudgetExhausted, RecoveryExhausted, NotEnabled, Stop, slots, HonestStep
<1>7. CASE UNCHANGED vars
  BY <1>7 DEF vars, slots, findings, HonestStep
<1> QED
  BY <1>2, <1>3, <1>4, <1>5, <1>6, <1>7 DEF Next

-----------------------------------------------------------------------------
(* The plan.  Only the system group and native DHW have no instances.      *)
LEMMA WithoutInstances ==
  ASSUME NEW ns \in Namespaces, ~Instanced(ns)
  PROVE  ns = <<2, 0>> \/ ns = NativeDHW
<1>1. ns = <<Op(ns), Group(ns)>> /\ Op(ns) \in {2, 6}
  BY Pairs
<1>2. IiMax(ns) \in Nat /\ IiMax(ns) = 0
  BY Ranges DEF Instanced
<1>3. Op(ns) = 2 /\ Group(ns) \in {0, 1}
  BY <1>1, <1>2, Sizes DEF IiMax
<1> QED
  BY <1>1, <1>3 DEF NativeDHW

Chosen == {ns \in Rows : Op(ns) \in Resolved(Group(ns)) /\ (Recommended => Available(ns))}
LEMMA PresetPlanIs ==
  \A t : t \in PresetPlan <=> \E ns \in Chosen : \E ii \in InstancesFor(ns) :
                                 t = <<Op(ns), Group(ns), ii>>
<1> DEFINE Reads(ns) == {<<Op(ns), Group(ns), ii>> : ii \in InstancesFor(ns)}
<1>1. PresetPlan = UNION {Reads(ns) : ns \in Chosen}
  BY Zenon DEF PresetPlan, Chosen
<1>2. \A t : t \in PresetPlan <=> \E ns \in Chosen : t \in Reads(ns)
  <2> HIDE DEF Reads
  <2> QED
    BY <1>1
<1> QED
  BY <1>2

(* What is marked in a row of the plan is read.                            *)
LEMMA MarkedIsPlanned ==
  ASSUME MarksInv, marks \in [Namespaces -> SUBSET Slots],
         NEW ns \in Rows, Op(ns) \in Resolved(Group(ns)), NEW ii \in marks[ns]
  PROVE  <<Op(ns), Group(ns), ii>> \in PresetPlan
<1>1. ns \in Namespaces /\ ii \in Markable(ns)
  BY DEF Rows, MarksInv
<1>2. Instanced(ns) => ii \in InstanceRange(ns)
  BY <1>1 DEF Markable, InstanceRange
<1>3. Available(ns)
  <2>1. CASE Instanced(ns)
    BY <1>2, <2>1 DEF Available
  <2>2. CASE ~Instanced(ns)
    BY <1>1, <2>2, WithoutInstances DEF Available
  <2> QED
    BY <2>1, <2>2
<1>4. ii \in InstancesFor(ns)
  BY <1>1, <1>2 DEF InstancesFor, Markable
<1>5. ns \in Chosen
  BY <1>3 DEF Chosen
<1> QED
  BY <1>4, <1>5, PresetPlanIs

(* What the recommended plan reads was confirmed.                          *)
LEMMA PlannedIsMarked ==
  ASSUME MarksInv, marks \in [Namespaces -> SUBSET Slots], Recommended,
         NEW ns \in Chosen, NEW ii \in InstancesFor(ns)
  PROVE  \/ ns = <<2, 0>> \/ ii \in marks[ns]
         \/ ns = Circuits /\ ii = CircuitMax /\ marks[ns] # {}
<1>1. ns \in Namespaces /\ Available(ns) /\ marks[ns] \subseteq Markable(ns)
  BY DEF Chosen, Rows, MarksInv
<1>2. CASE Instanced(ns)
  <2>1. ii \in marks[ns] \/ (ns = Circuits /\ ii = CircuitMax)
    BY <1>2 DEF InstancesFor
  <2>2. ns = <<2, 0>> \/ marks[ns] # {}
    BY <1>1 DEF Available
  <2> QED
    BY <2>1, <2>2
<1>3. CASE ~Instanced(ns)
  <2>1. ns = <<2, 0>> \/ (ns = NativeDHW /\ marks[ns] # {})
    BY <1>1, <1>3, WithoutInstances DEF Available
  <2>2. ii = 0 /\ marks[ns] \subseteq {0}
    BY <1>1, <1>3 DEF InstancesFor, Markable
  <2> QED
    BY <2>1, <2>2
<1> QED
  BY <1>2, <1>3

(* The namespaces of the automatic Event programs are rows of every preset.*)
LEMMA EventRows ==
  ASSUME NEW gg \in {1, 3}, <<2, gg>> \in Namespaces, preset # "explicit"
  PROVE  <<2, gg>> \in Rows /\ 2 \in Resolved(gg)
<1>1. gg \in KnownGroups /\ gg \notin UnknownGroups
  <2>1. \A g \in UnknownGroups : g \in 18..255
    BY Sizes
  <2>2. gg \notin UnknownGroups
    BY <2>1
  <2> QED
    BY <2>2 DEF Namespaces
<1>2. 2 \in ProfileOpcodes(gg)
  BY DEF ProfileOpcodes, ProfileGroups
<1> QED
  BY <1>1, <1>2 DEF Rows, Resolved, Configured, Native, Op, Group

LEMMA PlanMadeConfirms == InstancesInv /\ PlanMade => PlanConfirmed'
<1> SUFFICES ASSUME InstancesInv, PlanMade PROVE PlanConfirmed'
  OBVIOUS
<1>1. /\ MarksInv /\ marks \in [Namespaces -> SUBSET Slots]
      /\ preset = "explicit" => \A ns \in Namespaces : marks[ns] = {}
  BY DEF InstancesInv, InstancesTypes, InstancesOrder
<1>2. /\ plan' \in IF preset = "explicit" THEN ExplicitPlans ELSE {PresetPlan}
      /\ events' \in {{}, Anchors(plan')}
      /\ UNCHANGED <<preset, profile, info, responsive, marks>>
  BY DEF PlanMade, findings
<1>3. \A e \in events' : <<2, e[1], e[2]>> \in plan'
  <2> SUFFICES ASSUME NEW e \in Anchors(plan') PROVE <<2, e[1], e[2]>> \in plan'
    BY <1>2
  <2>1. \/ <<2, 0, 0>> \in plan' /\ e = <<0, 0>>
        \/ NativeDHW \in Namespaces /\ \E ii \in marks[NativeDHW] : e = <<1, ii>>
        \/ <<2, 3>> \in Namespaces /\ \E ii \in marks[<<2, 3>>] : e = <<3, ii>>
    BY DEF Anchors
  <2>2. ASSUME NEW gg \in {1, 3}, <<2, gg>> \in Namespaces, NEW ii \in marks[<<2, gg>>]
        PROVE  <<2, gg, ii>> \in plan'
    <3>1. preset # "explicit"
      BY <1>1, <2>2
    <3>2. <<2, gg>> \in Rows /\ 2 \in Resolved(gg)
      BY <2>2, <3>1, EventRows
    <3>3. Op(<<2, gg>>) = 2 /\ Group(<<2, gg>>) = gg
      BY DEF Op, Group
    <3>4. <<Op(<<2, gg>>), Group(<<2, gg>>), ii>> \in PresetPlan
      BY <1>1, <2>2, <3>2, <3>3, MarkedIsPlanned
    <3> QED
      BY <1>2, <3>1, <3>3, <3>4
  <2>3. CASE <<2, 0, 0>> \in plan' /\ e = <<0, 0>>
    BY <2>3
  <2>4. CASE NativeDHW \in Namespaces /\ \E ii \in marks[NativeDHW] : e = <<1, ii>>
    BY <2>2, <2>4 DEF NativeDHW
  <2>5. CASE <<2, 3>> \in Namespaces /\ \E ii \in marks[<<2, 3>>] : e = <<3, ii>>
    BY <2>2, <2>5
  <2> QED
    BY <2>1, <2>3, <2>4, <2>5
<1>4. ASSUME Recommended, NEW t \in plan'
      PROVE  \/ <<t[1], t[2]>> = <<2, 0>> \/ t[3] \in marks[<<t[1], t[2]>>]
             \/ /\ <<<<t[1], t[2]>>, t[3]>> = <<Circuits, CircuitMax>>
                /\ marks[<<t[1], t[2]>>] # {}
  <2>1. t \in PresetPlan
    BY <1>2, <1>4 DEF Recommended
  <2>2. PICK ns \in Chosen : \E ii \in InstancesFor(ns) : t = <<Op(ns), Group(ns), ii>>
    BY <2>1, PresetPlanIs
  <2>3. PICK ii \in InstancesFor(ns) : t = <<Op(ns), Group(ns), ii>>
    BY <2>2
  <2>4. ns = <<Op(ns), Group(ns)>>
    BY Pairs DEF Chosen, Rows
  <2>5. <<t[1], t[2]>> = ns /\ t[3] = ii
    BY <2>3, <2>4
  <2>6. \/ ns = <<2, 0>> \/ ii \in marks[ns]
        \/ ns = Circuits /\ ii = CircuitMax /\ marks[ns] # {}
    BY <1>1, <1>4, PlannedIsMarked
  <2> QED
    BY <2>5, <2>6
<1>5. ASSUME NEW t \in plan', t[2] \in UnknownGroups PROVE t[1] \in responsive[t[2]]
  <2>1. CASE preset = "explicit"
    <3>1. t[2] \in KnownGroups
      BY <1>2, <2>1 DEF ExplicitPlans, Namespaces, Group, Op
    <3>2. \A g \in KnownGroups : g \in 0..17
      BY Sizes
    <3>3. \A g \in UnknownGroups : g \in 18..255
      BY Sizes
    <3> QED
      BY <1>5, <3>1, <3>2, <3>3
  <2>2. CASE preset # "explicit"
    <3>1. PICK ns \in Chosen : \E ii \in InstancesFor(ns) : t = <<Op(ns), Group(ns), ii>>
      BY <1>2, <2>2, PresetPlanIs
    <3>2. t[1] = Op(ns) /\ t[2] = Group(ns)
      BY <3>1
    <3>3. Op(ns) \in Resolved(Group(ns))
      BY DEF Chosen
    <3> QED
      BY <1>5, <3>2, <3>3 DEF Resolved
  <2> QED
    BY <2>1, <2>2
<1>6. ASSUME preset # "explicit", NEW ns \in Rows, Op(ns) \in Resolved(Group(ns)),
             NEW ii \in marks[ns]
      PROVE  <<Op(ns), Group(ns), ii>> \in plan'
  BY <1>1, <1>2, <1>6, MarkedIsPlanned
<1>7. /\ Recommended' = Recommended /\ Rows' = Rows
      /\ \A gg : Resolved(gg)' = Resolved(gg)
  <2>1. \A gg : ProfileOpcodes(gg)' = ProfileOpcodes(gg)
    BY <1>2, Zenon DEF ProfileOpcodes
  <2>2. \A gg : Resolved(gg)' = Resolved(gg)
    BY <1>2, <2>1, Zenon DEF Resolved
  <2>3. Configured' = Configured
    BY <1>2, Zenon DEF Configured
  <2>4. Rows' = Rows
    BY <2>2, <2>3 DEF Rows
  <2> QED
    BY <1>2, <2>2, <2>4 DEF Recommended
<1> QED
  BY <1>2, <1>3, <1>4, <1>5, <1>6, <1>7 DEF PlanConfirmed

-----------------------------------------------------------------------------
(* Whatever part a behaviour shows, the discovery takes its own steps.     *)
DiscoveryInv == InformationInv /\ InstancesInv /\ PlanConfirmed

LEMMA DiscoveryInit == AllInit => DiscoveryInv
<1>1. AllInit => Init
  BY DEF AllInit, NoDiscovery
<1>2. Init => PlanConfirmed
  BY DEF Init, PlanConfirmed
<1> QED
  BY <1>1, <1>2, InitInformation, InitInstances DEF DiscoveryInv

LEMMA DiscoveryMoves == [AllNext]_allVars => [Next]_vars
BY DEF AllNext, allVars, OthersThanUse

(* Once made, the plan of the scan is not changed by the discovery.        *)
LEMMA PlanStep == InstancesInv /\ PlanConfirmed /\ [Next]_vars => PlanConfirmed'
<1> SUFFICES ASSUME InstancesInv, PlanConfirmed, [Next]_vars PROVE PlanConfirmed'
  OBVIOUS
<1>1. CASE PlanMade
  BY <1>1, PlanMadeConfirms
<1>2. CASE UNCHANGED vars
  <2>1. UNCHANGED <<preset, profile, info, responsive, marks, plan, events, phase>>
    BY <1>2 DEF vars, findings
  <2>2. \A gg : ProfileOpcodes(gg)' = ProfileOpcodes(gg)
    BY <2>1, Zenon DEF ProfileOpcodes
  <2>3. \A gg : Resolved(gg)' = Resolved(gg)
    BY <2>1, <2>2, Zenon DEF Resolved
  <2>4. Configured' = Configured
    BY <2>1, Zenon DEF Configured
  <2>5. Rows' = Rows
    BY <2>3, <2>4 DEF Rows
  <2>6. Recommended' = Recommended
    BY <2>1 DEF Recommended
  <2> QED
    BY <2>1, <2>3, <2>5, <2>6 DEF PlanConfirmed
<1>3. CASE InformationAnswered \/ InformationFailed \/ InformationRejected
  <2>1. phase' # "planned"
    BY <1>3 DEF InformationAnswered, InformationFailed, InformationRejected, AsksAgain,
                NextIdentifier
  <2> QED
    BY <2>1 DEF PlanConfirmed
<1>4. CASE OpcodesProbed \/ NamespaceBegins \/ SlotRead \/ NamespaceEnds
  <2>1. phase' # "planned"
    BY <1>4 DEF OpcodesProbed, NamespaceBegins, SlotRead, NamespaceEnds
  <2> QED
    BY <2>1 DEF PlanConfirmed
<1>5. CASE Interrupted \/ BudgetExhausted \/ RecoveryExhausted \/ NotEnabled
  <2>1. phase' # "planned"
    BY <1>5 DEF Interrupted, BudgetExhausted, RecoveryExhausted, NotEnabled, Stop
  <2> QED
    BY <2>1 DEF PlanConfirmed
<1> QED
  BY <1>1, <1>2, <1>3, <1>4, <1>5 DEF Next

LEMMA DiscoveryHolds == AllSpec => []DiscoveryInv
<1>1. DiscoveryInv /\ [AllNext]_allVars => DiscoveryInv'
  BY DiscoveryMoves, InformationStep, InstancesStep, PlanStep DEF DiscoveryInv
<1> QED
  BY DiscoveryInit, <1>1, PTL DEF AllSpec

(* For any identifiers and however their attempts end: what a device said  *)
(* of itself is in the artifact (discover_groups).                         *)
THEOREM InformationIsKept == AllSpec => []InformationKept
<1>1. DiscoveryInv => InformationKept
  BY DEF DiscoveryInv, InformationInv
<1> QED
  BY DiscoveryHolds, <1>1, PTL

(* For any groups, counts and capacities: the plan reads the confirmed     *)
(* instances, and the recommended one no others (build_plan_from_preset).  *)
THEOREM PlanIsConfirmed == AllSpec => []PlanConfirmed
<1>1. DiscoveryInv => PlanConfirmed
  BY DEF DiscoveryInv
<1> QED
  BY DiscoveryHolds, <1>1, PTL

(* For any groups and any size of their instance ranges: a coverage that   *)
(* is not qualified as incomplete left out only the slots that the count   *)
(* or an absence after confirmed slots excludes (_probe_present_instances). *)
THEOREM CoverageIsHonest == AllSpec => CoverageHonest
<1>1. DiscoveryInv /\ [AllNext]_allVars => [HonestStep]_vars
  BY DiscoveryMoves, StepIsHonest DEF DiscoveryInv
<1> QED
  BY DiscoveryHolds, <1>1, PTL DEF AllSpec, CoverageHonest

-----------------------------------------------------------------------------
(* The limits of a parameter.  A row that names a controller has the       *)
(* limits of a device of its identity.                                     *)
RowTrue(r) ==
  r.profile.controller # Use!Unknown =>
    r.limits.controller = r.profile.controller /\ r.limits.device = r.profile.device
RowShape(r) ==
  /\ r = [sel |-> r.sel, profile |-> r.profile, signature |-> r.signature, type |-> r.type,
          limits |-> r.limits, step |-> r.step, scope |-> r.scope]
  /\ r.profile = [controller |-> r.profile.controller, id |-> r.profile.id,
                  device |-> r.profile.device]

(* A legacy row names none, until the catalogue does; then it is the only  *)
(* row of its identity.                                                    *)
BundleInv ==
  /\ \A r \in bundle :
       /\ RowTrue(r) /\ RowShape(r)
       /\ r.profile.controller = Use!Unknown => r = Use!Legacy(Reference)
  /\ Use!Legacy(Reference) \in bundle => \A r \in bundle : r.profile.controller # Reference
  /\ \A r, s \in bundle : r.sel = s.sel /\ Use!Compatible(r.profile, s.profile) => r = s

(* The evidence of an artifact is of the device scanned, or no evidence;   *)
(* its live description has the limits of that device.                     *)
LiveShape(live) ==
  live = [sel |-> live.sel, matched |-> live.matched, step |-> live.step, limits |-> live.limits,
          provenance |-> live.provenance, target |-> live.target, match |-> live.match]
ArtifactShape ==
  artifact = [sel |-> artifact.sel, where |-> artifact.where, evidence |-> artifact.evidence,
              type |-> artifact.type, presence |-> artifact.presence,
              answered |-> artifact.answered, live |-> artifact.live,
              bundled |-> artifact.bundled]
ArtifactInv ==
  artifact # Use!None =>
    /\ ArtifactShape /\ artifact.sel \in {"local", "remote"}
    /\ artifact.evidence.controller \in {artifact.where.controller, Use!Unknown, Use!Conflict}
    /\ artifact.evidence.device \in {Use!Behind(artifact.sel, artifact.where.device),
                                     Use!Behind(artifact.sel, Use!Unknown)}
    /\ artifact.live # Use!None =>
         /\ LiveShape(artifact.live)
         /\ artifact.live.limits = [controller |-> artifact.where.controller,
                                    device |-> Use!Behind(artifact.sel, artifact.where.device)]
    /\ artifact.bundled # Use!None => RowTrue(artifact.bundled.row)

PendingInv ==
  pending # Use!None =>
    /\ artifact # Use!None /\ pending.sel = artifact.sel
    /\ pending.description # Use!None =>
         Use!ReadFrom(pending.description.limits, pending.sel, artifact.where)
    /\ pending.value \in {"within", "beyond"}
    /\ pending.verdict = Use!Verdict(pending.description, pending.value)
    /\ pending.verdict # "rejected"
CountersInv ==
  /\ scans \in 0..MaxScans /\ session \in BOOLEAN /\ catalog \subseteq Controllers
  /\ artifact = Use!None => scans < MaxScans
WrittenInv ==
  written # Use!None =>
    LET w == written.write IN
    /\ w.description # Use!None => Use!ReadFrom(w.description.limits, w.sel, written.to)
    /\ w.description # Use!None /\ w.description.scope = "range" => w.value = "within"
    /\ w.verdict = "valid" => w.description # Use!None
EditInv == CountersInv /\ BundleInv /\ ArtifactInv /\ PendingInv /\ WrittenInv

LEMMA LimitNames ==
  /\ Reference \in Controllers /\ MaxScans \in Nat \ {0}
  /\ Use!Unknown \notin Controllers /\ Use!Conflict \notin Controllers /\ Use!Unknown \notin Devices
BY DeviceConstants DEF Use!LimitConstants

LEMMA EditInvIsEnough == EditInv => Use!LimitsTrue
<1> SUFFICES ASSUME EditInv PROVE Use!LimitsTrue
  OBVIOUS
<1>1. Use!TypeOK
  BY DEF EditInv, CountersInv, Use!TypeOK
<1>2. Use!EditsTrue
  BY DEF EditInv, PendingInv, WrittenInv, Use!EditsTrue
<1>3. Use!RowsTrue
  BY DEF EditInv, BundleInv, RowTrue, Use!RowsTrue
<1> QED
  BY <1>1, <1>2, <1>3 DEF Use!LimitsTrue

(* Evidence that is known is of the device scanned.                        *)
LEMMA EvidenceIsOfTheDevice ==
  ASSUME ArtifactInv, artifact # Use!None, Use!Known(Use!Profile(artifact))
  PROVE  /\ artifact.evidence.controller = artifact.where.controller
         /\ artifact.evidence.controller \in Controllers
         /\ artifact.evidence.device = Use!Behind(artifact.sel, artifact.where.device)
<1>1. artifact.evidence.controller \in Controllers /\ artifact.evidence.device # Use!Unknown
  BY DEF Use!Known, Use!Profile
<1>2. artifact.evidence.controller = artifact.where.controller
  BY <1>1, LimitNames DEF ArtifactInv
<1>3. artifact.evidence.device = Use!Behind(artifact.sel, artifact.where.device)
  BY <1>1 DEF ArtifactInv, Use!Behind
<1> QED
  BY <1>1, <1>2, <1>3

(* effective_parameter_description: the limits used are those of the device*)
(* scanned, and its identity is known.                                     *)
LEMMA EffectiveIsTrue ==
  ASSUME ArtifactInv, artifact # Use!None, Use!Effective # Use!None
  PROVE  /\ Use!Known(Use!Profile(artifact))
         /\ Use!ReadFrom(Use!Effective.limits, artifact.sel, artifact.where)
<1> DEFINE p == Use!Profile(artifact)
           live == artifact.live
           cached == artifact.bundled
           fromLive == [sel |-> live.sel, source |-> "live", limits |-> live.limits,
                        step |-> live.step,
                        scope |-> IF artifact.type = "date" THEN "display_only" ELSE "range"]
           fromRow == [sel |-> cached.sel, source |-> "profile", limits |-> cached.row.limits,
                       step |-> cached.row.step, scope |-> Use!Scope(cached.row)]
<1>1. \/ live # Use!None /\ Use!Known(p) /\ Use!Effective = fromLive
      \/ /\ Use!Qualified(p) /\ cached # Use!None /\ Use!Compatible(cached.row.profile, p)
         /\ Use!Effective = fromRow
  BY Zenon DEF Use!Effective
<1>2. p.controller = artifact.evidence.controller /\ p.device = artifact.evidence.device
  BY DEF Use!Profile
<1>3. CASE live # Use!None /\ Use!Known(p) /\ Use!Effective = fromLive
  <2>1. Use!Effective.limits = live.limits
    BY <1>3
  <2>2. live.limits = [controller |-> artifact.where.controller,
                       device |-> Use!Behind(artifact.sel, artifact.where.device)]
    BY <1>3 DEF ArtifactInv
  <2> QED
    BY <1>3, <2>1, <2>2 DEF Use!ReadFrom, Use!Behind
<1>4. CASE /\ Use!Qualified(p) /\ cached # Use!None /\ Use!Compatible(cached.row.profile, p)
           /\ Use!Effective = fromRow
  <2>1. Use!Effective.limits = cached.row.limits
    BY <1>4
  <2>2. Use!Known(p)
    BY <1>4 DEF Use!Qualified
  <2>3. /\ artifact.evidence.controller = artifact.where.controller
        /\ artifact.evidence.controller \in Controllers
        /\ artifact.evidence.device = Use!Behind(artifact.sel, artifact.where.device)
    BY <2>2, EvidenceIsOfTheDevice
  <2>4. cached.row.profile.controller = p.controller /\ cached.row.profile.device = p.device
    BY <1>4 DEF Use!Compatible
  <2>5. RowTrue(cached.row)
    BY <1>4 DEF ArtifactInv
  <2>6. /\ cached.row.limits.controller = artifact.where.controller
        /\ cached.row.limits.device = Use!Behind(artifact.sel, artifact.where.device)
    BY <1>2, <2>3, <2>4, <2>5, LimitNames DEF RowTrue
  <2> QED
    BY <2>1, <2>2, <2>6 DEF Use!ReadFrom, Use!Behind
<1> QED
  BY <1>1, <1>3, <1>4

LEMMA OneMember ==
  /\ Use!Cardinality({}) = 0
  /\ \A x : Use!Cardinality({x}) = 1
<1>1. \A S : Use!Cardinality(S) = Cardinality(S)
  BY Zenon DEF Use!Cardinality, Cardinality
<1> QED
  BY <1>1, FS_EmptySet, FS_Singleton

LEMMA InitEdits == Use!Init => EditInv
<1> SUFFICES ASSUME Use!Init PROVE EditInv
  OBVIOUS
<1>1. /\ catalog \subseteq Controllers /\ scans = 0 /\ session = FALSE
      /\ artifact = Use!None /\ pending = Use!None /\ written = Use!None
      /\ bundle = {} \/ bundle = {Use!Legacy(Reference)}
  BY DEF Use!Init
<1>2. CountersInv
  <2>1. scans \in 0..MaxScans /\ scans < MaxScans
    BY <1>1, LimitNames
  <2>2. session \in BOOLEAN
    BY <1>1
  <2> QED
    BY <1>1, <2>1, <2>2 DEF CountersInv
<1>3. BundleInv
  <2>1. Use!Legacy(Reference).profile.controller = Use!Unknown
    BY DEF Use!Legacy
  <2>2. RowShape(Use!Legacy(Reference))
    BY DEF RowShape, Use!Legacy
  <2>3. Use!Unknown # Reference
    BY LimitNames
  <2> QED
    BY <1>1, <2>1, <2>2, <2>3 DEF BundleInv, RowTrue
<1> QED
  BY <1>1, <1>2, <1>3 DEF EditInv, ArtifactInv, PendingInv, WrittenInv

(* _enrich_bundle_profiles: the legacy row gets the identity of its        *)
(* controller, which no other row had.                                     *)
LEMMA EnrichedRows ==
  ASSUME BundleInv, CountersInv
  PROVE  /\ \A r \in Use!Enriched :
              /\ RowTrue(r) /\ RowShape(r)
              /\ r.profile.controller = Use!Unknown =>
                   r = Use!Legacy(Reference) /\ Reference \notin catalog
         /\ \A r, s \in Use!Enriched :
              r.sel = s.sel /\ Use!Compatible(r.profile, s.profile) => r = s
         /\ Use!Legacy(Reference) \in Use!Enriched =>
              \A r \in Use!Enriched : r.profile.controller # Reference
<1> DEFINE L == Use!Legacy(Reference)
           U == [sel |-> "local",
                 profile |-> [controller |-> Reference, id |-> Reference, device |-> "none"],
                 signature |-> Reference, type |-> "number",
                 limits |-> [controller |-> Reference, device |-> "none"],
                 step |-> TRUE, scope |-> "range"]
           Up(r) == IF r.profile.controller = Use!Unknown /\ r.signature \in catalog
                    THEN [r EXCEPT !.profile.controller = r.signature, !.profile.id = r.signature]
                    ELSE r
<1>1. Use!Enriched = {Up(r) : r \in bundle}
  BY Zenon DEF Use!Enriched
<1>2. L.profile.controller = Use!Unknown /\ L.signature = Reference
  BY DEF Use!Legacy
<1>3. Up(L) = IF Reference \in catalog THEN U ELSE L
  <2> DEFINE row(c, i) ==
               [sel |-> "local", profile |-> [controller |-> c, id |-> i, device |-> "none"],
                signature |-> Reference, type |-> "number",
                limits |-> [controller |-> Reference, device |-> "none"],
                step |-> TRUE, scope |-> "range"]
  <2>1. L = row(Use!Unknown, Use!Unknown) /\ U = row(Reference, Reference)
    BY DEF Use!Legacy
  <2>2. ASSUME NEW r, NEW c, NEW i, r = row(c, i)
        PROVE  /\ [r EXCEPT !.profile.controller = Reference] = row(Reference, i)
               /\ [r EXCEPT !.profile.id = Reference] = row(c, Reference)
    <3>1. r.profile = [controller |-> c, id |-> i, device |-> "none"]
      BY <2>2
    <3>2. /\ [r.profile EXCEPT !.controller = Reference]
               = [controller |-> Reference, id |-> i, device |-> "none"]
          /\ [r.profile EXCEPT !.id = Reference]
               = [controller |-> c, id |-> Reference, device |-> "none"]
      BY <3>1
    <3>3. \A p : [r EXCEPT !.profile = p]
                   = [sel |-> r.sel, profile |-> p, signature |-> r.signature, type |-> r.type,
                      limits |-> r.limits, step |-> r.step, scope |-> r.scope]
      <4>1. RowShape(r)
        BY <2>2 DEF RowShape
      <4> HIDE DEF row
      <4> QED
        BY <4>1 DEF RowShape
    <3>5. /\ r.sel = "local" /\ r.signature = Reference /\ r.type = "number" /\ r.step = TRUE
          /\ r.limits = [controller |-> Reference, device |-> "none"] /\ r.scope = "range"
      BY <2>2
    <3>4. /\ [r EXCEPT !.profile.controller = Reference]
               = [r EXCEPT !.profile = [r.profile EXCEPT !.controller = Reference]]
          /\ [r EXCEPT !.profile.id = Reference]
               = [r EXCEPT !.profile = [r.profile EXCEPT !.id = Reference]]
      <4> HIDE DEF row
      <4> QED
        OBVIOUS
    <3>6. [r EXCEPT !.profile.controller = Reference] = row(Reference, i)
      <4> DEFINE q == [r.profile EXCEPT !.controller = Reference]
      <4>1. [r EXCEPT !.profile = q]
              = [sel |-> r.sel, profile |-> q, signature |-> r.signature, type |-> r.type,
                 limits |-> r.limits, step |-> r.step, scope |-> r.scope]
        BY <3>3
      <4> QED
        BY <3>2, <3>4, <3>5, <4>1, Zenon
    <3>7. [r EXCEPT !.profile.id = Reference] = row(c, Reference)
      <4> DEFINE q == [r.profile EXCEPT !.id = Reference]
      <4>1. [r EXCEPT !.profile = q]
              = [sel |-> r.sel, profile |-> q, signature |-> r.signature, type |-> r.type,
                 limits |-> r.limits, step |-> r.step, scope |-> r.scope]
        BY <3>3
      <4> QED
        BY <3>2, <3>4, <3>5, <4>1, Zenon
    <3> QED
      BY <3>6, <3>7
  <2>4. [L EXCEPT !.profile.controller = Reference, !.profile.id = Reference]
        = [[L EXCEPT !.profile.controller = Reference] EXCEPT !.profile.id = Reference]
    <3> HIDE DEF L
    <3> QED
      OBVIOUS
  <2> HIDE DEF U, L, row
  <2>5. [L EXCEPT !.profile.controller = Reference, !.profile.id = Reference] = U
    <3>1. [L EXCEPT !.profile.controller = Reference] = row(Reference, Use!Unknown)
      BY <2>1, <2>2
    <3> QED
      <4> DEFINE M == [L EXCEPT !.profile.controller = Reference]
      <4>1. M = row(Reference, Use!Unknown)
        BY <3>1
      <4> HIDE DEF M
      <4>2. [M EXCEPT !.profile.id = Reference] = row(Reference, Reference)
        BY <2>2, <4>1
      <4> QED
        BY <2>1, <2>4, <4>2 DEF M
  <2> QED
    BY <1>2, <2>5
<1>4. RowTrue(U) /\ RowShape(U) /\ U.profile.controller = Reference /\ U # L
  <2>1. U.profile.controller = Reference
    OBVIOUS
  <2>2. Reference # Use!Unknown
    BY LimitNames
  <2> QED
    BY <1>2, <2>1, <2>2 DEF RowTrue, RowShape
<1>5. \A r \in bundle : r # L => Up(r) = r /\ r.profile.controller # Use!Unknown
  BY DEF BundleInv
<1>6. Reference # Use!Unknown
  BY LimitNames
<1> HIDE DEF L, U, Up
<1>7. CASE L \in bundle /\ Reference \in catalog
  <2>1. \A r \in Use!Enriched : r = U \/ (r \in bundle /\ r # L)
    BY <1>1, <1>3, <1>5, <1>7
  <2>2. \A r \in bundle : r.profile.controller # Reference
    BY <1>7 DEF BundleInv, L
  <2>3. L \notin Use!Enriched
    BY <1>4, <2>1
  <2>4. \A r \in Use!Enriched : RowTrue(r) /\ RowShape(r) /\ r.profile.controller # Use!Unknown
    BY <1>4, <1>5, <1>6, <2>1 DEF BundleInv
  <2>5. \A r, s \in Use!Enriched : r.sel = s.sel /\ Use!Compatible(r.profile, s.profile) => r = s
    <3> SUFFICES ASSUME NEW r \in Use!Enriched, NEW s \in Use!Enriched, r.sel = s.sel,
                        Use!Compatible(r.profile, s.profile)
                 PROVE  r = s
      OBVIOUS
    <3>1. r.profile.controller = s.profile.controller
      BY DEF Use!Compatible
    <3>2. r = U <=> s = U
      BY <1>4, <2>1, <2>2, <3>1
    <3> QED
      BY <2>1, <3>2 DEF BundleInv
  <2> QED
    BY <2>3, <2>4, <2>5 DEF L
<1>8. CASE ~(L \in bundle /\ Reference \in catalog)
  <2>1. \A r \in bundle : Up(r) = r
    BY <1>3, <1>5, <1>8
  <2>2. Use!Enriched = bundle
    BY <1>1, <2>1
  <2>3. \A r \in bundle : r.profile.controller = Use!Unknown => r = L /\ Reference \notin catalog
    BY <1>5, <1>8
  <2>4. /\ \A r \in bundle : RowTrue(r) /\ RowShape(r)
        /\ L \in bundle => \A r \in bundle : r.profile.controller # Reference
        /\ \A r, s \in bundle : r.sel = s.sel /\ Use!Compatible(r.profile, s.profile) => r = s
    BY DEF BundleInv, L
  <2> QED
    BY <2>2, <2>3, <2>4 DEF L
<1> QED
  BY <1>7, <1>8

(* attach_bundled_descriptions of rows that are true.                      *)
LEMMA AttachKeeps ==
  ASSUME EditInv, NEW rows, \A r \in rows : RowTrue(r), Use!Idle, Use!Attach(rows),
         written' = Use!None, UNCHANGED <<catalog, bundle, scans, there, swaps, session, pending>>
  PROVE  EditInv'
<1>1. artifact # Use!None /\ pending = Use!None /\ ArtifactShape /\ ArtifactInv
      /\ artifact.sel \in {"local", "remote"}
  BY DEF Use!Idle, EditInv, ArtifactInv
<1> DEFINE live == IF artifact.live = Use!None THEN Use!None ELSE Use!Bound(rows)
<1>2. PICK bundled : /\ artifact' = [artifact EXCEPT !.live = live, !.bundled = bundled]
                     /\ bundled # Use!None => RowTrue(bundled.row)
  <2> DEFINE one == CHOOSE x \in Use!Selected(rows) : TRUE
             p == Use!Profile(artifact)
             b == IF Use!Cardinality(Use!Selected(rows)) # 1 THEN Use!None
                  ELSE [row |-> one, sel |-> one.sel,
                        exact |-> one.profile = p \/ Use!Compatible(one.profile, p),
                        refused |-> \/ Use!Conflicting(one.profile, p)
                                    \/ ~Use!Compatible(one.profile, p)
                                    \/ live # Use!None /\ ~live.match]
  <2>1. artifact' = [artifact EXCEPT !.live = live, !.bundled = b]
    BY Zenon DEF Use!Attach
  <2>2. Use!Selected(rows) \subseteq rows
    BY DEF Use!Selected, Use!Candidates
  <2>3. Use!Selected(rows) # {} => one \in rows
    BY <2>2
  <2>4. b # Use!None => b.row = one /\ Use!Selected(rows) # {}
    BY OneMember
  <2> HIDE DEF b, one, p
  <2>5. b # Use!None => RowTrue(b.row)
    BY <2>3, <2>4
  <2> QED
    BY <2>1, <2>5
<1>3. live # Use!None => /\ artifact.live # Use!None /\ LiveShape(live)
                         /\ live.limits = artifact.live.limits
  <2> SUFFICES ASSUME artifact.live # Use!None
               PROVE  LiveShape(Use!Bound(rows)) /\ Use!Bound(rows).limits = artifact.live.limits
    OBVIOUS
  <2>1. LiveShape(artifact.live)
    BY <1>1 DEF ArtifactInv
  <2>2. PICK target, match, provenance :
          Use!Bound(rows) = [artifact.live EXCEPT !.target = target, !.match = match,
                                                  !.provenance = provenance]
    BY Zenon DEF Use!Bound
  <2> QED
    BY <2>1, <2>2 DEF LiveShape
<1> HIDE DEF live
<1>4. artifact' = [sel |-> artifact.sel, where |-> artifact.where, evidence |-> artifact.evidence,
                   type |-> artifact.type, presence |-> artifact.presence,
                   answered |-> artifact.answered, live |-> live, bundled |-> bundled]
  BY <1>1, <1>2 DEF ArtifactShape
<1>5. ArtifactInv'
  <2>1. /\ artifact'.sel = artifact.sel /\ artifact'.where = artifact.where
        /\ artifact'.evidence = artifact.evidence /\ artifact'.live = live
        /\ artifact'.bundled = bundled /\ ArtifactShape'
    BY <1>4 DEF ArtifactShape
  <2> QED
    BY <1>1, <1>2, <1>3, <2>1 DEF ArtifactInv
<1>6. artifact' # Use!None
  BY <1>1, <1>4 DEF Use!None
<1> QED
  BY <1>1, <1>5, <1>6 DEF EditInv, CountersInv, BundleInv, PendingInv, WrittenInv

LEMMA ScanKeeps == EditInv /\ Use!Scan => EditInv'
<1> SUFFICES ASSUME EditInv, Use!Scan PROVE EditInv'
  OBVIOUS
<1>1. /\ artifact = Use!None /\ scans' = scans + 1 /\ written' = Use!None
      /\ UNCHANGED <<catalog, bundle, there, swaps, session, pending>>
  BY DEF Use!Scan
<1>2. PICK sel \in {"local", "remote"} : \E evidence \in Use!Evidence(sel) :
        \/ Use!Scanned(sel, evidence, "number", "other", FALSE, Use!None)
        \/ \E type \in {"number", "date"} :
           \E presence \in {"present", "other"}, live \in Use!Live(sel, type) :
             /\ sel = "remote" => presence = "present"
             /\ Use!Scanned(sel, evidence, type, presence, TRUE, live)
  BY Zenon DEF Use!Scan
<1>3. PICK evidence \in Use!Evidence(sel) :
        \/ Use!Scanned(sel, evidence, "number", "other", FALSE, Use!None)
        \/ \E type \in {"number", "date"} :
           \E presence \in {"present", "other"}, live \in Use!Live(sel, type) :
             /\ sel = "remote" => presence = "present"
             /\ Use!Scanned(sel, evidence, type, presence, TRUE, live)
  BY Zenon, <1>2
<1>4. PICK type, presence, answered, live :
        /\ Use!Scanned(sel, evidence, type, presence, answered, live)
        /\ live = Use!None \/ live \in Use!Live(sel, type)
  BY Zenon, <1>3
<1>5. artifact' = [sel |-> sel, where |-> there, evidence |-> evidence, type |-> type,
                   presence |-> presence, answered |-> answered, live |-> live,
                   bundled |-> Use!None]
  BY <1>4 DEF Use!Scanned
<1>6. artifact' # Use!None
  BY <1>2, <1>5 DEF Use!None
<1>7. /\ evidence.controller \in {there.controller, Use!Unknown, Use!Conflict}
      /\ evidence.device \in {Use!Behind(sel, there.device), Use!Behind(sel, Use!Unknown)}
  BY DEF Use!Evidence
<1>8. live # Use!None => LiveShape(live) /\ live.limits = Use!Limits(sel)
  <2>1. CASE live \in {Use!None}
    BY <2>1
  <2>2. CASE live = [sel |-> sel, matched |-> FALSE, step |-> FALSE, limits |-> Use!Limits(sel),
                     provenance |-> "none", target |-> Use!None, match |-> FALSE]
    BY <2>2 DEF LiveShape
  <2>3. CASE live \in [sel : {sel}, matched : {TRUE},
                       step : IF type = "date" THEN {TRUE} ELSE BOOLEAN,
                       limits : {Use!Limits(sel)},
                       provenance : {"selector_qualified", "length_inferred", "none"},
                       target : {Use!None}, match : {FALSE}]
    BY <2>3 DEF LiveShape
  <2> QED
    BY <1>4, <2>1, <2>2, <2>3, Zenon DEF Use!Live
<1>9. ArtifactInv'
  <2>1. /\ artifact'.sel = sel /\ artifact'.where = there /\ artifact'.evidence = evidence
        /\ artifact'.live = live /\ artifact'.bundled = Use!None /\ ArtifactShape'
    BY <1>5 DEF ArtifactShape
  <2> QED
    BY <1>2, <1>7, <1>8, <2>1 DEF ArtifactInv, Use!Limits
<1>10. CountersInv'
  BY <1>1, <1>6, LimitNames DEF EditInv, CountersInv
<1>11. pending = Use!None
  BY <1>1 DEF EditInv, PendingInv
<1> QED
  BY <1>1, <1>9, <1>10, <1>11 DEF EditInv, BundleInv, PendingInv, WrittenInv

(* merge_description_baselines: a new row replaces the one of its identity.*)
LEMMA PublishKeeps == EditInv /\ Use!Publish => EditInv'
<1> SUFFICES ASSUME EditInv, Use!Publish PROVE EditInv'
  OBVIOUS
<1> DEFINE new == CHOOSE r \in Use!Exported : TRUE
           E == Use!Enriched
           p == Use!Profile(artifact)
           live == artifact.live
           compatible == {r \in E : r.sel = new.sel /\ Use!Compatible(r.profile, new.profile)}
           exact == {r \in compatible : r.profile = new.profile}
           matches == IF exact # {} THEN exact ELSE compatible
<1>1. /\ pending = Use!None /\ artifact # Use!None /\ Use!Exported # {} /\ written' = Use!None
      /\ UNCHANGED <<catalog, scans, artifact, there, swaps, session, pending>>
      /\ bundle' = IF Use!Cardinality(matches) = 1 THEN (E \ matches) \cup {new} ELSE E \cup {new}
  BY Zenon DEF Use!Publish, Use!Idle, Use!Merged
<1>2. /\ Use!Qualified(p) /\ live # Use!None
      /\ new = [sel |-> artifact.sel, profile |-> p, signature |-> Use!Unknown,
                type |-> artifact.type, limits |-> live.limits, step |-> live.step,
                scope |-> IF artifact.type = "date" THEN "display_only" ELSE "range"]
  <2>1. new \in Use!Exported
    BY <1>1
  <2> HIDE DEF new
  <2> QED
    BY <2>1 DEF Use!Exported
<1>3. /\ BundleInv /\ CountersInv /\ ArtifactInv /\ ArtifactInv' /\ CountersInv'
  BY <1>1 DEF EditInv, ArtifactInv, ArtifactShape, CountersInv
<1>4. /\ p = [controller |-> p.controller, id |-> p.id, device |-> p.device]
      /\ p.controller = artifact.evidence.controller /\ p.device = artifact.evidence.device
      /\ p.id # Use!Unknown /\ Use!Known(p)
  BY <1>2 DEF Use!Profile, Use!Qualified
<1>5. p.controller \in catalog
  BY <1>4 DEF Use!Profile
<1> HIDE DEF new, p
<1>6. /\ new.profile = p /\ new.limits = live.limits /\ new.sel = artifact.sel /\ RowShape(new)
  BY <1>2, <1>4 DEF RowShape
<1>7. RowTrue(new) /\ new.profile.controller # Use!Unknown /\ new.profile.controller \in catalog
  <2>1. /\ artifact.evidence.controller = artifact.where.controller
        /\ artifact.evidence.controller \in Controllers
        /\ artifact.evidence.device = Use!Behind(artifact.sel, artifact.where.device)
    BY <1>1, <1>3, <1>4, EvidenceIsOfTheDevice DEF p
  <2>2. live.limits = [controller |-> artifact.where.controller,
                       device |-> Use!Behind(artifact.sel, artifact.where.device)]
    BY <1>1, <1>2, <1>3 DEF ArtifactInv
  <2> QED
    BY <1>4, <1>5, <1>6, <2>1, <2>2, LimitNames DEF RowTrue
<1>8. /\ \A r \in E : /\ RowTrue(r) /\ RowShape(r)
                      /\ r.profile.controller = Use!Unknown =>
                           r = Use!Legacy(Reference) /\ Reference \notin catalog
      /\ \A r, s \in E : r.sel = s.sel /\ Use!Compatible(r.profile, s.profile) => r = s
      /\ Use!Legacy(Reference) \in E => \A r \in E : r.profile.controller # Reference
  BY <1>3, EnrichedRows, Zenon
<1> HIDE DEF E
<1>9. \A r, s \in compatible : r = s
  BY <1>8 DEF Use!Compatible
<1>10. bundle' \subseteq E \cup {new} /\ \A r \in bundle' : r \in compatible => r = new
  <2>1. CASE matches = {}
    <3>1. compatible = {}
      BY <2>1
    <3> QED
      BY <1>1, <2>1, <3>1, OneMember
  <2>2. CASE matches # {}
    <3>1. PICK x : x \in matches
      BY <2>2
    <3>2. matches = {x} /\ compatible = {x}
      BY <1>9, <3>1
    <3>3. Use!Cardinality(matches) = 1
      BY <3>2, OneMember
    <3>4. bundle' = (E \ {x}) \cup {new}
      BY <1>1, <3>2, <3>3
    <3> QED
      BY <3>2, <3>4
  <2> QED
    BY <2>1, <2>2
<1>11. \A r \in bundle' : r.sel = new.sel /\ Use!Compatible(r.profile, new.profile) => r = new
  BY <1>10
<1> HIDE DEF compatible, exact, matches
<1>12. \A r, s \in bundle' : r.sel = s.sel /\ Use!Compatible(r.profile, s.profile) => r = s
  <2> SUFFICES ASSUME NEW r \in bundle', NEW s \in bundle', r.sel = s.sel,
                      Use!Compatible(r.profile, s.profile)
               PROVE  r = s
    OBVIOUS
  <2>1. CASE r = new \/ s = new
    <3>1. Use!Compatible(s.profile, r.profile)
      BY DEF Use!Compatible
    <3> QED
      BY <1>11, <2>1, <3>1
  <2>2. CASE ~(r = new \/ s = new)
    BY <1>8, <1>10, <2>2
  <2> QED
    BY <2>1, <2>2
<1>13. /\ \A r \in bundle' : /\ RowTrue(r) /\ RowShape(r)
                             /\ r.profile.controller = Use!Unknown => r = Use!Legacy(Reference)
  BY <1>6, <1>7, <1>8, <1>10
<1>14. Use!Legacy(Reference) \in bundle' => \A r \in bundle' : r.profile.controller # Reference
  <2>1. Use!Legacy(Reference).profile.controller = Use!Unknown
    BY DEF Use!Legacy
  <2>2. ASSUME Use!Legacy(Reference) \in bundle'
        PROVE  Use!Legacy(Reference) \in E /\ Reference \notin catalog
    BY <1>7, <1>8, <1>10, <2>1, <2>2
  <2> QED
    BY <1>7, <1>8, <1>10, <2>2
<1>15. BundleInv'
  BY <1>12, <1>13, <1>14 DEF BundleInv
<1> QED
  BY <1>1, <1>3, <1>15 DEF EditInv, PendingInv, WrittenInv

(* attach_native_descriptions: the limits of the reference profile.        *)
LEMMA AttachNativeKeeps == EditInv /\ Use!AttachNative => EditInv'
<1> SUFFICES ASSUME EditInv, Use!AttachNative PROVE EditInv'
  OBVIOUS
<1> DEFINE local == [Use!Profile(artifact) EXCEPT !.device = "none"]
<1>1. PICK agree \in BOOLEAN :
        Use!Attach(IF Use!Qualified(local) /\ local.controller = Reference
                   THEN {Use!NativeRow(agree)} ELSE {})
  BY Zenon DEF Use!AttachNative
<1>2. local.controller = Reference => RowTrue(Use!NativeRow(agree))
  <2>1. local = [controller |-> local.controller, id |-> local.id, device |-> "none"]
    BY DEF Use!Profile
  <2>2. Use!NativeRow(agree).profile = local
        /\ Use!NativeRow(agree).limits = [controller |-> Reference, device |-> "none"]
    BY DEF Use!NativeRow
  <2> HIDE DEF local
  <2> QED
    BY <2>1, <2>2 DEF RowTrue
<1> HIDE DEF local
<1>3. /\ Use!Idle /\ written' = Use!None
      /\ UNCHANGED <<catalog, bundle, scans, there, swaps, session, pending>>
  BY DEF Use!AttachNative
<1> DEFINE rows == IF Use!Qualified(local) /\ local.controller = Reference
                   THEN {Use!NativeRow(agree)} ELSE {}
<1>4. Use!Attach(rows) /\ \A r \in rows : RowTrue(r)
  BY <1>1, <1>2
<1> HIDE DEF rows
<1> QED
  BY <1>3, <1>4, AttachKeeps

(* An edit prepared has its verdict from limits of the device scanned.     *)
LEMMA PrepareKeeps == EditInv /\ Use!Prepare => EditInv'
<1> SUFFICES ASSUME EditInv, Use!Prepare PROVE EditInv'
  OBVIOUS
<1>1. /\ artifact # Use!None /\ written' = Use!None
      /\ UNCHANGED <<catalog, bundle, scans, artifact, there, swaps, session>>
  BY DEF Use!Prepare, Use!Idle
<1>2. PICK value \in {"within", "beyond"} :
        /\ Use!Verdict(Use!Effective, value) # "rejected"
        /\ pending' = [sel |-> artifact.sel, live |-> session, value |-> value,
                       description |-> Use!Effective,
                       verdict |-> Use!Verdict(Use!Effective, value)]
  BY Zenon DEF Use!Prepare
<1>3. /\ CountersInv' /\ BundleInv' /\ ArtifactInv'
  BY <1>1 DEF EditInv, CountersInv, BundleInv, ArtifactInv, ArtifactShape
<1>4. Use!Effective # Use!None =>
        Use!ReadFrom(Use!Effective.limits, artifact.sel, artifact.where)
  BY <1>1, EffectiveIsTrue DEF EditInv
<1>5. /\ pending'.sel = artifact.sel /\ pending'.value = value
      /\ pending'.description = Use!Effective
      /\ pending'.verdict = Use!Verdict(Use!Effective, value)
  BY <1>2
<1>6. PendingInv'
  BY <1>1, <1>2, <1>4, <1>5 DEF PendingInv, Use!ReadFrom, Use!Verdict
<1> QED
  BY <1>1, <1>3, <1>6 DEF EditInv, WrittenInv

(* The writer sees the identity of the device it writes to, which is the   *)
(* identity of the device scanned.                                         *)
LEMMA WriteKeeps == EditInv /\ Use!Write => EditInv'
<1> SUFFICES ASSUME EditInv, Use!Write PROVE EditInv'
  OBVIOUS
<1>1. /\ pending # Use!None /\ Use!SameNative /\ Use!SameDevice
      /\ Use!Effective = pending.description
      /\ written' = [sel |-> pending.sel, to |-> there, write |-> pending]
      /\ pending' = Use!None
      /\ UNCHANGED <<catalog, bundle, scans, artifact, there, swaps, session>>
  BY DEF Use!Write
<1>2. /\ CountersInv' /\ BundleInv' /\ ArtifactInv'
  BY <1>1 DEF EditInv, CountersInv, BundleInv, ArtifactInv, ArtifactShape
<1>3. /\ PendingInv /\ ArtifactInv /\ artifact # Use!None /\ pending.sel = artifact.sel
  BY <1>1 DEF EditInv, PendingInv
<1> DEFINE d == pending.description
<1>4. d # Use!None => Use!ReadFrom(d.limits, pending.sel, there)
  <2> SUFFICES ASSUME d # Use!None PROVE Use!ReadFrom(d.limits, pending.sel, there)
    OBVIOUS
  <2>1. /\ Use!Known(Use!Profile(artifact))
        /\ Use!ReadFrom(d.limits, artifact.sel, artifact.where)
    BY <1>1, <1>3, EffectiveIsTrue
  <2>2. /\ artifact.evidence.controller = artifact.where.controller
        /\ artifact.evidence.device = Use!Behind(artifact.sel, artifact.where.device)
    BY <1>3, <2>1, EvidenceIsOfTheDevice
  <2>3. /\ artifact.evidence.controller = there.controller
        /\ artifact.sel = "remote" => artifact.evidence.device = there.device
    BY <1>1 DEF Use!SameNative, Use!SameDevice
  <2> QED
    BY <1>3, <2>1, <2>2, <2>3 DEF Use!ReadFrom, Use!Behind
<1>5. /\ d # Use!None /\ d.scope = "range" => pending.value = "within"
      /\ pending.verdict = "valid" => d # Use!None
  <2>1. /\ pending.verdict = Use!Verdict(d, pending.value) /\ pending.verdict # "rejected"
        /\ pending.value \in {"within", "beyond"}
    BY <1>1, <1>3 DEF PendingInv
  <2>2. ASSUME d # Use!None, d.scope = "range", pending.value = "beyond" PROVE FALSE
    <3>1. Use!Verdict(d, pending.value) = "rejected"
      BY <2>2 DEF Use!Verdict
    <3> QED
      BY <2>1, <3>1
  <2>3. ASSUME d = Use!None PROVE pending.verdict # "valid"
    BY <2>1, <2>3 DEF Use!Verdict
  <2> QED
    BY <2>1, <2>2, <2>3
<1>6. written'.write = pending /\ written'.to = there
  BY <1>1
<1> HIDE DEF d
<1>7. WrittenInv'
  BY <1>4, <1>5, <1>6 DEF WrittenInv, d, Use!ReadFrom
<1> QED
  BY <1>1, <1>2, <1>7 DEF EditInv, PendingInv

LEMMA EditStep == EditInv /\ Use!Next => EditInv'
<1> SUFFICES ASSUME EditInv, Use!Next PROVE EditInv'
  OBVIOUS
<1> USE DEF EditInv
<1>1. CASE Use!AttachBaseline
  <2>1. \A r \in Use!Enriched : RowTrue(r)
    BY EnrichedRows
  <2>2. /\ Use!Idle /\ Use!Attach(Use!Enriched) /\ written' = Use!None
        /\ UNCHANGED <<catalog, bundle, scans, there, swaps, session, pending>>
    BY <1>1 DEF Use!AttachBaseline
  <2> QED
    BY <2>1, <2>2, AttachKeeps
<1>2. CASE Use!PutAside
  <2>1. /\ artifact' = Use!None /\ scans < MaxScans /\ pending = Use!None /\ written' = Use!None
        /\ UNCHANGED <<catalog, bundle, scans, pending, session>>
    BY <1>2 DEF Use!PutAside
  <2> QED
    BY <2>1 DEF CountersInv, BundleInv, ArtifactInv, PendingInv, WrittenInv
<1>3. CASE Use!Upgrade
  <2>1. /\ catalog' \subseteq Controllers /\ pending = Use!None /\ written' = Use!None
        /\ UNCHANGED <<artifact, bundle, scans, pending, session>>
    BY <1>3 DEF Use!Upgrade, Use!Idle, CountersInv
  <2> QED
    BY <2>1 DEF CountersInv, BundleInv, ArtifactInv, ArtifactShape, PendingInv, WrittenInv
<1>4. CASE Use!Connect \/ Use!Disconnect \/ Use!Drop \/ Use!Swap
  <2>1. /\ session' \in BOOLEAN /\ written' = Use!None
        /\ pending' \in {pending, Use!None}
        /\ UNCHANGED <<artifact, bundle, scans, catalog>>
    BY <1>4 DEF Use!Connect, Use!Disconnect, Use!Drop, Use!Swap, CountersInv
  <2>2. CountersInv' /\ BundleInv' /\ WrittenInv'
    BY <2>1 DEF CountersInv, BundleInv, WrittenInv
  <2>3. ArtifactInv'
    BY <2>1 DEF ArtifactInv, ArtifactShape
  <2>4. PendingInv'
    BY <2>1 DEF PendingInv
  <2> QED
    BY <2>2, <2>3, <2>4
<1>5. CASE Use!Scan \/ Use!AttachNative \/ Use!Publish \/ Use!Prepare \/ Use!Write
  <2> USE DEF EditInv
  <2> QED
    BY <1>5, ScanKeeps, AttachNativeKeeps, PublishKeeps, PrepareKeeps, WriteKeeps
<1> QED
  BY <1>1, <1>2, <1>3, <1>4, <1>5, Zenon DEF Use!Next

(* For any controllers and devices, any number of scans and replacements:  *)
(* the limits an edit is checked against, and written under, were read     *)
(* from a device of the identity they are used for                         *)
(* (effective_parameter_description, execute_parameter_write).             *)
THEOREM LimitsHold == AllSpec => []LimitsTrue
<1> DEFINE I == part = "limits" => EditInv
<1>1. AllInit => I
  BY InitEdits DEF AllInit
<1>2. I /\ [AllNext]_allVars => I'
  <2> SUFFICES ASSUME I, [AllNext]_allVars PROVE I'
    OBVIOUS
  <2>1. CASE part = "limits" /\ Use!Next /\ part' = part
    BY <2>1, EditStep
  <2>2. CASE UNCHANGED <<part, onlyUse>>
    <3>1. UNCHANGED <<part, catalog, bundle, scans, artifact, session, pending, written>>
      BY <2>2 DEF onlyUse
    <3> QED
      BY <3>1 DEF EditInv, CountersInv, BundleInv, ArtifactInv, ArtifactShape, PendingInv,
                  WrittenInv
  <2> QED
    BY <2>1, <2>2 DEF AllNext, allVars, OthersThanUse, OthersThanDiscovery
<1>3. I => LimitsTrue
  BY EditInvIsEnough DEF LimitsTrue
<1> QED
  BY <1>1, <1>2, <1>3, PTL DEF AllSpec
=============================================================================
