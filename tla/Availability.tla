------------------------------ MODULE Availability ------------------------------
(***************************************************************************)
(* What one register read says about an instance slot: read_register turns *)
(* whatever the transport did into an entry, and probe_instance_availability *)
(* turns the entry into present, absent or unknown by the contract of the  *)
(* namespace.  A namespace is a read opcode (2 local, 6 remote) and a group.*)
(***************************************************************************)
EXTENDS Naturals

(* What becomes of one read: the exceptions of the transport, the replies  *)
(* that hold no value, and the values the contracts tell apart.  "visible" *)
(* values come with FLAGS 0x03, the others with FLAGS 0x02 or 0x00.        *)
Silent == {"nack", "timeout"}
Faults == Silent \union {"protocol", "error"}
Broken == {"garbled", "unparsed"}          \* wrong header or short; wrong codec
Bare == {"empty", "status", "flag"}        \* no byte; 00 or FF; another lone byte
Values == {"zero", "zero visible", "some", "some visible", "sentinel"}
Answers == Faults \union Broken \union Bare \union Values

(* Mutant of Entry: a reply of one status byte is a reading like any other. *)
StatusIsReading(a) ==
  [state |-> CASE a \in Silent -> a [] a = "empty" -> "empty_reply"
               [] a \in {"protocol", "error"} -> "none" [] OTHER -> "active",
   error |-> a \in Faults \union Broken, raw |-> a \in Values \union {"unparsed", "status"},
   value |-> IF a \in Values THEN a ELSE "none", unknown |-> a = "protocol"]

(* read_register.  flags_access is never "absent" in an entry: the one     *)
(* reply it stands for, a lone 00, gets no access at all.                  *)
Entry(a) ==
  [state |-> CASE a \in Silent -> a [] a = "empty" -> "empty_reply"
               [] a = "status" -> "status_only" [] a \in {"protocol", "error"} -> "none"
               [] OTHER -> "active",
   error |-> a \in Faults \union Broken, raw |-> a \in Values \union {"unparsed"},
   value |-> IF a \in Values THEN a ELSE "none", unknown |-> a = "protocol"]

(* _entry_is_readable, and the stricter test of the research probes.       *)
Readable(a) == Entry(a).state \in {"active", "empty_reply"} /\ ~Entry(a).error
ReadableValue(a) == Readable(a) /\ Entry(a).state = "active" /\ Entry(a).raw

ConnectedDeviceGroups == {1, 2, 3} \union (5..15)
ExploratoryGroups == {6, 7, 8, 11, 12, 13, 14, 15, 16, 17}

(* namespace_availability_contract: which predicate decides.               *)
Contract(op, gg, profile) ==
  CASE op = 2 /\ gg = 1 -> "native DHW"
    [] op = 2 /\ gg = 2 -> "circuit"
    [] op = 2 /\ gg = 3 -> "zone"
    [] op = 2 /\ gg = 5 -> "cylinder"
    [] op = 2 /\ gg = 4 -> "solar"
    [] op = 6 /\ gg \in ConnectedDeviceGroups -> "device"
    [] op = 6 /\ gg \notin ConnectedDeviceGroups -> "header"
    [] op = 2 /\ gg = 9 /\ profile = "basv0" -> "unqualified"
    [] op = 2 /\ gg \in {9, 10} /\ ~(gg = 9 /\ profile = "basv0") -> "readable"
    [] op = 2 /\ gg \in ExploratoryGroups -> "readable"
    [] OTHER -> "always"

Negative == {"zero", "zero visible"}
(* The value says the slot is there, by the contract's positive_when.      *)
Positive(contract, profile, v) ==
  CASE contract \in {"native DHW", "device"} -> v \notin Negative \union {"none"}
    [] contract = "circuit" ->
         v \in {"some", "some visible"} \/ (v = "zero visible" /\ profile # "basv2")
    [] contract \in {"zone", "cylinder"} -> v \notin {"none", "sentinel"}
    [] contract = "solar" -> v \in {"zero visible", "some visible"}
    [] OTHER -> TRUE

(* probe_instance_availability after its first read; a "header" namespace  *)
(* then tries other registers.  "unknown" is availability_qualification,   *)
(* and the artifact says present: null.  No Boolean decodes to a sentinel. *)
Verdict(op, gg, profile, a) ==
  LET contract == Contract(op, gg, profile)
      e == Entry(a)
      sure == IF Positive(contract, profile, e.value) THEN "present" ELSE "absent"
  IN CASE contract = "always" -> "present"
       [] op = 2 /\ (e.error \/ e.state \in {"empty_reply", "status_only"}) -> "unknown"
       [] contract = "unqualified" -> "unknown"
       [] contract \in {"native DHW", "device"} ->
            IF ~e.error /\ e.value # "none" /\ (contract = "device" => e.value # "sentinel")
            THEN sure ELSE "unknown"
       [] contract = "solar" -> IF sure = "present" THEN sure ELSE "unknown"
       [] contract = "header" ->
            IF e.unknown \/ e.state = "status_only" THEN "unknown" ELSE "absent"
       [] OTHER -> sure
=============================================================================
