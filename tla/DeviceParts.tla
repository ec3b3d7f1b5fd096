------------------------------ MODULE DeviceParts ------------------------------
(***************************************************************************)
(* What the explorer holds to be true of the devices it talks to: which    *)
(* groups and instances they have (Discovery), and which limits their      *)
(* parameters have (EditLimits).  A behaviour shows one part; the variables*)
(* of EditLimits stay 0 in the other, those of Discovery at an initial     *)
(* state.                                                                  *)
(***************************************************************************)
EXTENDS Discovery

CONSTANTS Controllers, Devices, Reference, MaxScans, MaxSwaps

VARIABLES
  part,   \* the part a behaviour shows
  (* of EditLimits *)
  catalog, bundle, scans, artifact, there, swaps, session, pending, written

Use == INSTANCE EditLimits

ASSUME DeviceConstants == Use!LimitConstants

onlyUse == <<catalog, bundle, scans, artifact, there, swaps, session, pending,
             written>>
allVars == <<part, onlyUse, vars>>

(* The variables of a part that is not shown.                               *)
NoUse ==
  /\ catalog = 0 /\ bundle = 0 /\ scans = 0 /\ artifact = 0 /\ there = 0 /\ swaps = 0
  /\ session = 0 /\ pending = 0 /\ written = 0
NoDiscovery ==
  /\ Init /\ preset = "recommended" /\ profile = "other"
-----------------------------------------------------------------------------
AllInit ==
  \/ /\ part = "limits" /\ NoDiscovery /\ Use!Init
  \/ /\ part = "discovery" /\ Init
     /\ NoUse

OthersThanUse ==
  UNCHANGED <<part, vars>>
OthersThanDiscovery ==
  UNCHANGED <<part, onlyUse>>

AllNext ==
  \/ part = "limits" /\ Use!Next /\ OthersThanUse
  \/ part = "discovery" /\ Next /\ OthersThanDiscovery

AllSpec == AllInit /\ [][AllNext]_allVars
-----------------------------------------------------------------------------
(* Limits: an edit is checked against limits read from a device of the     *)
(* identity that it is written to.                                         *)
LimitsTrue == part = "limits" => Use!LimitsTrue
=============================================================================
