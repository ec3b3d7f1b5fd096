------------------------------ MODULE EditLimits ------------------------------
(***************************************************************************)
(* Which limits an edited value is checked against.  A description of a    *)
(* parameter was read from one device; it is published in a baseline,      *)
(* merged with others, attached to the artifacts of later scans, and given *)
(* to the editor and to the writer when the identities allow it.  An       *)
(* artifact holds one register here, of the controller itself ("local") or *)
(* of a remote device behind it.  What the writer sends is ParameterWrite. *)
(***************************************************************************)
EXTENDS Naturals, FiniteSets, FiniteSetsExt

CONSTANTS Controllers,   \* native identities: EID, SW, HW, API, profile
          Devices,       \* class and firmware of remote devices
          Reference,     \* the controller of the published native profile
          MaxScans, MaxSwaps   \* bounds: artifacts; devices replaced meanwhile

VARIABLES
  catalog,    \* controllers in the description profile catalogue
  bundle,     \* baseline rows: sel, profile, type, limits, step, scope
  scans,
  artifact,   \* sel, where (the device scanned), evidence of its identity, type,
              \* answered, presence, live and bundled descriptions
  there,      \* the device now at the other end
  swaps,
  session,    \* the browser is connected and has checked EID/SW/HW
  pending,    \* the prepared write
  written     \* the write of this step, for the properties

vars == <<catalog, bundle, scans, artifact, there, swaps, session, pending, written>>

None == [sel |-> "none"]
Unknown == "unknown"
Conflict == "conflict"      \* api_identity_conflicts
LimitConstants ==
  /\ Reference \in Controllers /\ MaxScans \in Nat \ {0} /\ MaxSwaps \in Nat
  /\ {Unknown, Conflict} \cap Controllers = {} /\ Unknown \notin Devices
Somewhere == [controller : Controllers, device : Devices]
Behind(sel, d) == IF sel = "remote" THEN d ELSE "none"
Limits(sel) == [controller |-> there.controller, device |-> Behind(sel, there.device)]

(* Mutant of Profile: without the selector, so without the remote device.  *)
ControllerProfile(a) ==
  [controller |-> a.evidence.controller,
   id |-> IF a.evidence.controller \in catalog THEN a.evidence.controller ELSE Unknown,
   device |-> "none"]

(* description_profile, normalize_api_identity: the evidence of the        *)
(* artifact, and the catalogue entry it matches; the fields that no        *)
(* comparison of identities uses are left out.                             *)
Profile(a) ==
  [controller |-> a.evidence.controller,
   id |-> IF a.evidence.controller \in catalog THEN a.evidence.controller ELSE Unknown,
   device |-> a.evidence.device]
Known(p) == p.controller \in Controllers /\ p.device # Unknown   \* _observed_native_profile
Qualified(p) == Known(p) /\ p.id # Unknown                       \* _qualified_profile

Compatible(p, q) ==
  Qualified(p) /\ Qualified(q) /\ p.controller = q.controller /\ p.id = q.id /\ p.device = q.device
Conflicting(p, q) ==
  \/ Conflict \in {p.controller, q.controller}
  \/ \E v, w \in {<<p.controller, q.controller>>, <<p.id, q.id>>, <<p.device, q.device>>} :
       v = w /\ Unknown \notin {v[1], v[2]} /\ v[1] # v[2]

(* A legacy row has no native identity; _enrich_bundle_profiles gives it   *)
(* the one of the catalogue entry with its model and firmware.             *)
Enriched ==
  {IF r.profile.controller = Unknown /\ r.signature \in catalog
   THEN [r EXCEPT !.profile.controller = r.signature, !.profile.id = r.signature] ELSE r :
   r \in bundle}
Legacy(c) ==
  [sel |-> "local", profile |-> [controller |-> Unknown, id |-> Unknown, device |-> "none"],
   signature |-> c, type |-> "number", limits |-> [controller |-> c, device |-> "none"],
   step |-> TRUE, scope |-> "range"]

Init ==
  /\ catalog \in SUBSET Controllers
  /\ bundle \in {{}, {Legacy(Reference)}}
  /\ there \in Somewhere /\ there.device = CHOOSE d \in Devices : TRUE   \* they are alike
  /\ scans = 0 /\ artifact = None /\ swaps = 0
  /\ session = FALSE /\ pending = None /\ written = None
-----------------------------------------------------------------------------
(* A scan of whatever device is there.  Its evidence is complete, missing  *)
(* or contradictory, and never of another device; a Describe reply is      *)
(* matched or not, with the codec's provenance (an old artifact has none). *)
Live(sel, type) ==
  {None, [sel |-> sel, matched |-> FALSE, step |-> FALSE, limits |-> Limits(sel),
          provenance |-> "none", target |-> None, match |-> FALSE]}
  \cup [sel : {sel}, matched : {TRUE}, step : IF type = "date" THEN {TRUE} ELSE BOOLEAN,
        limits : {Limits(sel)}, provenance : {"selector_qualified", "length_inferred", "none"},
        target : {None}, match : {FALSE}]
Evidence(sel) ==
  [controller : {there.controller, Unknown, Conflict},
   device : {Behind(sel, there.device), Behind(sel, Unknown)}]

Scanned(sel, evidence, type, presence, answered, live) ==
  artifact' = [sel |-> sel, where |-> there, evidence |-> evidence, type |-> type,
               presence |-> presence, answered |-> answered, live |-> live, bundled |-> None]
Scan ==
  /\ artifact = None /\ scans' = scans + 1
  /\ \E sel \in {"local", "remote"} :
     \E evidence \in Evidence(sel) :
       \/ Scanned(sel, evidence, "number", "other", FALSE, None)
       \/ \E type \in {"number", "date"} :
          \E presence \in {"present", "other"}, live \in Live(sel, type) :
             /\ sel = "remote" => presence = "present"     \* only native rows look at it
             /\ Scanned(sel, evidence, type, presence, TRUE, live)
  /\ written' = None /\ UNCHANGED <<catalog, bundle, there, swaps, session, pending>>
(* The program ends; the baseline files it leaves are those of the next.   *)
PutAside ==
  /\ artifact # None /\ pending = None /\ ~session /\ scans < MaxScans
  /\ artifact' = None
  /\ written' = None /\ UNCHANGED <<catalog, bundle, scans, there, swaps, session, pending>>
-----------------------------------------------------------------------------
(* attach_bundled_descriptions with some rows.                             *)
Candidates(rows) == {r \in rows : r.sel = artifact.sel}
Selected(rows) ==
  LET C == Candidates(rows)
      exact == {r \in C : r.profile = Profile(artifact)}
      compatible == {r \in C : Compatible(r.profile, Profile(artifact))}
  IN IF exact # {} THEN exact ELSE IF compatible # {} THEN compatible ELSE C

CodecSupported(rows) ==
  Qualified(Profile(artifact)) /\
  \E r \in Candidates(rows) : r.type = artifact.type /\ Compatible(r.profile, Profile(artifact))

(* The live description is bound to the profile of its first attachment.   *)
Bound(rows) ==
  LET live == artifact.live
      target == IF live.target = None THEN Profile(artifact) ELSE live.target
  IN [live EXCEPT !.target = target,
                  !.match = Known(Profile(artifact)) /\ target = Profile(artifact),
                  !.provenance = IF @ \in {"selector_qualified", "length_inferred"} THEN @
                                 ELSE IF CodecSupported(rows) THEN "selector_qualified"
                                 ELSE "legacy_unknown"]

(* The old annotation is dropped first; several candidates leave none.     *)
Attach(rows) ==
  LET p == Profile(artifact)
      live == IF artifact.live = None THEN None ELSE Bound(rows)
      bundled ==
        IF Cardinality(Selected(rows)) # 1 THEN None
        ELSE LET r == CHOOSE x \in Selected(rows) : TRUE IN
             [row |-> r, sel |-> r.sel,
              exact |-> r.profile = p \/ Compatible(r.profile, p),
              refused |-> \/ Conflicting(r.profile, p)
                          \/ ~Compatible(r.profile, p)
                          \/ live # None /\ ~live.match]
  IN artifact' = [artifact EXCEPT !.live = live, !.bundled = bundled]

Idle == pending = None /\ artifact # None
AttachBaseline ==
  /\ Idle /\ Attach(Enriched)
  /\ written' = None /\ UNCHANGED <<catalog, bundle, scans, there, swaps, session, pending>>

(* attach_native_descriptions: the local records of the reference profile, *)
(* when the artifact is of it; limits need the agreement of all instances. *)
NativeRow(agree) ==
  [sel |-> "local", profile |-> [Profile(artifact) EXCEPT !.device = "none"],
   signature |-> Reference, type |-> artifact.type,
   limits |-> [controller |-> Reference, device |-> "none"], step |-> TRUE,
   scope |-> IF agree THEN "native" ELSE "native_disagreeing"]
AttachNative ==
  /\ Idle
  /\ LET local == [Profile(artifact) EXCEPT !.device = "none"] IN
     \E agree \in BOOLEAN :
       Attach(IF Qualified(local) /\ local.controller = Reference THEN {NativeRow(agree)} ELSE {})
  /\ written' = None /\ UNCHANGED <<catalog, bundle, scans, there, swaps, session, pending>>

(* export_description_baseline: a matched, selector-qualified reply of a   *)
(* qualified profile.                                                      *)
Exported ==
  LET live == artifact.live IN
  IF /\ artifact.answered /\ Qualified(Profile(artifact)) /\ live # None /\ live.matched
     /\ live.provenance = "selector_qualified" /\ live.target \in {None, Profile(artifact)}
  THEN {[sel |-> artifact.sel, profile |-> Profile(artifact), signature |-> Unknown,
         type |-> artifact.type, limits |-> live.limits, step |-> live.step,
         scope |-> IF artifact.type = "date" THEN "display_only" ELSE "range"]}
  ELSE {}

(* merge_description_baselines: one compatible row is replaced; with any   *)
(* other number of them the new one gets a row of its own.                 *)
Merged(rows, new) ==
  LET compatible == {r \in rows : r.sel = new.sel /\ Compatible(r.profile, new.profile)}
      exact == {r \in compatible : r.profile = new.profile}
      matches == IF exact # {} THEN exact ELSE compatible
  IN IF Cardinality(matches) = 1 THEN (rows \ matches) \cup {new} ELSE rows \cup {new}

Publish ==
  /\ Idle /\ Exported # {}
  /\ bundle' = Merged(Enriched, CHOOSE r \in Exported : TRUE)
  /\ written' = None /\ UNCHANGED <<catalog, scans, artifact, there, swaps, session, pending>>

(* A later version of the program knows another controller.                *)
Upgrade ==
  /\ Idle /\ ~session /\ \E c \in Controllers \ catalog : catalog' = catalog \cup {c}
  /\ written' = None /\ UNCHANGED <<bundle, scans, artifact, there, swaps, session, pending>>
-----------------------------------------------------------------------------
(* effective_parameter_description: exact live metadata, then a row of the *)
(* same identity.  A native row limits only a slot seen to be present.     *)
Scope(row) ==
  IF row.scope \in {"range", "display_only"} THEN row.scope
  ELSE IF artifact.presence = "present" /\ artifact.answered /\ row.scope = "native"
          /\ row.type # "date"
       THEN "range" ELSE "display_only"
Effective ==
  LET p == Profile(artifact)
      live == artifact.live
      cached == artifact.bundled
  IN IF ~artifact.answered THEN None
     ELSE IF /\ live # None /\ live.matched /\ live.provenance = "selector_qualified"
             /\ Known(p) /\ live.target = p /\ live.match
     THEN [sel |-> live.sel, source |-> "live", limits |-> live.limits, step |-> live.step,
           scope |-> IF artifact.type = "date" THEN "display_only" ELSE "range"]
     ELSE IF /\ Qualified(p) /\ cached # None /\ cached.sel = artifact.sel
             /\ cached.row.type = artifact.type /\ Compatible(cached.row.profile, p)
             /\ cached.exact /\ ~cached.refused
     THEN [sel |-> cached.sel, source |-> "profile", limits |-> cached.row.limits,
           step |-> cached.row.step, scope |-> Scope(cached.row)]
     ELSE None

(* _validate_description and validate_parameter_edit: a value out of range *)
(* is rejected; without a description, or its step, it takes an exception  *)
(* that is confirmed by itself; limits that grant nothing reject it.       *)
Verdict(description, value) ==
  CASE description = None -> "exception"
    [] description # None /\ description.scope = "display_only" ->
         IF description.step THEN "rejected" ELSE "exception"
    [] description # None /\ description.scope = "range" ->
         IF value = "beyond" THEN "rejected" ELSE IF description.step THEN "valid" ELSE "exception"

(* read_browser_identity when connecting: EID, SW and HW of the artifact.  *)
SameNative == artifact.evidence.controller = there.controller
Connect ==
  /\ Idle /\ ~session /\ SameNative /\ session' = TRUE
  /\ written' = None /\ UNCHANGED <<catalog, bundle, scans, artifact, there, swaps, pending>>
Disconnect ==
  /\ session /\ session' = FALSE /\ pending = None
  /\ written' = None /\ UNCHANGED <<catalog, bundle, scans, artifact, there, swaps, pending>>

(* _fresh_profile: the remote class and firmware are read again.           *)
SameDevice == artifact.sel = "remote" => artifact.evidence.device = there.device
(* An edit, of the fresh context or offline, prepared and confirmed.       *)
Prepare ==
  /\ Idle /\ artifact.evidence.controller \in Controllers
  /\ artifact.sel = "remote" => artifact.evidence.device # Unknown    \* _validate_profile
  /\ session => SameNative /\ SameDevice
  /\ \E value \in {"within", "beyond"} :
       /\ Verdict(Effective, value) # "rejected"
       /\ pending' = [sel |-> artifact.sel, live |-> session, value |-> value,
                      description |-> Effective, verdict |-> Verdict(Effective, value)]
  /\ written' = None /\ UNCHANGED <<catalog, bundle, scans, artifact, there, swaps, session>>
Drop ==
  /\ pending # None /\ pending' = None
  /\ written' = None /\ UNCHANGED <<catalog, bundle, scans, artifact, there, swaps, session>>

(* execute_parameter_write: the checks again, and a description resolved   *)
(* from the artifact as it was when the user confirmed.                    *)
Write ==
  /\ pending # None /\ pending.live /\ SameNative /\ SameDevice
  /\ Effective = pending.description
  /\ written' = [sel |-> pending.sel, to |-> there, write |-> pending]
  /\ pending' = None
  /\ UNCHANGED <<catalog, bundle, scans, artifact, there, swaps, session>>

(* Somebody replaces the controller, or the remote device.                 *)
Swap ==
  /\ swaps < MaxSwaps /\ swaps' = swaps + 1
  /\ \E d \in Somewhere \ {there} : there' = d
  /\ written' = None /\ UNCHANGED <<catalog, bundle, scans, artifact, session, pending>>

Next ==
  \/ Scan \/ PutAside \/ AttachBaseline \/ AttachNative \/ Publish \/ Upgrade \/ Connect \/ Disconnect
  \/ Prepare \/ Drop \/ Write \/ Swap
Spec == Init /\ [][Next]_vars
-----------------------------------------------------------------------------
ReadFrom(limits, sel, device) ==
  limits.controller = device.controller /\ (sel = "remote" => limits.device = device.device)

(* A description the editor and the writer use was read from a device of   *)
(* the identity it is used for, whatever baselines were published, merged  *)
(* and attached in between and whatever device was put in its place; and a *)
(* value out of its limits is never written.                               *)
TypeOK == scans \in 0..MaxScans /\ session \in BOOLEAN /\ catalog \subseteq Controllers
EditsTrue ==
  /\ pending # None /\ pending.description # None =>
       ReadFrom(pending.description.limits, pending.sel, artifact.where)
  /\ written # None =>
       LET w == written.write IN
       /\ w.description # None => ReadFrom(w.description.limits, w.sel, written.to)
       /\ w.description # None /\ w.description.scope = "range" => w.value = "within"
       /\ w.verdict = "valid" => w.description # None
(* A row says whose limits it has, and no two rows speak for one identity. *)
RowsTrue ==
  /\ \A r \in bundle : r.profile.controller # Unknown =>
       r.limits.controller = r.profile.controller /\ r.limits.device = r.profile.device
  /\ \A r, s \in bundle : r.sel = s.sel /\ Compatible(r.profile, s.profile) => r = s
LimitsTrue == TypeOK /\ EditsTrue /\ RowsTrue
=============================================================================
