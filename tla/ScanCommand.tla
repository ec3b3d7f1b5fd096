------------------------------ MODULE ScanCommand ------------------------------
(***************************************************************************)
(* The scan and discover commands: the setup dialog, the checks made       *)
(* before any connection, the destination found through ebusd, the retry   *)
(* dialog after a failed start, and the files and screens made from what   *)
(* the scan returned.  What a scan reads is B524Scan and ProtocolDumps;    *)
(* here it returns an artifact or fails.                                   *)
(***************************************************************************)
EXTENDS Naturals, FiniteSetsExt

CONSTANTS Addresses,   \* eBUS addresses, numbers above 0
          Preferred,   \* 0x15
          Hosts,       \* host and port pairs the user may type
          MaxRetries   \* bound: settings entered in the retry dialog

Auto == 0              \* dst = "auto"
CommandConstants ==
  Addresses \subseteq Nat \ {Auto} /\ Preferred \in Addresses /\ MaxRetries \in Nat /\ Hosts # {}

VARIABLES
  command, tty, preset,   \* "scan" or "discover"; is_terminal; --preset
  settings,   \* transport_settings: protocol, as typed, and host
  phase,      \* where the command is
  setup,      \* ScanSetup: dst, dry, preset, planner, files (its paths and ranges)
  targets,    \* per host, the B524 regulators its ebusd reaches (external)
  left, found,   \* addresses still to be identified; those that answered
  dst, identity, \* dst_u8; the <<host, address>> identity was read at
  opened, retries, prepared, scans,  \* transports built, dialogs, output_dir, scan_started
  saved, shown,  \* the file written, and what the browser was opened on
  code        \* exit status; "raised" for an escaping exception

asked == <<command, tty, preset, targets>>
probing == <<left, found>>
made == <<saved, shown>>
vars == <<asked, settings, phase, setup, probing, dst, identity, opened, retries, prepared,
          scans, made, code>>

None == [host |-> "none", dst |-> 0]
NoSetup == [dst |-> Auto, dry |-> FALSE, preset |-> "none", planner |-> "disabled", files |-> "ok"]

Init ==
  /\ command \in {"scan", "discover"} /\ tty \in BOOLEAN
  /\ preset \in {"none", "recommended", "custom", "invalid"}
  /\ settings \in [protocol : {"tcp", "enhanced", "other"}, host : Hosts]
  /\ command = "discover" => settings.protocol = "tcp" /\ preset = "none"
  /\ phase = IF command = "scan" THEN "setup" ELSE "open"
  /\ setup = NoSetup /\ targets \in [Hosts -> SUBSET Addresses]
  /\ left = {} /\ found = {} /\ dst = 0 /\ identity = None
  /\ opened = 0 /\ retries = 0 /\ prepared = FALSE /\ scans = 0
  /\ saved = None /\ shown = None /\ code = "none"

Exit(with) == phase' = "exit" /\ code' = with
-----------------------------------------------------------------------------
(* _collect_scan_setup: without a terminal only --preset is taken, and the *)
(* planner is off; the dialog locks a preset of the command line and only  *)
(* returns values it has checked, or None.                                 *)
Offered ==
  [dst : {Auto} \cup Addresses, dry : BOOLEAN, planner : {"auto"}, files : {"ok", "rejected"},
   preset : IF preset = "none" THEN {"recommended", "custom"} ELSE {preset}]

CollectSetup ==
  /\ phase = "setup"
  /\ \/ /\ preset = "invalid" \/ (~tty /\ preset = "none")
        /\ Exit("2") /\ UNCHANGED setup
     \/ /\ preset # "invalid" /\ tty /\ Exit("0") /\ UNCHANGED setup
     \/ /\ preset # "invalid" /\ phase' = "configure" /\ UNCHANGED code
        /\ IF tty THEN setup' \in Offered
           ELSE /\ preset # "none"
                /\ setup' = [dst |-> IF settings.protocol = "enhanced" THEN Preferred ELSE Auto,
                             dry |-> FALSE, planner |-> "disabled", preset |-> preset,
                             files |-> "ok"]
  /\ UNCHANGED <<asked, settings, probing, dst, identity, opened, retries, prepared, scans, made>>

(* The checks of _scan_configured before the output directory is touched.  *)
Refused ==
  \/ settings.protocol = "other"
  \/ settings.protocol # "tcp" /\ setup.dst = Auto /\ ~setup.dry
  \/ setup.preset = "custom" /\ (setup.planner = "disabled" \/ ~tty)

(* Then the directory, the CSV files and mappings, the B509 ranges; in a   *)
(* dry run the bundled fixture is shown, or scanned on DummyTransport.     *)
Configure ==
  /\ phase = "configure"
  /\ \/ /\ Refused /\ Exit("2") /\ UNCHANGED <<prepared, dst>>
     \/ /\ ~Refused /\ Exit("2") /\ UNCHANGED <<prepared, dst>>   \* OSError
     \/ /\ ~Refused /\ prepared' = TRUE
        /\ \/ setup.files = "rejected" /\ Exit("2") /\ UNCHANGED dst
           \/ /\ setup.files = "ok" /\ UNCHANGED code
              /\ IF setup.dry
                 THEN phase' = "result" /\ dst' = (IF setup.dst = Auto THEN Preferred ELSE setup.dst)
                 ELSE phase' = "open" /\ UNCHANGED dst
  /\ UNCHANGED <<asked, settings, setup, probing, identity, opened, retries, scans, made>>
-----------------------------------------------------------------------------
Starting == {"connect", "resolve", "probe", "identify"}

(* _build_transport; an unknown protocol is a BadParameter, outside the    *)
(* try statement.                                                          *)
Open ==
  /\ phase = "open"
  /\ IF settings.protocol \in {"tcp", "enhanced"}
     THEN phase' = "connect" /\ opened' = opened + 1 /\ UNCHANGED code
     ELSE Exit("2") /\ UNCHANGED opened
  /\ UNCHANGED <<asked, settings, setup, probing, dst, identity, retries, prepared, scans, made>>

(* Mutant of Connected: the destination of the first try is kept.          *)
ConnectedOnce ==
  /\ phase = "connect" /\ left' = {} /\ found' = {}
  /\ IF setup.dst = Auto
     THEN phase' = (IF dst = 0 THEN "resolve" ELSE "identify") /\ UNCHANGED dst
     ELSE phase' = "identify" /\ dst' = setup.dst
  /\ UNCHANGED <<asked, settings, setup, identity, opened, retries, prepared, scans, made, code>>

Connected ==
  /\ phase = "connect" /\ left' = {} /\ found' = {}
  /\ IF setup.dst = Auto THEN phase' = "resolve" /\ UNCHANGED dst
                         ELSE phase' = "identify" /\ dst' = setup.dst
  /\ UNCHANGED <<asked, settings, setup, identity, opened, retries, prepared, scans, made, code>>

(* The wake-up broadcast (best effort), then the addresses of "info".      *)
InfoAnswers ==
  /\ phase = "resolve" /\ settings.protocol = "tcp"
  /\ left' \in SUBSET Addresses
  /\ IF left' = {} THEN Exit("2") ELSE phase' = "probe" /\ UNCHANGED code
  /\ UNCHANGED <<asked, settings, setup, found, dst, identity, opened, retries, prepared, scans,
                 made>>

(* One address: 07/04 with its retries, and for a regulator two directory  *)
(* probes.  A silent one is passed over; one that answers is on this ebusd.*)
ProbeAddress ==
  /\ phase = "probe" /\ left # {}
  /\ left' = left \ {Min(left)}
  /\ found' \in {found} \cup (IF command = "discover" \/ Min(left) \in targets[settings.host]
                              THEN {found \cup {Min(left)}} ELSE {})
  /\ UNCHANGED <<asked, settings, phase, setup, dst, identity, opened, retries, prepared, scans,
                 made, code>>

Chosen == IF Preferred \in found THEN Preferred ELSE Min(found)

Resolved ==
  /\ phase = "probe" /\ left = {} /\ command = "scan"
  /\ IF found = {} THEN Exit("2") /\ UNCHANGED dst
                   ELSE phase' = "identify" /\ dst' = Chosen /\ UNCHANGED code
  /\ UNCHANGED <<asked, settings, setup, probing, identity, opened, retries, prepared, scans, made>>

(* discover prints the devices, and the B524 groups of 0x15 if it is one.  *)
Listed ==
  /\ phase = "probe" /\ left = {} /\ command = "discover"
  /\ \/ found = {} /\ Exit("2")
     \/ found # {} /\ Exit("0")
     \/ Preferred \in found /\ Exit("1")
  /\ UNCHANGED <<asked, settings, setup, probing, dst, identity, opened, retries, prepared, scans,
                 made>>

(* _probe_scan_identity; refused scan-id chunks leave its rest.  Then the  *)
(* preface and the observer, and scan_started.                             *)
ScanStarts ==
  /\ phase = "identify" /\ phase' = "scanning"
  /\ identity' = [host |-> settings.host, dst |-> dst] /\ scans' = scans + 1
  /\ UNCHANGED <<asked, settings, setup, probing, dst, opened, retries, prepared, made, code>>
-----------------------------------------------------------------------------
(* ERR: command not enabled, from any request.                             *)
NotEnabled ==
  /\ phase \in Starting \cup {"scanning"} /\ Exit("2")
  /\ UNCHANGED <<asked, settings, setup, probing, dst, identity, opened, retries, prepared, scans,
                 made>>

(* Mutant of Recoverable: a scan that lost its adapter is offered a retry. *)
RecoverableAlways == tty
(* not scan_started and _can_prompt_transport_retry.                       *)
Recoverable == tty /\ phase # "scanning"

(* A TransportError or timeout of session(), "info", the identity or the   *)
(* scan: discover does not catch it, and a started scan raises it again.   *)
Fails ==
  /\ phase \in {"connect", "resolve", "identify", "scanning"}
  /\ IF command = "discover" THEN Exit("raised")
     ELSE IF Recoverable THEN phase' = "dialog" /\ UNCHANGED code
     ELSE IF phase = "scanning" THEN Exit("raised") ELSE Exit("1")
  /\ UNCHANGED <<asked, settings, setup, probing, dst, identity, opened, retries, prepared, scans,
                 made>>

(* _prompt_transport_retry_settings: the dialog knows only ebusd; if it    *)
(* cannot run, prompts take any protocol, keep the settings when the port  *)
(* is not one, or give up.                                                 *)
Retry ==
  /\ phase = "dialog" /\ retries < MaxRetries
  /\ \/ /\ settings' \in [protocol : {"tcp", "enhanced", "other"}, host : Hosts]
        /\ phase' = "open" /\ retries' = retries + 1 /\ UNCHANGED code
     \/ Exit("1") /\ UNCHANGED <<settings, retries>>
  /\ UNCHANGED <<asked, setup, probing, dst, identity, opened, prepared, scans, made>>

(* scan_vrc returns an artifact, complete or not.                          *)
ScanReturns ==
  /\ phase = "scanning" /\ phase' = "result"
  /\ UNCHANGED <<asked, settings, setup, probing, dst, identity, opened, retries, prepared, scans,
                 made, code>>
-----------------------------------------------------------------------------
(* Schema sources, identity and descriptions, then the JSON file.          *)
Save ==
  /\ phase = "result" /\ phase' = "saved"
  /\ saved' = (IF setup.dry THEN [None EXCEPT !.dst = dst] ELSE identity)
  /\ UNCHANGED <<asked, settings, setup, probing, dst, identity, opened, retries, prepared, scans,
                 shown, code>>
(* The Browser on a terminal, offline until the user connects, with the    *)
(* endpoint of the scan; a missing textual is only reported.               *)
Browse ==
  /\ phase = "saved" /\ phase' = "browsed"
  /\ \/ tty /\ shown' = [host |-> IF setup.dry THEN "none" ELSE settings.host, dst |-> dst]
     \/ UNCHANGED shown
  /\ UNCHANGED <<asked, settings, setup, probing, dst, identity, opened, retries, prepared, scans,
                 saved, code>>
(* The HTML report and the summary.                                        *)
Report ==
  /\ phase = "browsed" /\ Exit("0")
  /\ UNCHANGED <<asked, settings, setup, probing, dst, identity, opened, retries, prepared, scans,
                 made>>
(* A disk that is full, or any other exception on the way.                 *)
OutputFails ==
  /\ phase \in {"result", "saved", "browsed"} /\ Exit("raised")
  /\ UNCHANGED <<asked, settings, setup, probing, dst, identity, opened, retries, prepared, scans,
                 made>>

Next ==
  \/ CollectSetup \/ Configure \/ Open \/ Connected \/ InfoAnswers \/ ProbeAddress
  \/ Resolved \/ Listed \/ ScanStarts \/ NotEnabled \/ Fails \/ Retry \/ ScanReturns
  \/ Save \/ Browse \/ Report \/ OutputFails

Spec == Init /\ [][Next]_vars
-----------------------------------------------------------------------------
TypeOK ==
  /\ phase \in Starting \cup {"setup", "configure", "open", "dialog", "scanning", "result",
                              "saved", "browsed", "exit"}
  /\ found \subseteq Addresses /\ dst \in Addresses \cup {0} /\ scans \in 0..1
  /\ code \in {"none", "0", "1", "2", "raised"} /\ (code # "none" <=> phase = "exit")

(* The artifact, its identity and the connection offered to the Browser    *)
(* name one regulator, on the endpoint that was scanned: with a destination*)
(* found automatically it is one which that ebusd reaches, however many    *)
(* endpoints were tried before.                                            *)
ResultTrue ==
  /\ TypeOK
  /\ saved # None /\ ~setup.dry =>
       /\ saved = [host |-> settings.host, dst |-> dst]
       /\ IF setup.dst = Auto THEN dst \in targets[settings.host] ELSE dst = setup.dst
  /\ shown # None => IF setup.dry THEN shown.host = "none" ELSE shown = saved
  /\ code = "0" /\ prepared => saved # None

(* "Once scanning starts, transport failure does not reopen this setup     *)
(* dialog or restart the scan": nothing is connected before the directory  *)
(* is ready, and nothing is connected or asked after the scan.  (A step.)   *)
StartsOnce ==
  /\ scans = 1 => UNCHANGED <<settings, opened, retries, scans, dst, identity>>
  /\ scans = 1 => phase' \notin {"dialog", "open"}
  /\ opened' > opened /\ command = "scan" => prepared /\ ~setup.dry
=============================================================================
