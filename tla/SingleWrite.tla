---------------------------- MODULE SingleWrite ----------------------------
(***************************************************************************)
(* What a confirmed write promises, whatever the transport and the device  *)
(* do: at most one frame is sent for it, a report that nothing was sent is *)
(* true, and a report is made after the last frame.                        *)
(***************************************************************************)
EXTENDS Naturals

VARIABLES phase,    \* "checking", "sending" or "reported"
          frames,   \* frames of the write that reached the wire
          claim     \* "none", "nothing_sent", or "read_back"

vars == <<phase, frames, claim>>

Init == phase = "checking" /\ frames = 0 /\ claim = "none"

(* A check fails, or there is nothing to change.                           *)
Refuse == /\ phase = "checking" /\ phase' = "reported"
          /\ claim' = "nothing_sent" /\ UNCHANGED frames

(* All checks have passed; the transport may still send nothing.           *)
Commit == /\ phase = "checking" /\ phase' = "sending" /\ UNCHANGED <<frames, claim>>
Transmit == /\ phase = "sending" /\ frames = 0 /\ frames' = 1 /\ UNCHANGED <<phase, claim>>

(* What is reported then rests on reading the register again.              *)
Report == /\ phase = "sending" /\ phase' = "reported"
          /\ claim' \in {"read_back", "nothing_sent"}
          /\ claim' = "nothing_sent" => frames = 0
          /\ UNCHANGED frames

Next == Refuse \/ Commit \/ Transmit \/ Report
Spec == Init /\ [][Next]_vars
=============================================================================
