---------------------------- MODULE EbusdSession ----------------------------
(***************************************************************************)
(* How the ebusd transport cuts the byte stream of a connection into the   *)
(* responses of its commands: _send_command_lines with the line readers    *)
(* and the drain of trailing lines, one command after another.             *)
(*                                                                         *)
(* A line is two pieces of the stream, its text and its end; a blank line  *)
(* is an end alone.  Pieces carry the number of the command they answer.   *)
(* The daemon may pause between any two pieces; the silence the drain      *)
(* waits for is _POST_RESPONSE_DRAIN_TIMEOUT_S.                            *)
(***************************************************************************)
EXTENDS Naturals, Sequences, SequencesExt

CONSTANTS MaxOps,   \* bound: commands on one run
          LatePauses  \* the daemon may fall silent for a whole drain window
                      \* before a response is complete

SessionConstants == MaxOps \in Nat \ {0} /\ LatePauses \in BOOLEAN

VARIABLES
  pc,          \* "idle", "read" (the first line), "drain" or "all" (read_all)
  persistent,  \* _session_depth > 0
  connection,  \* "open" or "closed"
  due,         \* pieces the daemon has still to send
  wire,        \* pieces that arrived and are not read
  rx,          \* _EbusdTcpSession.rx
  received,    \* bytes were read since the drain began
  op,          \* number of the current command
  lines,       \* the commands whose lines were collected
  result       \* "none", "lines", "timeout", "error" or "deadline"

stream == <<connection, due, wire, rx>>
vars == <<pc, persistent, stream, received, op, lines, result>>

-----------------------------------------------------------------------------
Text(n) == [op |-> n, end |-> FALSE]
Newline(n) == [op |-> n, end |-> TRUE]
Line(n) == <<Text(n), Newline(n)>>
Blank(n) == <<Newline(n)>>

(* What the daemon answers: nothing, or a payload or ERR line, perhaps     *)
(* trailing error lines, perhaps the blank line that ends a response.      *)
Responses(n) ==
  {<<>>, Blank(n), Line(n), Line(n) \o Blank(n), Line(n) \o Line(n),
   Line(n) \o Line(n) \o Blank(n)}

HasLine(buffer) == \E i \in DOMAIN buffer : buffer[i].end
FirstEnd(buffer) == CHOOSE i \in DOMAIN buffer :
                      buffer[i].end /\ \A j \in 1..(i - 1) : ~buffer[j].end
FirstLine(buffer) == SubSeq(buffer, 1, FirstEnd(buffer))
OpsOf(pieces) == {pieces[i].op : i \in DOMAIN pieces}
AfterLine(buffer) == SubSeq(buffer, FirstEnd(buffer) + 1, Len(buffer))

-----------------------------------------------------------------------------
Init ==
  /\ pc = "idle" /\ persistent = FALSE /\ connection = "closed"
  /\ due = <<>> /\ wire = <<>> /\ rx = <<>> /\ received = FALSE
  /\ op = 0 /\ lines = {} /\ result = "none"

Closed == connection' = "closed" /\ due' = <<>> /\ wire' = <<>> /\ rx' = <<>>

(* session() is entered or left between commands.                          *)
SessionContext ==
  /\ pc = "idle" /\ persistent' = ~persistent
  /\ IF persistent THEN Closed
       ELSE connection' = "open" /\ UNCHANGED <<due, wire, rx>>
  /\ result' = "none" /\ lines' = {}
  /\ UNCHANGED <<pc, received, op>>

(* The command is sent on the persistent connection, unless that is closed *)
(* or still holds bytes of an earlier command, else on a new one.          *)
Send(n, response) ==
  /\ pc = "idle" /\ op < MaxOps /\ n = op + 1
  /\ op' = n /\ pc' \in {"read", "all"} /\ lines' = {} /\ result' = "none"
  /\ received' = FALSE /\ connection' = "open"
  /\ IF persistent /\ connection = "open" /\ rx = <<>>
       THEN due' = due \o response /\ UNCHANGED <<wire, rx>>
       ELSE due' = response /\ wire' = <<>> /\ rx' = <<>>
  /\ UNCHANGED persistent

(* Some more of the response arrives.                                      *)
Arrive ==
  /\ due # <<>>
  /\ \E k \in 1..Len(due) :
       wire' = wire \o SubSeq(due, 1, k) /\ due' = SubSeq(due, k + 1, Len(due))
  /\ UNCHANGED <<pc, persistent, connection, rx, received, op, lines, result>>

(* One recv of _recv_line, when the buffer holds no complete line.         *)
Receive ==
  /\ pc # "idle" /\ ~HasLine(rx) /\ wire # <<>>
  /\ rx' = rx \o wire /\ wire' = <<>> /\ received' = TRUE
  /\ UNCHANGED <<pc, persistent, connection, due, op, lines, result>>

(* The command succeeds with what was read; a connection whose tail is not *)
(* isolated is closed.  A command that is not persistent closes its own.   *)
Finish(isolated, rest) ==
  /\ pc' = "idle" /\ result' = "lines"
  /\ IF persistent /\ isolated
       THEN rx' = rest /\ UNCHANGED <<connection, due, wire>>
       ELSE Closed
Fail(r) == pc' = "idle" /\ result' = r /\ Closed

(* The next line is taken off the buffer.                                  *)
TakeLine ==
  /\ pc # "idle" /\ HasLine(rx)
  /\ LET line == FirstLine(rx) rest == AfterLine(rx) IN
       \/ /\ Len(line) = 1                  \* the blank line ends the response
          /\ Finish(rest = <<>>, rest) /\ UNCHANGED <<received, lines>>
       \/ /\ Len(line) > 1
          /\ lines' = lines \union OpsOf(line)
          /\ rx' = rest /\ UNCHANGED <<connection, due, wire, result>>
          /\ IF pc = "read" THEN pc' = "drain" /\ received' = FALSE
                            ELSE UNCHANGED <<pc, received>>
  /\ UNCHANGED <<persistent, op>>

(* Mutant of TailIsolated: a trickle is taken for silence.                 *)
TrickleIsolated == TRUE
TailIsolated == ~received /\ rx = <<>>
(* The drain window is over without a blank line.                          *)
DrainWindowEnds ==
  /\ pc = "drain" /\ ~HasLine(rx) /\ wire = <<>>
  /\ LatePauses \/ due = <<>> \/ received
  /\ Finish(TailIsolated, rx)
  /\ UNCHANGED <<persistent, received, op, lines>>

(* The drain is skipped: too little is left of the operation's deadline.   *)
DrainSkipped ==
  /\ pc = "drain" /\ ~received
  /\ Finish(FALSE, <<>>)
  /\ UNCHANGED <<persistent, received, op, lines>>

(* Mutant of DrainEndsAt: an error while draining fails the command.       *)
DrainErrorFails == Fail("error")
DrainEndsAt == Finish(FALSE, <<>>)
(* The daemon closes, or the socket fails: an unterminated tail counts as  *)
(* a line when the peer closed; no response at all is an error.            *)
ConnectionEnds ==
  /\ pc # "idle" /\ wire = <<>> /\ ~HasLine(rx)
  /\ \/ pc = "drain" /\ DrainEndsAt /\ lines' \in {lines, lines \union OpsOf(rx)}
     \/ pc # "drain" /\ Finish(FALSE, <<>>) /\ lines' = lines \union OpsOf(rx)
     \/ pc # "drain" /\ Fail("error") /\ UNCHANGED lines
  /\ UNCHANGED <<persistent, received, op>>

(* timeout_s passes without a line, or before the command is sent.         *)
(* read_all takes a wait without a line for the end of the response.       *)
ReadTimeout ==
  /\ pc \in {"read", "all"} /\ wire = <<>> /\ ~HasLine(rx)
  /\ \/ Fail("timeout")
     \/ pc = "all" /\ Finish(FALSE, <<>>)
  /\ UNCHANGED <<persistent, received, op, lines>>

(* The operation's deadline passes: nothing is accepted any more.          *)
DeadlineExpires ==
  /\ pc # "idle" /\ Fail("deadline")
  /\ UNCHANGED <<persistent, received, op, lines>>

Next ==
  \/ SessionContext \/ (\E n \in 1..MaxOps : \E r \in Responses(n) : Send(n, r))
  \/ Arrive \/ Receive \/ TakeLine
  \/ DrainWindowEnds \/ DrainSkipped \/ ConnectionEnds \/ ReadTimeout \/ DeadlineExpires

Spec == Init /\ [][Next]_vars

-----------------------------------------------------------------------------
(* Everything buffered, on its way or due belongs to an open connection.   *)
Pieces == Seq([op : 1..MaxOps, end : BOOLEAN])
TypeOK ==
  /\ pc \in {"idle", "read", "drain", "all"} /\ persistent \in BOOLEAN
  /\ connection \in {"open", "closed"}
  /\ due \in Pieces /\ wire \in Pieces /\ rx \in Pieces /\ received \in BOOLEAN
  /\ op \in 0..MaxOps /\ lines \subseteq 1..MaxOps
  /\ result \in {"none", "lines", "timeout", "error", "deadline"}
  /\ connection = "closed" => due = <<>> /\ wire = <<>> /\ rx = <<>>

(* "Bytes left from an earlier command never reach this one": every line a *)
(* command returns was sent in answer to it, in whatever pieces the        *)
(* responses arrive and however the commands before it ended.              *)
OwnLines == result = "lines" => lines \subseteq {op}

(* "Never lend an unread tail to the next command": between commands the   *)
(* connection that is kept has nothing buffered.                           *)
NothingBuffered == TypeOK /\ (pc = "idle" => rx = <<>>)
=============================================================================
