---------------------------- MODULE EnhancedWire ----------------------------
(***************************************************************************)
(* One attempt of the enhanced-adapter transport on the wire               *)
(* (_send_proto_once, with the arbitration, symbol, framing and parser     *)
(* helpers it calls) and the adapter INFO query, one operation after       *)
(* another on a TCP connection that outlives them.                         *)
(*                                                                         *)
(* Symbols are abstracted to their role.  owed is the FIFO of frames the   *)
(* adapter still has to deliver for what the client sent, each tagged with *)
(* the operation and the telegram that caused it, so an answer may reach a *)
(* later operation; other frames may be read at any time.  A response is   *)
(* one unit, valid or not; the telegram after its source byte is sent in   *)
(* pieces, each when the one before it was echoed.                         *)
(***************************************************************************)
EXTENDS Naturals, Sequences

CONSTANTS Telegrams,    \* what may be sent
          NackMax,      \* nack_max_retries
          MaxOps        \* bound: operations on one run

(* Of a telegram: whether it is a recognized read (retry_safe), what the   *)
(* target sends back, its pieces, and what else tells it from others.      *)
AllTelegrams ==
  [safe : BOOLEAN, expects : {"none", "ack", "reply"}, pieces : Nat \ {0}, content : Nat]
ASSUME WireConstants ==
  /\ Telegrams \subseteq AllTelegrams /\ Telegrams # {}
  /\ NackMax \in Nat /\ MaxOps \in Nat \ {0}

VARIABLES
  pc,         \* "idle", or what the client is waiting for
  session,    \* the TCP connection, "open" or "closed"
  owed,       \* frames in flight: [what, op, telegram]
  op,         \* number of the current operation
  telegram,   \* what it sends: a member of Telegrams
  echoed,     \* pieces echoed so far
  nacks, crc_errors,
  mismatch_count,
  guard,      \* _post_grant_pre_echo
  ending,     \* result the pending end-of-message symbol completes
  result,     \* how the last operation ended
  admitted, transmitted,  \* admissions, and telegrams begun on the bus
  owned,      \* the bus was granted and not released since
  accepted    \* the frame, if any, whose content was returned

request == <<op, telegram>>
progress == <<echoed, nacks, crc_errors, ending>>
history == <<admitted, transmitted, owned, accepted>>
vars == <<pc, session, owed, request, progress, mismatch_count, guard, result, history>>

Results == {"none", "ok", "info", "hook_raised", "deadline", "timeout", "host", "disconnected",
            "collision", "crc", "nack", "syn", "sync_ack", "session_error", "error"}
OpenFailures == {"timeout", "host", "disconnected", "session_error", "error"}
Waits == {"arb", "send", "ack", "reply", "answer", "eom", "info"}

-----------------------------------------------------------------------------
Init ==
  /\ pc = "idle" /\ session = "closed" /\ owed = <<>>
  /\ op = 0 /\ telegram = CHOOSE t \in Telegrams : TRUE
  /\ echoed = 0 /\ nacks = 0 /\ crc_errors = 0 /\ ending = "none"
  /\ mismatch_count = 0 /\ guard = FALSE /\ result = "none"
  /\ admitted = 0 /\ transmitted = 0 /\ owned = FALSE /\ accepted = {}

(* q with what the adapter will answer to a frame of operation n, which    *)
(* sends telegram t.                                                       *)
OweFor(n, t, q, whats) ==
  q \o [i \in 1..Len(whats) |-> [what |-> whats[i], op |-> n, telegram |-> t]]
Owe(q, whats) == OweFor(op, telegram, q, whats)

(* What _reset_parser can leave of q: frames that had arrived are dropped, *)
(* those still travelling are not.                                         *)
Drained(q) == {SubSeq(q, k + 1, Len(q)) : k \in 0..Len(q)}
ResetParser(q) == owed' \in Drained(q) /\ guard' = FALSE /\ UNCHANGED <<session, owned>>
KeepLine(q) == owed' = q /\ UNCHANGED <<session, guard, owned>>
KeepQueue(q) == owed' = q /\ guard' = FALSE /\ UNCHANGED <<session, owned>>
Close == session' = "closed" /\ owed' = <<>> /\ guard' = FALSE /\ owned' = FALSE
End(r) == pc' = "idle" /\ result' = r

(* _open_session: connect, INIT, wait for RESETTED; a failure closes.      *)
OpenSession(r) ==
  \/ session' = "open" /\ owed' = <<>> /\ guard' = FALSE /\ owned' = FALSE /\ End(r)
  \/ Close /\ \E failure \in OpenFailures : End(failure)

(* A RESETTED frame: the adapter restarted, the connection is replaced.    *)
AdapterReset(r) == OpenSession(r)

-----------------------------------------------------------------------------
(* Between operations.                                                     *)

Open ==
  /\ pc = "idle" /\ session = "closed"
  /\ OpenSession("none")
  /\ UNCHANGED <<request, progress, mismatch_count, admitted, transmitted, accepted>>

CloseSession ==
  /\ pc = "idle" /\ session = "open" /\ Close /\ End("none")
  /\ UNCHANGED <<request, progress, mismatch_count, admitted, transmitted, accepted>>

NewOperation ==
  /\ pc = "idle" /\ session = "open" /\ op < MaxOps
  /\ op' = op + 1
  /\ echoed' = 0 /\ nacks' = 0 /\ crc_errors' = 0 /\ ending' = "none"
  /\ mismatch_count' = 0 /\ transmitted' = 0 /\ accepted' = {}

(* An attempt is admitted and asks for the bus.  The policy may have reset *)
(* the parser after the previous one.                                      *)
StartAttempt ==
  /\ NewOperation
  /\ telegram' \in Telegrams
  /\ pc' = "arb" /\ result' = "none" /\ admitted' = 1
  /\ \E q \in {owed} \union Drained(owed) : owed' = OweFor(op + 1, telegram', q, <<"grant">>)
  /\ UNCHANGED <<session, guard, owned>>

(* request_info: stale INFO frames that have arrived are discarded (here   *)
(* with everything before them), then the request is sent; a RESETTED      *)
(* among them reopens the session instead.                                 *)
RequestInfo ==
  /\ NewOperation
  /\ \/ /\ pc' = "info" /\ result' = "none" /\ admitted' = 1
        /\ \E q \in Drained(owed) : owed' = OweFor(op + 1, telegram, q, <<"info">>)
        /\ UNCHANGED <<session, guard, owned>>
     \/ OpenSession("timeout") /\ admitted' = 0
  /\ UNCHANGED telegram

-----------------------------------------------------------------------------
(* Reading.  A frame is the head of owed, delivered as one of its possible *)
(* outcomes, or a frame that nothing sent here caused.                     *)

Symbols == {"SYN", "foreign", "echo", "ACK", "NACK", "good", "bad"}

(* The echo check compares every symbol.  An echo of something else may    *)
(* pass for one piece, but a whole telegram passes only on the echoes of   *)
(* an identical one.  Mutant of EchoMatches: the check is left out.        *)
AnyEcho(frame) == TRUE
EchoMatches(frame) ==
  pc = "send" /\ echoed + 1 = telegram.pieces =>
    frame.what = "last" /\ frame.telegram = telegram
Deliveries(frame) ==
  CASE frame.what = "grant" -> {"STARTED", "WRONG", "FAILED", "ERROR_EBUS", "ERROR_HOST"}
    [] frame.what \in {"echo", "last"} ->
         {"foreign", "SYN"} \union {f \in {"echo"} : EchoMatches(frame)}
    [] frame.what = "ack"   -> {"ACK", "NACK", "SYN", "foreign"}
    [] frame.what = "reply" -> {"good", "bad", "SYN", "foreign"}
    [] frame.what = "info"  -> {"INFO", "ERROR_HOST"}
Unsolicited == {"SYN", "WRONG", "INFO", "UNKNOWN", "RESETTED", "ERROR_EBUS"}

(* What can be read now: the frame, what it answers, if anything, and what *)
(* is left in flight.  Without an ACK the target sends no reply.           *)
Withheld(ack, frame) == frame.what = "reply" /\ frame.op = ack.op
Left(f) ==
  IF Head(owed).what = "ack" /\ f # "ACK" /\ Tail(owed) # <<>> /\ Withheld(Head(owed), owed[2])
    THEN Tail(Tail(owed))
    ELSE Tail(owed)
Readable ==
  {[frame |-> f, from |-> {}, rest |-> owed] : f \in Unsolicited} \union
  (IF owed = <<>> THEN {}
   ELSE {[frame |-> f, from |-> {Head(owed)}, rest |-> Left(f)] : f \in Deliveries(Head(owed))})

(* What the adapter and the target send when piece n of the telegram       *)
(* reaches the bus.                                                        *)
Answers(n) ==
  IF n < telegram.pieces THEN <<"echo">>
  ELSE CASE telegram.expects = "none"  -> <<"last">>
         [] telegram.expects = "ack"   -> <<"last", "ack">>
         [] telegram.expects = "reply" -> <<"last", "ack", "reply">>

SendTelegram(q) ==
  /\ pc' = "send" /\ echoed' = 0 /\ transmitted' = transmitted + 1
  /\ owed' = Owe(q, Answers(1))
(* Mutant of SendEndOfMessage: the attempt ends without the final SYN.     *)
EndUnreleased(r, q) ==
  pc' = "idle" /\ result' = r /\ ending' = r /\ owed' = q
SendEndOfMessage(r, q) ==
  pc' = "eom" /\ UNCHANGED result /\ ending' = r /\ owed' = Owe(q, <<"echo">>)

-----------------------------------------------------------------------------
(* _start_arbitration.                                                     *)
GrantFrames == {"STARTED"}
ArbitrationRead(f, q) ==
  /\ pc = "arb"
  /\ \/ /\ f \in (Symbols \union {"INFO", "UNKNOWN"}) \ GrantFrames
        /\ owed' = q
        /\ UNCHANGED <<pc, session, guard, mismatch_count, result, owned, echoed, transmitted>>
     \/ /\ f = "WRONG" /\ mismatch_count < 2
        /\ mismatch_count' = mismatch_count + 1 /\ owed' = q
        /\ UNCHANGED <<pc, session, guard, result, owned, echoed, transmitted>>
     \/ /\ \/ f \in {"FAILED", "ERROR_EBUS"}
           \/ f = "WRONG" /\ mismatch_count = 2
        /\ ResetParser(q) /\ End("collision")
        /\ UNCHANGED <<mismatch_count, echoed, transmitted>>
     \/ /\ f = "ERROR_HOST"
        /\ ResetParser(q) /\ End("host")
        /\ UNCHANGED <<mismatch_count, echoed, transmitted>>
     \/ /\ f = "RESETTED" /\ AdapterReset("collision")
        /\ UNCHANGED <<mismatch_count, echoed, transmitted>>
     \/ /\ f \in GrantFrames
        /\ \E rest \in Drained(q) : SendTelegram(rest)
        /\ guard' = TRUE /\ owned' = TRUE
        /\ UNCHANGED <<session, mismatch_count, result>>
  /\ UNCHANGED <<request, nacks, crc_errors, ending, admitted, accepted>>

-----------------------------------------------------------------------------
(* _recv_bus_symbol, and what each caller does with the symbol.            *)

(* An attempt that was only releasing the bus for a NACKed command or for  *)
(* its hook keeps that result and closes when the release fails.           *)
Releasing == pc = "eom" /\ ending \in {"nack", "hook_raised"}
Fails(r, line) ==
  IF Releasing THEN Close /\ End(ending) ELSE line /\ End(r)

BusWaits == {"send", "ack", "reply", "answer", "eom"}

(* Frames that are not bus symbols.                                        *)
ControlRead(f, q) ==
  /\ pc \in BusWaits
  /\ \/ /\ \/ f = "INFO"
           \/ guard /\ f = "SYN"
        /\ owed' = q /\ UNCHANGED <<pc, session, guard, owned, result>>
     \/ f = "RESETTED" /\ IF Releasing THEN Close /\ End(ending) ELSE AdapterReset("timeout")
     \/ f = "FAILED" /\ Fails("collision", KeepQueue(q))
     \/ f = "ERROR_EBUS" /\ Fails("error", KeepQueue(q))
     \/ f = "ERROR_HOST" /\ Fails("host", KeepQueue(q))
     \/ f \in {"STARTED", "WRONG", "UNKNOWN"} /\ Fails("error", ResetParser(q))
  /\ UNCHANGED <<request, progress, mismatch_count, admitted, transmitted, accepted>>

SymbolRead(f) == f \in Symbols /\ ~(guard /\ f = "SYN")

GuardAfterSymbol == FALSE

(* _send_symbol_with_echo for the symbols of the telegram.                 *)
TelegramEcho(f, q) ==
  /\ pc = "send" /\ SymbolRead(f)
  /\ guard' = GuardAfterSymbol /\ UNCHANGED <<session, owned>>
  /\ \/ /\ f = "echo" /\ echoed' = echoed + 1
        /\ \/ /\ echoed' < telegram.pieces
              /\ owed' = Owe(q, Answers(echoed' + 1)) /\ UNCHANGED <<pc, ending, result>>
           \/ /\ echoed' = telegram.pieces /\ telegram.expects = "none"
              /\ SendEndOfMessage("ok", q)
           \/ /\ echoed' = telegram.pieces /\ telegram.expects # "none"
              /\ pc' = "ack" /\ owed' = q /\ UNCHANGED <<ending, result>>
     \/ /\ f # "echo" /\ End("collision") /\ owed' = q /\ UNCHANGED <<echoed, ending>>
  /\ UNCHANGED <<request, nacks, crc_errors, mismatch_count, admitted, transmitted, accepted>>

(* Mutant of Readmitted: a repetition that is not admitted.                *)
NotReadmitted == admitted
MayRepeat == telegram.safe /\ nacks < NackMax
Readmitted == admitted + 1

(* The command acknowledgement.  A NACKed recognized read is repeated      *)
(* without a new arbitration, unless its hook raises.                      *)
CommandAck(f, q) ==
  /\ pc = "ack" /\ SymbolRead(f)
  /\ \/ /\ f = "NACK" /\ MayRepeat
        /\ nacks' = nacks + 1
        /\ \/ SendTelegram(q) /\ admitted' = Readmitted /\ UNCHANGED <<ending, result>>
           \/ SendEndOfMessage("hook_raised", q) /\ UNCHANGED <<echoed, admitted, transmitted>>
        /\ UNCHANGED owned
     \/ /\ f = "NACK" /\ ~MayRepeat
        /\ SendEndOfMessage("nack", q)
        /\ UNCHANGED <<owned, nacks, echoed, admitted, transmitted>>
     \/ /\ f = "SYN" /\ End("syn") /\ owned' = FALSE /\ owed' = q
        /\ UNCHANGED <<nacks, ending, echoed, admitted, transmitted>>
     \/ /\ f = "ACK"
        /\ \/ telegram.expects = "reply" /\ pc' = "reply" /\ owed' = q /\ UNCHANGED <<ending, result>>
           \/ telegram.expects = "ack" /\ SendEndOfMessage("ok", q)
        /\ UNCHANGED <<owned, nacks, echoed, admitted, transmitted>>
     \/ /\ f \notin {"ACK", "NACK", "SYN"} /\ End("sync_ack") /\ owed' = q
        /\ UNCHANGED <<owned, nacks, ending, echoed, admitted, transmitted>>
  /\ guard' = FALSE
  /\ UNCHANGED <<session, request, crc_errors, mismatch_count, accepted>>

(* The response telegram: accepted when its CRC is right, asked for once   *)
(* more when it is wrong, given up at a SYN or a malformed escape.         *)
Response(f, from, q) ==
  /\ pc = "reply" /\ SymbolRead(f)
  /\ \/ /\ f = "good"
        /\ pc' = "answer" /\ ending' = "ok" /\ accepted' = from
        /\ owed' = Owe(q, <<"echo">>) /\ guard' = FALSE
        /\ UNCHANGED <<session, owned, result, crc_errors>>
     \/ /\ f \notin {"good", "SYN"}
        /\ pc' = "answer" /\ crc_errors' = crc_errors + 1
        /\ ending' = (IF crc_errors = 0 THEN "again" ELSE "crc")
        /\ owed' = Owe(q, IF crc_errors = 0 THEN <<"echo", "reply">> ELSE <<"echo">>)
        /\ guard' = FALSE /\ UNCHANGED <<session, owned, result, accepted>>
     \/ /\ f \in {"SYN", "foreign"}
        /\ ResetParser(q) /\ End("session_error")
        /\ UNCHANGED <<ending, accepted, crc_errors>>
  /\ UNCHANGED <<request, echoed, nacks, mismatch_count, admitted, transmitted>>

(* The echo of the ACK or NACK that answers the response.                  *)
ResponseAnswered(f, q) ==
  /\ pc = "answer" /\ SymbolRead(f)
  /\ \/ /\ f = "echo"
        /\ \/ ending = "again" /\ pc' = "reply" /\ owed' = q /\ UNCHANGED <<ending, result>>
           \/ ending # "again" /\ SendEndOfMessage(ending, q)
     \/ f # "echo" /\ End("collision") /\ owed' = q /\ UNCHANGED ending
  /\ guard' = FALSE
  /\ UNCHANGED <<session, request, echoed, nacks, crc_errors, mismatch_count, history>>

(* The echo of the end-of-message SYN: the bus is released.                *)
EndOfMessage(f, q) ==
  /\ pc = "eom" /\ SymbolRead(f)
  /\ \/ /\ f \in {"echo", "SYN"} /\ End(ending) /\ owned' = FALSE
        /\ guard' = FALSE /\ UNCHANGED session
        /\ IF ending = "hook_raised" THEN owed' \in Drained(q) ELSE owed' = q
     \/ f \notin {"echo", "SYN"} /\ Fails("collision", KeepQueue(q))
  /\ UNCHANGED <<request, progress, mismatch_count, admitted, transmitted, accepted>>

(* The INFO answer.  Bus symbols are unrelated traffic.                    *)
InfoRead(f, from, q) ==
  /\ pc = "info"
  /\ \/ f = "INFO" /\ End("info") /\ accepted' = from /\ KeepLine(q)
     \/ f \in Symbols /\ KeepLine(q) /\ UNCHANGED <<pc, result, accepted>>
     \/ f = "ERROR_HOST" /\ End("host") /\ KeepLine(q) /\ UNCHANGED accepted
     \/ f = "ERROR_EBUS" /\ End("error") /\ KeepLine(q) /\ UNCHANGED accepted
     \/ f = "RESETTED" /\ AdapterReset("timeout") /\ UNCHANGED accepted
     \/ /\ f \in {"STARTED", "WRONG", "FAILED", "UNKNOWN"}
        /\ ResetParser(q) /\ End("error") /\ UNCHANGED accepted
  /\ UNCHANGED <<request, progress, mismatch_count, admitted, transmitted>>

Read ==
  \E r \in Readable :
    \/ ArbitrationRead(r.frame, r.rest)
    \/ ControlRead(r.frame, r.rest)
    \/ TelegramEcho(r.frame, r.rest)
    \/ CommandAck(r.frame, r.rest)
    \/ Response(r.frame, r.from, r.rest)
    \/ ResponseAnswered(r.frame, r.rest)
    \/ EndOfMessage(r.frame, r.rest)
    \/ InfoRead(r.frame, r.from, r.rest)

(* Nothing came in time: recv timed out, and _read_message reset the       *)
(* parser, or the phase's own deadline passed between two frames.          *)
ReadTimeout ==
  /\ pc # "idle"
  /\ \/ Fails("timeout", ResetParser(owed))
     \/ Fails(IF pc = "arb" THEN "collision" ELSE "timeout", KeepQueue(owed))
  /\ UNCHANGED <<request, progress, mismatch_count, admitted, transmitted, accepted>>

(* Sending or receiving fails, the peer closes, or the third malformed     *)
(* byte in a row arrives.                                                  *)
ConnectionLost ==
  /\ pc # "idle" /\ Close
  /\ \E r \in {"timeout", "session_error", "disconnected", "error"} :
       End(IF Releasing THEN ending ELSE r)
  /\ UNCHANGED <<request, progress, mismatch_count, admitted, transmitted, accepted>>

(* The operation's elapsed budget is found spent: the policy, or           *)
(* request_info, closes the connection.  While the bus is released for a   *)
(* hook that raised, the hook's exception goes first.                      *)
DeadlineExpires ==
  /\ pc # "idle" /\ Close
  /\ End(IF pc = "eom" /\ ending = "hook_raised" THEN ending ELSE "deadline")
  /\ UNCHANGED <<request, progress, mismatch_count, admitted, transmitted, accepted>>

Next ==
  \/ Open \/ CloseSession \/ StartAttempt \/ RequestInfo
  \/ Read \/ ReadTimeout \/ ConnectionLost \/ DeadlineExpires

Spec == Init /\ [][Next]_vars

-----------------------------------------------------------------------------
Frames ==
  [what : {"grant", "echo", "last", "ack", "reply", "info"}, op : 1..MaxOps, telegram : Telegrams]
TypeOK ==
  /\ pc \in Waits \union {"idle"} /\ session \in {"open", "closed"}
  /\ owed \in Seq(Frames) /\ op \in 0..MaxOps /\ telegram \in Telegrams
  /\ echoed \in 0..telegram.pieces /\ nacks \in 0..NackMax /\ crc_errors \in 0..2
  /\ ending \in {"none", "ok", "nack", "crc", "again", "hook_raised"}
  /\ mismatch_count \in 0..2 /\ guard \in BOOLEAN /\ result \in Results
  /\ admitted \in 0..(NackMax + 1) /\ transmitted \in 0..(NackMax + 1)
  /\ owned \in BOOLEAN /\ accepted \in SUBSET Frames

(* A reply handed to the caller was sent by the target for this telegram   *)
(* or an identical one, not for another whose answer was still travelling  *)
(* when its read timed out: whatever is in flight is skipped until the bus *)
(* is granted, a grant that comes late ends the attempt that meets it, and *)
(* only its own echoes take an attempt to its reply.                       *)
ReplyIsOurs ==
  result = "ok" =>
    {frame.telegram : frame \in accepted} = IF telegram.expects = "reply" THEN {telegram} ELSE {}

(* Every telegram put on the bus was admitted first, so the scan's request *)
(* budget and the reported request_attempts count them all (README: "Send  *)
(* accounting includes ... internal retransmissions").                     *)
TelegramsAdmitted == TypeOK /\ transmitted <= admitted

(* The policy's view of an attempt is right: EnhancedPolicy!AttemptEnds    *)
(* says what each exception may leave of the connection.                   *)
AttemptEnds ==
  [timeout       |-> {"open", "closed"},
   host          |-> {"open", "closed"},
   disconnected  |-> {"closed"},
   collision     |-> {"open"},
   crc           |-> {"open"},
   nack          |-> {"open", "closed"},
   syn           |-> {"open"},
   sync_ack      |-> {"open"},
   session_error |-> {"open", "closed"},
   error         |-> {"open", "closed"}]
EndsAsThePolicyExpects ==
  pc = "idle" /\ result \in DOMAIN AttemptEnds => session \in AttemptEnds[result]

(* eBUS ownership: an attempt that ends on a connection that stays up with *)
(* a result the policy treats as an orderly end of the transaction has     *)
(* given the bus back; and XR-SYN-GUARD discards an idle SYN only between  *)
(* the grant and the first echo, never the SYN that ends a transaction.    *)
GuardOnlyBeforeFirstEcho == guard => pc = "send" /\ echoed = 0
BusGivenBack ==
  /\ pc = "idle" /\ session = "open" /\ result \in {"ok", "crc", "nack", "syn", "hook_raised"} =>
       ~owned
  /\ GuardOnlyBeforeFirstEcho

(* An attempt leaves the connection as the retry policy assumes for its    *)
(* exception, has given the bus back when the connection stays up, and     *)
(* skips an idle SYN only before the first echo.                           *)
AttemptEndsOrderly == EndsAsThePolicyExpects /\ BusGivenBack

(* An INFO answer handed to the caller belongs to this query, or is noise  *)
(* no query caused.                                                        *)
InfoIsOurs == result = "info" => \A frame \in accepted : frame.op = op

(* Telegrams for TLC: recognized reads of one and of two pieces, and other *)
(* requests, one of them as short as a read and with a reply, one with an  *)
(* acknowledgement only, one a broadcast.                                  *)
Telegram(isSafe, back, n) == [safe |-> isSafe, expects |-> back, pieces |-> n, content |-> 0]
FewTelegrams ==
  {Telegram(TRUE, "reply", 1), Telegram(TRUE, "reply", 2), Telegram(FALSE, "reply", 1),
   Telegram(FALSE, "ack", 2), Telegram(FALSE, "none", 1)}
=============================================================================
